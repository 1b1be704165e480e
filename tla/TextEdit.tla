------------------------------ MODULE TextEdit ------------------------------
(***************************************************************************)
(* One object edited on several devices, a text or a checklist             *)
(* (packages/sync/src/engine.ts: editText, updateObjectContent,            *)
(* retypeObject, continueOnDevice, docFor and the handlers of YJS_UPDATE   *)
(* and UPDATE_OBJECT; the editors of Inbox.tsx and Library.tsx).           *)
(*                                                                         *)
(* Every device keeps the object's row, which the screen shows, the Yjs    *)
(* document that merges edits in memory (ydocs), and its encoding in the   *)
(* database.  docFor builds the document across an await when there is     *)
(* none in memory, so two callers can each build one; the later one stays  *)
(* in the map while the earlier caller goes on with its own.  So it is     *)
(* with the row: who replaces it reads it first and writes it across an    *)
(* await, with what it has read.                                           *)
(*                                                                         *)
(* A text is the set of its letters, a document the characters inserted    *)
(* and those deleted: where a character stands and how often a letter      *)
(* occurs do not matter to the properties.  The object is created with the *)
(* letter 0 and the n-th save may type the letter n, or add the item n to  *)
(* a checklist, which has no document: its row is replaced as a whole, by  *)
(* the update that claims the latest time.  A letter from Ticked on is the *)
(* line of an item that is done.                                           *)
(***************************************************************************)
EXTENDS Naturals, FiniteSets, Sequences

CONSTANTS Device,
          Null,
          Fast,         \* the devices whose clock is ahead of the others'
          MaxSaves,
          MaxEvents     \* retypings, hand-offs and reloads together

ASSUME DevicesAssumption == Fast \subseteq Device

VARIABLES row,      \* db.objects: type, content and updatedAt
          docs,     \* ydocs: the documents built since the start; the last
                    \* one is in the map, the others only with their callers
          disk,     \* db.ydocs
          draft,    \* the text in the open editor
          user,     \* the call of editText or continueOnDevice in progress
          retyping, \* the call of retypeObject in progress
          inbound,  \* the YJS_UPDATE being handled ...
          replacing,\* ... or the UPDATE_OBJECT; the engine takes one at a time
          updates,      \* envelopes on their way, in any order
          spent,    \* how much of each bound is used up
          known,    \* history: what a device has announced or taken in
          forked,   \* history: devices on which two documents were built
          reset,    \* history: devices that were reloaded
          overruled,\* history: devices whose row was replaced, not its document
          overtaken,\* history: devices on which who replaced the row had
                    \* not read what another task had written meanwhile
          clobbered \* history: devices on which a text was put in a checklist

store == <<row, docs, disk>>
tasks == <<user, retyping, inbound, replacing>>
ghosts == <<known, forked, reset, overruled, overtaken, clobbered>>
textVars == <<store, draft, tasks, updates, spent, ghosts>>

Others(d) == Device \ {d}
Use(what) == spent' = [spent EXCEPT ![what] = @ + 1]

(* Time passes with what is used up: two updates have different times,     *)
(* unless the clocks differ.                                               *)
now(d) == spent.save + spent.event + (IF d \in Fast THEN 2 ELSE 0)
soon(d) == now(d) + 1

-----------------------------------------------------------------------------
(* Contents: {text} or {items}; a field that is missing reads as empty.    *)

Ticked == 10
TextContent(t) == [text |-> t, items |-> {}, done |-> {}]
ChecklistContent(i, d) == [text |-> {}, items |-> i, done |-> d]

(* convertObjectContent: each line becomes an item, each item a line.      *)
ToItems(t) == ChecklistContent({l % Ticked : l \in t}, {l - Ticked : l \in {m \in t : m >= Ticked}})
ToText(c) == TextContent((c.items \ c.done) \union {i + Ticked : i \in c.done})
Converted(from, to, c) ==
    IF from = to THEN c ELSE IF to = "checklist" THEN ToItems(c.text) ELSE ToText(c)

-----------------------------------------------------------------------------
(* Documents. *)

Empty == [ins |-> {}, del |-> {}]
Merge(x, y) == [ins |-> x.ins \union y.ins, del |-> x.del \union y.del]
Within(x, y) == x.ins \subseteq y.ins /\ x.del \subseteq y.del
LettersOf(x) == {c.letter : c \in x.ins \ x.del}

(* What is loaded from a row of db.ydocs. *)
Loaded(state) == IF state = Null THEN Empty ELSE state

(* The characters of text, new: id tells one insertion from another.       *)
Insert(x, text, id) ==
    [x EXCEPT !.ins = @ \union {[letter |-> l, id |-> id] : l \in text}]

(* A deletion that leaves no trace: mutated form of Splice.                *)
SpliceAway(x, text, mid, id) ==
    LET out == {c \in x.ins : c.letter \notin text \/ c.letter \in mid}
    IN  Insert([x EXCEPT !.ins = @ \ out],
               (text \ LettersOf(x)) \union mid, id)

(* applyTextDiff: one splice from the first difference to the last; what   *)
(* stands between two differences (mid) is deleted and typed again.        *)
Splice(x, text, mid, id) ==
    LET out == {c \in x.ins \ x.del : c.letter \notin text \/ c.letter \in mid}
    IN  Insert([x EXCEPT !.del = @ \union out],
               (text \ LettersOf(x)) \union mid, id)

Middles(x, text) ==
    LET changed == (LettersOf(x) \ text) \union (text \ LettersOf(x))
    IN  IF Cardinality(changed) < 2 THEN {{}}
        ELSE SUBSET (LettersOf(x) \intersect text)

-----------------------------------------------------------------------------
(* sendObject seeds a document for a text and everyone gets it with the    *)
(* object; one from a device without Yjs comes with none, as a checklist.  *)
Created(type, content, seed) ==
    /\ row = [d \in Device |-> [type |-> type, content |-> content, at |-> 0]]
    /\ disk = [d \in Device |-> seed]
    /\ docs = [d \in Device |-> IF seed = Null THEN <<>> ELSE <<seed>>]

TextInit ==
    /\ \/ \E seed \in {Null, Insert(Empty, {0}, <<Null, 0, "seed">>)} :
            Created("text", TextContent({0}), seed)
       \/ Created("checklist", ChecklistContent({0}, {}), Null)
    /\ draft = [d \in Device |-> Null]
    /\ user = [d \in Device |-> Null] /\ retyping = [d \in Device |-> Null]
    /\ inbound = [d \in Device |-> Null] /\ replacing = [d \in Device |-> Null]
    /\ updates = {}
    /\ spent = [save |-> 0, event |-> 0]
    /\ known = [d \in Device |-> Empty]
    /\ forked = {} /\ reset = {}
    /\ overruled = {} /\ overtaken = {} /\ clobbered = {}

(* The editor opens, for the first time or again, with the text of the row *)
(* and keeps it as its draft whatever arrives while it is open.            *)
OpenEditor(d) ==
    /\ row[d].type = "text"
    /\ draft' = [draft EXCEPT ![d] = row[d].content.text]
    /\ UNCHANGED <<store, tasks, updates, spent, ghosts>>

(* The user types or deletes a letter and the editor calls editText, which *)
(* looks whether the object has a document in memory or on disk; if not    *)
(* the text of the row is to be put in first.                              *)
Save(d) ==
    /\ draft[d] # Null /\ row[d].type = "text"
    /\ user[d] = Null /\ spent.save < MaxSaves
    /\ \E text \in {draft[d] \ {l} : l \in draft[d]}
                     \union {draft[d] \union {spent.save + 1}} :
         /\ draft' = [draft EXCEPT ![d] = text]
         /\ user' = [user EXCEPT ![d] =
              [call |-> "edit", pc |-> "doc", text |-> text, ref |-> 0,
               state |-> Empty, removed |-> draft[d] \ text,
               seed |-> IF docs[d] = <<>> /\ disk[d] = Null
                        THEN row[d].content.text ELSE {}]]
    /\ Use("save")
    /\ UNCHANGED <<store, retyping, inbound, replacing, updates, ghosts>>

(* continueOnDevice: hands the object and its document to device to, which *)
(* has the object; a checklist has no document.                            *)
HandOff(d, to) ==
    /\ user[d] = Null /\ row[d].type = "text" /\ spent.event < MaxEvents
    /\ user' = [user EXCEPT ![d] =
         [call |-> "handoff", pc |-> "doc", to |-> to, ref |-> 0,
          state |-> Empty]]
    /\ Use("event")
    /\ UNCHANGED <<store, draft, retyping, inbound, replacing, updates, ghosts>>

-----------------------------------------------------------------------------
(* docFor: the document in memory, or one built from the database.         *)

Reads(task, d) == [task EXCEPT !.pc = "build", !.state = Loaded(disk[d])]

(* editText, with document x at hand: the changed documents it may make.   *)
Edits(x, d) ==
    LET task == user[d]
        y == Insert(x, task.seed, <<d, spent.save, "seed">>)
    IN  {Splice(y, task.text, mid, <<d, spent.save, "typed">>) :
           mid \in Middles(y, task.text)}

(* With its document, at position ref of known_docs, editText changes and  *)
(* saves it; continueOnDevice only encodes it.                             *)
WithDoc(d, ref, known_docs) ==
    IF user[d].call = "edit"
    THEN \E x \in Edits(known_docs[ref], d) :
           /\ docs' = [docs EXCEPT ![d] = [known_docs EXCEPT ![ref] = x]]
           /\ disk' = [disk EXCEPT ![d] = x]
           /\ user' = [user EXCEPT ![d].ref = ref, ![d].pc = "row"]
    ELSE /\ docs' = [docs EXCEPT ![d] = known_docs]
         /\ disk' = disk
         /\ user' = [user EXCEPT ![d].ref = ref, ![d].pc = "send"]

UserDoc(d) ==
    /\ user[d] # Null /\ user[d].pc = "doc"
    /\ IF docs[d] # <<>>
       THEN WithDoc(d, Len(docs[d]), docs[d])
       ELSE /\ user' = [user EXCEPT ![d] = Reads(@, d)]
            /\ UNCHANGED <<docs, disk>>
    /\ UNCHANGED <<row, draft, retyping, inbound, replacing, updates, spent, ghosts>>

(* The document is built and put into the map, over another one if the     *)
(* other task has built one meanwhile.                                     *)
Forks(d) == forked' = IF docs[d] = <<>> THEN forked ELSE forked \union {d}

UserBuild(d) ==
    /\ user[d] # Null /\ user[d].pc = "build"
    /\ WithDoc(d, Len(docs[d]) + 1, Append(docs[d], user[d].state))
    /\ Forks(d)
    /\ UNCHANGED <<row, draft, retyping, inbound, replacing, updates, spent, known,
                   reset, overruled, overtaken, clobbered>>

(* The text editText writes into the row, whatever has become of its type; *)
(* the mutated form writes what the user typed.                            *)
AsTyped(x, task) == task.text
Merged(x, task) == LettersOf(x)

UserRow(d) ==
    /\ user[d] # Null /\ user[d].pc = "row"
    /\ row' = [row EXCEPT ![d].at = now(d),
         ![d].content = TextContent(Merged(docs[d][user[d].ref], user[d]))]
    /\ user' = [user EXCEPT ![d].pc = "send"]
    /\ clobbered' = IF row[d].type = "text" THEN clobbered ELSE clobbered \union {d}
    /\ UNCHANGED <<docs, disk, draft, retyping, inbound, replacing, updates, spent,
                   known, forked, reset, overruled, overtaken>>

(* broadcastOps of the whole document, or the envelope of a hand-off.      *)
UserSend(d) ==
    /\ user[d] # Null /\ user[d].pc = "send"
    /\ LET x == docs[d][user[d].ref]
           to == IF user[d].call = "edit" THEN Others(d) ELSE {user[d].to}
       IN  /\ updates' = updates \union {[op |-> "yjs", to |-> e, state |-> x] : e \in to}
           /\ known' = IF user[d].call = "edit"
                       THEN [known EXCEPT ![d] = Merge(@, x)] ELSE known
    /\ user' = [user EXCEPT ![d] = Null]
    /\ UNCHANGED <<store, draft, retyping, inbound, replacing, spent, forked, reset,
                   overruled, overtaken, clobbered>>

(* broadcastOps of an UPDATE_OBJECT; it carries the type when that changes.*)
Update(d, type, content, at) ==
    updates' = updates \union {[op |-> "update", to |-> e, type |-> type,
                        content |-> content, at |-> at] : e \in Others(d)}

(* retypeObject, between two kinds of text or between text and checklist,  *)
(* reads the row and looks at the clock ...                                *)
Retype(d, type) ==
    /\ retyping[d] = Null /\ spent.event < MaxEvents
    /\ "text" \in {type, row[d].type}
    /\ retyping' = [retyping EXCEPT ![d] = [type |-> type, saw |-> row[d], at |-> soon(d)]]
    /\ Use("event")
    /\ UNCHANGED <<store, draft, user, inbound, replacing, updates, ghosts>>

(* A row that is not the one its writer has read.                          *)
Overtakes(d, saw) ==
    overtaken' = IF row[d] = saw THEN overtaken ELSE overtaken \union {d}

(* ... and writes and announces what it has read there in its new form.    *)
RetypeRow(d) ==
    /\ retyping[d] # Null
    /\ LET type == retyping[d].type
           saw == retyping[d].saw
           at == retyping[d].at
           content == Converted(saw.type, type, saw.content)
       IN  /\ row' = [row EXCEPT ![d] =
                         [type |-> type, content |-> content, at |-> at]]
           /\ Update(d, type, content, at)
           /\ overruled' = IF type = row[d].type THEN overruled ELSE overruled \union {d}
           /\ Overtakes(d, saw)
    /\ retyping' = [retyping EXCEPT ![d] = Null]
    /\ UNCHANGED <<docs, disk, draft, user, inbound, replacing, spent, known, forked,
                   reset, clobbered>>

(* updateObjectContent: an item of the checklist is ticked, or one added.  *)
Toggle(d) ==
    /\ row[d].type = "checklist" /\ spent.save < MaxSaves
    /\ LET c == row[d].content
       IN  \E next \in {ChecklistContent(c.items, (c.done \union {i}) \ (c.done \intersect {i})) :
                            i \in c.items}
                         \union {ChecklistContent(c.items \union {spent.save + 1}, c.done)} :
             /\ row' = [row EXCEPT ![d].content = next, ![d].at = soon(d)]
             /\ Update(d, Null, next, soon(d))
    /\ Use("save")
    /\ UNCHANGED <<docs, disk, draft, tasks, ghosts>>

-----------------------------------------------------------------------------
(* What arrives. *)

(* UPDATE_OBJECT: the later one wins; the mutated form takes them all.     *)
TakesAll(m, d) == TRUE
Wins(m, d) == m.at >= row[d].at

Free(d) == inbound[d] = Null /\ replacing[d] = Null

(* The row is read and its time compared ...                               *)
TakeUpdate(d, m) ==
    /\ Free(d) /\ m.op = "update"
    /\ updates' = updates \ {m}
    /\ replacing' = IF Wins(m, d)
                    THEN [replacing EXCEPT ![d] = [update |-> m, saw |-> row[d]]]
                    ELSE replacing
    /\ UNCHANGED <<store, draft, user, retyping, inbound, spent, ghosts>>

(* ... and then written, whatever it has become.                           *)
UpdateRow(d) ==
    /\ replacing[d] # Null
    /\ LET m == replacing[d].update
       IN  row' = [row EXCEPT ![d] =
             [type |-> IF m.type = Null THEN @.type ELSE m.type,
              content |-> m.content, at |-> m.at]]
    /\ overruled' = overruled \union {d}
    /\ Overtakes(d, replacing[d].saw)
    /\ replacing' = [replacing EXCEPT ![d] = Null]
    /\ UNCHANGED <<docs, disk, draft, user, retyping, inbound, updates, spent, known,
                   forked, reset, clobbered>>

(* YJS_UPDATE; its handler looks at the clock when it begins.              *)
TakeYjs(d, m) ==
    /\ Free(d) /\ m.op = "yjs"
    /\ updates' = updates \ {m}
    /\ inbound' = [inbound EXCEPT ![d] =
         [pc |-> "doc", update |-> m.state, state |-> Empty, ref |-> 0,
          at |-> now(d), saw |-> {}]]
    /\ UNCHANGED <<store, draft, user, retyping, replacing, spent, ghosts>>

(* What the handler saves: the mutated form saves what it was sent.        *)
OnlyTheUpdate(x, update) == update
Saved(x, update) == Merge(x, update)

Applied(d, ref, known_docs) ==
    LET x == known_docs[ref]
        u == inbound[d].update
    IN  /\ docs' = [docs EXCEPT ![d] = [known_docs EXCEPT ![ref] = Merge(x, u)]]
        /\ disk' = [disk EXCEPT ![d] = Saved(x, u)]
        /\ inbound' = [inbound EXCEPT ![d].pc = "row", ![d].ref = ref]

InboundDoc(d) ==
    /\ inbound[d] # Null /\ inbound[d].pc = "doc"
    /\ IF docs[d] # <<>>
       THEN Applied(d, Len(docs[d]), docs[d])
       ELSE /\ inbound' = [inbound EXCEPT ![d] = Reads(@, d)]
            /\ UNCHANGED <<docs, disk>>
    /\ UNCHANGED <<row, draft, user, retyping, replacing, updates, spent, ghosts>>

InboundBuild(d) ==
    /\ inbound[d] # Null /\ inbound[d].pc = "build"
    /\ Applied(d, Len(docs[d]) + 1, Append(docs[d], inbound[d].state))
    /\ Forks(d)
    /\ UNCHANGED <<row, draft, user, retyping, replacing, updates, spent, known, reset,
                   overruled, overtaken, clobbered>>

(* The handler is done with its update.                                    *)
Handled(d) ==
    /\ known' = [known EXCEPT ![d] = Merge(@, inbound[d].update)]
    /\ inbound' = [inbound EXCEPT ![d] = Null]

(* It reads the row: a text is to be compared with the document ...        *)
InboundRow(d) ==
    /\ inbound[d] # Null /\ inbound[d].pc = "row"
    /\ IF row[d].type = "text"
       THEN /\ inbound' = [inbound EXCEPT ![d].pc = "write",
                                         ![d].saw = row[d].content.text]
            /\ known' = known
       ELSE Handled(d)
    /\ UNCHANGED <<store, draft, user, retyping, replacing, updates, spent, forked,
                   reset, overruled, overtaken, clobbered>>

(* ... and the row written if they differ, whatever has become of it.      *)
InboundWrite(d) ==
    /\ inbound[d] # Null /\ inbound[d].pc = "write"
    /\ LET text == LettersOf(docs[d][inbound[d].ref])
       IN  IF text = inbound[d].saw THEN UNCHANGED <<row, clobbered>>
           ELSE /\ row' = [row EXCEPT ![d].content = TextContent(text),
                                      ![d].at = inbound[d].at]
                /\ clobbered' = IF row[d].type = "text" THEN clobbered
                                ELSE clobbered \union {d}
    /\ Handled(d)
    /\ UNCHANGED <<docs, disk, draft, user, retyping, replacing, updates, spent, forked,
                   reset, overruled, overtaken>>

(* The page is reloaded: what is in memory and under way is gone.          *)
Reload(d) ==
    /\ spent.event < MaxEvents
    /\ docs' = [docs EXCEPT ![d] = <<>>]
    /\ draft' = [draft EXCEPT ![d] = Null]
    /\ user' = [user EXCEPT ![d] = Null]
    /\ retyping' = [retyping EXCEPT ![d] = Null]
    /\ inbound' = [inbound EXCEPT ![d] = Null]
    /\ replacing' = [replacing EXCEPT ![d] = Null]
    /\ reset' = reset \union {d}
    /\ Use("event")
    /\ UNCHANGED <<row, disk, updates, known, forked, overruled, overtaken, clobbered>>

TextNext ==
    \E d \in Device :
      \/ OpenEditor(d) \/ Save(d) \/ Toggle(d) \/ Reload(d)
      \/ \E type \in {"text", "checklist"} : Retype(d, type)
      \/ RetypeRow(d)
      \/ UserDoc(d) \/ UserBuild(d) \/ UserRow(d) \/ UserSend(d)
      \/ InboundDoc(d) \/ InboundBuild(d) \/ InboundRow(d) \/ InboundWrite(d)
      \/ UpdateRow(d)
      \/ \E e \in Others(d) : HandOff(d, e)
      \/ \E m \in {x \in updates : x.to = d} : TakeUpdate(d, m) \/ TakeYjs(d, m)

TextSpec == TextInit /\ [][TextNext]_textVars

-----------------------------------------------------------------------------
(* Properties. *)

Resting(d) == user[d] = Null /\ retyping[d] = Null /\ Free(d)

(* What a device has told the others of, or has taken in from them, is in  *)
(* its database and so survives a reload, unless two documents were built  *)
(* at once and one was saved over the other (docFor, persistDoc).          *)
NothingForgotten ==
    \A d \in Device \ forked :
      disk[d] = Null \/ Within(known[d], disk[d])

(* Local edits and updates that interleave leave a row that shows the      *)
(* merged text.  The exceptions are a device reloaded between the two      *)
(* writes, two documents built at once, a row that an UPDATE_OBJECT or a   *)
(* conversion replaced without touching the document, and one retypeObject *)
(* wrote back as it had read it, over a text that came in between.         *)
RowShowsDocument ==
    \A d \in Device \ (forked \union reset \union overruled \union overtaken) :
      Resting(d) /\ disk[d] # Null /\ row[d].type = "text" =>
        row[d].content.text = LettersOf(disk[d])

AtRest == updates = {} /\ \A d \in Device : Resting(d)

TextsAgree ==
    AtRest /\ forked = {} /\ reset = {} =>
      \A d, e \in Device \ (overruled \union overtaken) :
        disk[d] # Null /\ disk[e] # Null => row[d].content = row[e].content

Checklists == {d \in Device : row[d].type = "checklist"}
ListsAgree ==
    AtRest /\ reset = {} =>
      \A d, e \in Checklists \ (clobbered \union overtaken) :
        row[d].content = row[e].content

(* When nothing is on its way and nobody is at work, two devices that have *)
(* saved a document show the same text, with the same exceptions: order    *)
(* and interleaving of the edits do not matter (editText: "idempotent and  *)
(* order-independent"); and two devices on which the object is a checklist *)
(* show the same items (updateObjectContent: "last-write-wins"), unless a  *)
(* page was reloaded with an update at hand, a text was put in their place *)
(* or a row was replaced that had changed since its writer read it.        *)
Agree == TextsAgree /\ ListsAgree

(* Not so: retypeObject "syncs both the type and content change to other   *)
(* devices".  A device that has edited or ticked meanwhile refuses it.     *)
TypesAgree == AtRest => \A d, e \in Device : row[d].type = row[e].type

(* Not so: what a checklist holds are items.  editText and the handler of  *)
(* YJS_UPDATE write a text into a row that was retyped since they looked.  *)
ShapeFitsType == \A d \in Checklists : row[d].content.text = {}

(* Not so: "concurrent edits on other devices merge instead of             *)
(* overwriting" (editText).  A save deletes what reached the document      *)
(* after the editor was opened, for the draft does not have it.            *)
Gone(d) == disk'[d].del \ Loaded(disk[d]).del
EditsMerge ==
    [][\A d \in Device :
         user[d] # Null /\ user'[d] # Null /\ user'[d].pc = "row"
           /\ user[d].pc # "row" =>
         \A c \in Gone(d) :
           c.letter \in user[d].removed \union LettersOf(disk'[d])]_textVars

(* Not so: a hand-off is "idempotent if the device already has it"         *)
(* (continueOnDevice).  Without a document it sends an empty one, and the  *)
(* text of the other device is blanked.                                    *)
HandOffKeepsText ==
    [][\A d \in Device :
         inbound[d] # Null /\ inbound'[d] = Null /\ row'[d] # row[d] =>
           inbound[d].update # Empty]_textVars
=============================================================================
