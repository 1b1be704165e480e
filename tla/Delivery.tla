------------------------------ MODULE Delivery ------------------------------
(***************************************************************************)
(* The life of a delivery at both ends: the sender's row, the recipient's  *)
(* row and copy of the object, the receipts between them                   *)
(* (packages/sync/src/engine.ts), and what the desktop agent does with a   *)
(* command it receives (apps/agent/src/handleObject.ts).                   *)
(*                                                                         *)
(* Envelopes travel by the relay, by direct channels, in the outbox or     *)
(* with a carrier: they arrive in any order or not at all, but each at     *)
(* most once (the seen table).  The recipient's calls await the database   *)
(* and the sending between their steps, and two of them may overlap; so    *)
(* may the sender's, which write into its row what they decided on before. *)
(***************************************************************************)
EXTENDS Integers, Sequences, FiniteSets

CONSTANTS
  Object,
  Scenario,     (* what is sent, and to what: the recipient is an agent or  *)
                (* not, and each object sent is a Payload                   *)
  MaxRetries,   (* bound: retries, resendings and hand-offs                 *)
  MaxCalls      (* bound: calls of the recipient in progress at once        *)

ASSUME BoundsAreNat == MaxRetries \in Nat /\ MaxCalls \in Nat

None == "no object"

(* The options of the composer: requireConfirmation, deleteAfterOpening and *)
(* an expiry.                                                               *)
SendOptions == [gated : BOOLEAN, once : BOOLEAN, expires : BOOLEAN]

(* An object under such options: is it a file (sent in chunks), is it a     *)
(* command or an agent task.                                                *)
Payload(options, file, task) ==
  [gated |-> options.gated, once |-> options.once, expires |-> options.expires,
   file |-> file, task |-> task]

(* What the composer hands to sendObject at a press of the button: a task   *)
(* alone, or the attachment and the text, each an object of its own.        *)
Composed(options) ==
  LET attachment == Payload(options, TRUE, FALSE)
      texts == {Payload(options, FALSE, command) : command \in BOOLEAN}
  IN  {<<Payload(options, FALSE, TRUE)>>, <<attachment>>}
        \cup {<<t>> : t \in texts} \cup {<<attachment, t>> : t \in texts}

ASSUME ScenariosAreComposed ==
  \A s \in Scenario : \A o \in DOMAIN s.opt : \E options \in SendOptions :
    \E objects \in Composed(options) : \E i \in DOMAIN objects : s.opt[o] = objects[i]

VARIABLES
  opt,      \* the options of each object
  agent,    \* the recipient is a desktop agent
  sent,     \* the sender's row: its status, "none" when deleted
  kept,     \* the objects the sender holds
  writes,   \* what the sender's calls will write into its rows
  net,      \* envelopes on their way, in whatever place
  row,      \* the recipient's row
  rowId,    \* how often that row was deleted: an update names its row by id
  plain,    \* the recipient's rows that a hand-off made: without options
  objs,     \* the objects the recipient holds
  calls,    \* the recipient's calls in progress
  task,     \* the agent's handler of each object
  prompt,   \* the object whose question is on the agent's terminal
  facts,    \* history: what the recipient did with each object
  torn,     \* history: objects with overlapping calls or a lost step
  untimely, \* history: the objects used while they awaited confirmation
  retries

sender    == <<sent, kept, writes, retries>>
recipient == <<row, rowId, plain, objs, calls>>
terminal  == <<task, prompt>>
params    == <<opt, agent>>
history   == <<facts, torn, untimely>>
vars      == <<params, sender, recipient, terminal, net, history>>

Create(o, n) == [to |-> "recipient", type |-> "create", obj |-> o, cause |-> <<"send", n>>]
Handed(o, n) == [to |-> "recipient", type |-> "hand-off", obj |-> o, cause |-> <<"send", n>>]
Receipt(t, o, cause) == [to |-> "sender", type |-> t, obj |-> o, cause |-> cause]

Init ==
  /\ \E s \in Scenario : opt = s.opt /\ agent = s.agent
  /\ sent = [o \in Object |-> IF o \in DOMAIN opt THEN "new" ELSE "none"] /\ kept = {} /\ writes = {}
  /\ net = {}
  /\ row = [o \in Object |-> "none"] /\ rowId = [o \in Object |-> 0] /\ plain = {}
  /\ objs = {} /\ calls = {}
  /\ task = [o \in Object |-> "none"] /\ prompt = None
  /\ facts = [o \in Object |-> {}] /\ torn = {} /\ untimely = {} /\ retries = 0

Did(o, f) == facts' = [facts EXCEPT ![o] = @ \cup {f}]
InProgress(o) == {c \in calls : c.obj = o}
Overlap(o) == torn' = IF InProgress(o) = {} THEN torn ELSE torn \cup {o}

----------------------------------------------------------------------------
(* The sender                                                               *)

ToWrite(o, as, n) == [obj |-> o, as |-> as, n |-> n]

(* Queued in the outbox for later, or sent live: then the row will say so,  *)
(* whatever has become of it.                                               *)
Sends(o, n, others) ==
  /\ net' = net \cup {Create(o, n)}
  /\ writes' \in {others, others \cup {ToWrite(o, "sending", n)}}

SendObject(o) ==
  /\ sent[o] = "new" /\ sent' = [sent EXCEPT ![o] = "queued"]
  /\ kept' = kept \cup {o}
  /\ Sends(o, 0, writes)
  /\ UNCHANGED <<params, retries, recipient, terminal, history>>

Again == retries < MaxRetries /\ retries' = retries + 1

RetryDelivery(o) ==
  /\ sent[o] = "failed" /\ o \in kept /\ Again
  /\ writes' = writes \cup {ToWrite(o, "queued", retries')}
  /\ UNCHANGED <<params, sent, kept, net, recipient, terminal, history>>

(* The sweep, one at a time: expiry first, then the files that stall, which *)
(* are given up or sent again.                                              *)
GiveUp(o) ==
  /\ sent[o] = "sending" /\ opt[o].file /\ \A w \in writes : w.as # "expired"
  /\ writes' = writes \cup {ToWrite(o, "failed", 0)}
  /\ UNCHANGED <<params, sent, kept, retries, net, recipient, terminal, history>>

ResendChunks(o) ==
  /\ sent[o] = "sending" /\ opt[o].file /\ \A w \in writes : w.as # "expired"
  /\ o \in kept /\ Again
  /\ net' = net \cup {Create(o, retries')}
  /\ UNCHANGED <<params, sent, kept, writes, recipient, terminal, history>>

SweepSent(o) ==
  /\ o \in kept /\ opt[o].expires /\ \A w \in writes : w.as \notin {"expired", "failed"}
  /\ IF sent[o] \in {"opened", "none"}
     THEN kept' = kept \ {o} /\ UNCHANGED writes
     ELSE writes' = writes \cup {ToWrite(o, "expired", 0)} /\ UNCHANGED kept
  /\ UNCHANGED <<params, sent, retries, net, recipient, terminal, history>>

(* The write hides what the sender has learnt, or undoes an expiry.         *)
Overwrites(w) ==
  sent[w.obj] \in {"opened"} \cup IF w.as = "expired" THEN {} ELSE {"delivered", "rejected", "expired"}

(* The row is not read again; it may be gone.  A retry sends only now.      *)
StepWrite(w) ==
  /\ sent' = [sent EXCEPT ![w.obj] = IF @ = "none" THEN "none" ELSE w.as]
  /\ kept' = IF w.as = "expired" THEN kept \ {w.obj} ELSE kept
  /\ IF w.as = "queued" THEN Sends(w.obj, w.n, writes \ {w})
                        ELSE writes' = writes \ {w} /\ UNCHANGED net
  /\ torn' = IF Overwrites(w) THEN torn \cup {w.obj} ELSE torn
  /\ UNCHANGED <<params, retries, recipient, terminal, facts, untimely>>

(* continueOnDevice: the object again, without options, the row as it is.   *)
HandOff(o) ==
  /\ o \in kept /\ Again
  /\ net' = net \cup {Handed(o, retries')}
  /\ UNCHANGED <<params, sent, kept, writes, recipient, terminal, history>>

LearnAlways(o) == "delivered"            \* mutant: the guard is dropped
MarkDelivered(o) == IF sent[o] = "opened" THEN "opened" ELSE "delivered"

Learn(m) ==
  /\ m.to = "sender" /\ net' = net \ {m}
  /\ sent' = [sent EXCEPT ![m.obj] =
                IF @ = "none" THEN "none"
                ELSE IF m.type = "delivered" THEN MarkDelivered(m.obj) ELSE m.type]
  /\ UNCHANGED <<params, kept, writes, retries, recipient, terminal, history>>

DeleteSent(o) ==
  /\ o \in kept /\ kept' = kept \ {o}
  /\ sent' = [sent EXCEPT ![o] = "none"]
  /\ UNCHANGED <<params, writes, retries, net, recipient, terminal, history>>

(* The sender's page is reloaded.                                           *)
ReloadSender ==
  /\ writes # {} /\ writes' = {}
  /\ UNCHANGED <<params, sent, kept, retries, net, recipient, terminal, history>>

(* An envelope expires in the outbox or with its carrier, cannot be opened, *)
(* or its recipient stops between noting it as seen and applying it.        *)
Lose(m) ==
  /\ net' = net \ {m}
  /\ torn' = torn \cup {m.obj}
  /\ UNCHANGED <<params, sender, recipient, terminal, facts, untimely>>

----------------------------------------------------------------------------
(* The recipient                                                            *)

(* The chunks of two sendings of a file may make up one, and a few that     *)
(* come after it was complete are only acknowledged.                        *)
MergeChunks(m) ==
  /\ m.type = "create" /\ opt[m.obj].file
  /\ m.obj \in objs \/ \E other \in net \ {m} : other.type = "create" /\ other.obj = m.obj
  /\ net' = net \ {m}
  /\ UNCHANGED <<params, sender, recipient, terminal, history>>

Confirms(m) == m.type = "create" /\ opt[m.obj].gated
AckAll(m) == {Receipt("delivered", m.obj, m.cause)}   \* mutant: acknowledged unasked
Acked(m) == IF Confirms(m) THEN {} ELSE {Receipt("delivered", m.obj, m.cause)}

(* CREATE_OBJECT and SEND_TO_DEVICE, or the last chunk of a file.  A new    *)
(* object starts the agent's handler.  A hand-off is acknowledged, but what *)
(* awaits confirmation goes on waiting.                                     *)
Receive(m) ==
  LET o == m.obj
  IN  /\ m.to = "recipient"
      /\ net' = (net \ {m}) \cup Acked(m)
      /\ objs' = objs \cup {o}
      /\ row' = [row EXCEPT ![o] =
                   IF @ # "none" THEN @ ELSE IF Confirms(m) THEN "pending" ELSE "delivered"]
      /\ plain' = IF m.type = "hand-off" /\ row[o] = "none" THEN plain \cup {o} ELSE plain
      /\ facts' = IF Confirms(m) THEN facts
                  ELSE [facts EXCEPT ![o] = @ \cup {IF row[o] = "pending" THEN "handed" ELSE "taken"}]
      /\ task' = IF agent /\ opt[o].task /\ o \notin objs
                 THEN [task EXCEPT ![o] = "opening"] ELSE task
      /\ Overlap(o)
      /\ UNCHANGED <<params, sender, rowId, calls, prompt, untimely>>

Begin(op, o, stage) ==
  /\ Cardinality(calls) < MaxCalls
  /\ calls' = calls \cup {[op |-> op, obj |-> o, stage |-> stage, id |-> rowId[o],
                           once |-> opt[o].once /\ o \notin plain]}
  /\ Overlap(o)

Go(c, stage) ==
  calls' = (calls \ {c}) \cup IF stage = "end" THEN {} ELSE {[c EXCEPT !.stage = stage]}

Update(c, s) ==
  row' = IF rowId[c.obj] = c.id /\ row[c.obj] # "none" THEN [row EXCEPT ![c.obj] = s] ELSE row

(* deleteObjectLocal                                                        *)
DeleteLocal(o) ==
  /\ row' = [row EXCEPT ![o] = "none"] /\ objs' = objs \ {o} /\ plain' = plain \ {o}
  /\ rowId' = IF row[o] = "none" THEN rowId ELSE [rowId EXCEPT ![o] = @ + 1]

OpensPending(o) == o \in objs /\ row[o] \in {"pending", "delivered", "expired"}  \* mutant: no gate
Openable(o) == o \in objs /\ row[o] \in {"delivered", "expired"}

MarkOpened(o) ==
  /\ ~agent /\ Openable(o)
  /\ Begin("open", o, "update")
  /\ UNCHANGED <<params, sender, row, rowId, plain, objs, terminal, net, facts, untimely>>

(* The inbox: an object is copied, downloaded or edited, and then opened.   *)
(* What awaits confirmation has only Accept and Reject.                     *)
InboxUses(o) ==
  /\ ~agent /\ o \in objs /\ row[o] # "pending"
  /\ IF Openable(o) THEN Begin("open", o, "update") ELSE UNCHANGED <<calls, torn>>
  /\ UNCHANGED <<params, sender, row, rowId, plain, objs, terminal, net, facts, untimely>>

(* The library offers the same of every object it shows, and opens none.    *)
LibraryUses(o) ==
  /\ ~agent /\ o \in objs
  /\ untimely' = IF row[o] = "pending" THEN untimely \cup {o} ELSE untimely
  /\ UNCHANGED <<params, sender, recipient, terminal, net, facts, torn>>

AcceptObject(o) ==
  /\ ~agent /\ row[o] = "pending"
  /\ Begin("accept", o, "update")
  /\ UNCHANGED <<params, sender, row, rowId, plain, objs, terminal, net, facts, untimely>>

RejectObject(o) ==
  /\ ~agent /\ row[o] = "pending"
  /\ Begin("reject", o, "tell")
  /\ UNCHANGED <<params, sender, row, rowId, plain, objs, terminal, net, facts, untimely>>

DeleteReceived(o) ==
  /\ ~agent /\ o \in objs
  /\ DeleteLocal(o)
  /\ Overlap(o)
  /\ UNCHANGED <<params, sender, calls, terminal, net, facts, untimely>>

SweepReceived(o) ==
  /\ o \in objs /\ opt[o].expires
  /\ Begin("expire", o, IF row[o] \in {"opened", "none"} THEN "delete" ELSE "update")
  /\ UNCHANGED <<params, sender, row, rowId, plain, objs, terminal, net, facts, untimely>>

StepUpdate(c) ==
  /\ c.stage = "update"
  /\ \/ /\ c.op = "open" /\ Update(c, "opened") /\ Go(c, "tell")
        /\ Did(c.obj, "opened")
     \/ /\ c.op = "accept" /\ Update(c, "delivered") /\ Go(c, "tell")
        /\ Did(c.obj, "taken")
     \/ /\ c.op = "expire" /\ Update(c, "expired") /\ Go(c, "delete")
        /\ UNCHANGED facts
  /\ UNCHANGED <<params, sender, rowId, plain, objs, terminal, net, torn, untimely>>

News(op) == CASE op = "open" -> "opened" [] op = "accept" -> "delivered" [] op = "reject" -> "rejected"

KeepsObject(c) == IF c.op = "reject" THEN "delete" ELSE "end"   \* mutant: deleteAfterOpening is ignored
AfterTelling(c) ==
  IF c.op = "reject" \/ (c.op = "open" /\ c.once) THEN "delete" ELSE "end"

StepTell(c) ==
  /\ c.stage = "tell"
  /\ net' = net \cup {Receipt(News(c.op), c.obj, <<c.op, c.id>>)}
  /\ Go(c, AfterTelling(c))
  /\ facts' = IF c.op = "reject" THEN [facts EXCEPT ![c.obj] = @ \cup {"declined"}] ELSE facts
  /\ UNCHANGED <<params, sender, row, rowId, plain, objs, terminal, torn, untimely>>

(* An expired object goes, and its row stays to show how it ended.          *)
StepDelete(c) ==
  /\ c.stage = "delete" /\ Go(c, "end")
  /\ IF c.op = "expire" THEN objs' = objs \ {c.obj} /\ UNCHANGED <<row, rowId, plain>>
                        ELSE DeleteLocal(c.obj)
  /\ UNCHANGED <<params, sender, terminal, net, facts, torn, untimely>>

(* The page is reloaded: calls in progress are never finished.              *)
Reload ==
  /\ ~agent /\ calls # {}
  /\ torn' = torn \cup {c.obj : c \in calls} /\ calls' = {}
  /\ UNCHANGED <<params, sender, row, rowId, plain, objs, terminal, net, facts, untimely>>

----------------------------------------------------------------------------
(* The agent: markOpened, then a question at the terminal, then the task    *)
(* and its result.                                                          *)

TaskOpens(o) ==
  /\ task[o] = "opening"
  /\ task' = [task EXCEPT ![o] = "opened"]
  /\ IF Openable(o) THEN Begin("open", o, "update") ELSE UNCHANGED <<calls, torn>>
  /\ UNCHANGED <<params, sender, row, rowId, plain, objs, prompt, net, facts, untimely>>

(* An unknown action is refused without a question.                         *)
TaskOpened(o) ==
  /\ task[o] = "opened" /\ {c \in InProgress(o) : c.op = "open"} = {}
  /\ \E next \in {"asking", "answering"} : task' = [task EXCEPT ![o] = next]
  /\ UNCHANGED <<params, sender, recipient, prompt, net, facts, torn, untimely>>

(* readline keeps one question: another asked meanwhile is never shown.     *)
Ask(o) ==
  /\ task[o] = "asking"
  /\ IF prompt = None THEN prompt' = o /\ task' = [task EXCEPT ![o] = "asked"]
                      ELSE task' = [task EXCEPT ![o] = "unheard"] /\ UNCHANGED prompt
  /\ UNCHANGED <<params, sender, recipient, net, facts, torn, untimely>>

Decide ==
  /\ prompt # None /\ prompt' = None
  /\ \E next \in {"running", "answering"} : task' = [task EXCEPT ![prompt] = next]
  /\ UNCHANGED <<params, sender, recipient, net, facts, torn, untimely>>

Run(o) ==
  /\ task[o] = "running" /\ task' = [task EXCEPT ![o] = "answering"]
  /\ UNCHANGED <<params, sender, recipient, prompt, net, facts, torn, untimely>>

Answer(o) ==
  /\ task[o] = "answering" /\ task' = [task EXCEPT ![o] = "answered"]
  /\ UNCHANGED <<params, sender, recipient, prompt, net, facts, torn, untimely>>

Next ==
  \/ \E o \in Object :
       \/ SendObject(o) \/ RetryDelivery(o) \/ GiveUp(o) \/ ResendChunks(o)
       \/ HandOff(o) \/ SweepSent(o) \/ DeleteSent(o)
       \/ InboxUses(o) \/ LibraryUses(o) \/ MarkOpened(o) \/ AcceptObject(o) \/ RejectObject(o)
       \/ DeleteReceived(o) \/ SweepReceived(o)
       \/ TaskOpens(o) \/ TaskOpened(o) \/ Ask(o) \/ Run(o) \/ Answer(o)
  \/ \E w \in writes : StepWrite(w)
  \/ \E m \in net : Learn(m) \/ Lose(m) \/ MergeChunks(m) \/ Receive(m)
  \/ \E c \in calls : StepUpdate(c) \/ StepTell(c) \/ StepDelete(c)
  \/ ReloadSender \/ Reload \/ Decide

Spec == Init /\ [][Next]_vars

----------------------------------------------------------------------------
Settled(o) ==
  /\ o \notin torn /\ InProgress(o) = {}
  /\ \A w \in writes : w.obj # o
  /\ \A m \in net : m.obj # o

(* The sender's row is a function of what the recipient did, of what the    *)
(* sender had decided to write when it last looked, and never of what the   *)
(* recipient has yet to do: the abstract specification, implemented.        *)
Promise == INSTANCE DeliveryPromise WITH belief <- sent, decided <- writes
PromiseKept == Promise!Spec

(* When every envelope of an object has arrived, in whatever order, no two  *)
(* calls of the recipient on it overlapped and no write of the sender fell  *)
(* on a row that a receipt or an expiry had changed in the meantime, the    *)
(* sender shows what the recipient did with it (one that was declined, sent *)
(* again and opened may show either: the receipts carry no order of their   *)
(* own).                                                                    *)
Agreement ==
  \A o \in Object : Settled(o) =>
    /\ "opened" \in facts[o] /\ "declined" \notin facts[o] => sent[o] \in {"opened", "none"}
    /\ facts[o] # {} /\ facts[o] \subseteq {"taken", "handed"}
         => sent[o] \in {"delivered", "expired", "none"}
    /\ facts[o] = {"declined"} => sent[o] \in {"rejected", "expired", "none"}

(* A payload to be deleted after opening is gone once it was opened, unless *)
(* it was sent again, a call overlapped another, or the page was reloaded   *)
(* between opening and deleting.                                            *)
BurntAfterReading ==
  \A o \in Object :
    Settled(o) /\ "opened" \in facts[o] /\ opt[o].once /\ retries = 0 => o \notin objs

(* A payload that requires confirmation is opened only after it was         *)
(* accepted, unless a call overlapped another (between the two steps of its *)
(* expiry it is neither pending nor gone) or it came again after it had     *)
(* expired: the row that was kept is not pending any more.                  *)
OpenedWasAccepted ==
  \A o \in Object :
    o \notin torn /\ "opened" \in facts[o] /\ (opt[o].expires => retries = 0)
      => "taken" \in facts[o]

(* Not so: "the object is visible to the recipient but every action is      *)
(* gated behind an explicit Accept/Reject" (docs/Architecture.md).          *)
UsedWasAccepted == untimely = {}
=============================================================================
