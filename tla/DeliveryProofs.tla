--------------------------- MODULE DeliveryProofs ---------------------------
(***************************************************************************)
(* Proof that the two ends of a delivery keep what its status promises     *)
(* (DeliveryPromise): whatever is lost, repeated, reordered, retried,      *)
(* deleted or swept, the sender shows only what the recipient has done or  *)
(* what it had itself decided to write when it last looked.                *)
(* Then, for any objects and options, that both ends agree once every      *)
(* receipt is in (Answered), that a payload which awaits confirmation is   *)
(* not opened before, and that one to be deleted after opening is gone     *)
(* once it was opened (Careful).                                           *)
(***************************************************************************)
EXTENDS Delivery, TLAPS

Statuses == {"new", "none", "queued", "sending", "failed", "delivered", "opened",
             "rejected", "expired"}

Deeds == {"taken", "handed", "opened", "declined"}

Typed ==
  /\ sent \in [Object -> Statuses]
  /\ facts \in [Object -> SUBSET Deeds]
  /\ row \in [Object -> {"none", "pending", "delivered", "opened", "expired"}]

Started(o) == o \in Object /\ sent[o] # "new"

(* A receipt on its way says what happened.                                 *)
Good(m) ==
  /\ Started(m.obj)
  /\ m.to = "sender" =>
       /\ m.type \in {"delivered", "opened", "rejected"}
       /\ Promise!Evidence(m.type) \cap facts[m.obj] # {}
Truthful == \A m \in net : Good(m)

(* Nothing is held of an object that has not been sent, nor written about.  *)
Written(w) == Started(w.obj) /\ w.as \in {"queued", "sending", "failed", "expired"}
HeldAfterSending ==
  /\ \A o \in kept \cup objs : Started(o)
  /\ \A w \in writes : Written(w)
  /\ \A o \in Object : row[o] # "none" => Started(o)

(* A call tells the sender what it has already done, but for a rejection,   *)
(* which it tells first.                                                    *)
Sound(c) ==
  /\ c = [op |-> c.op, obj |-> c.obj, stage |-> c.stage, id |-> c.id, once |-> c.once]
  /\ Started(c.obj) /\ c.stage \in {"update", "tell", "delete", "end"}
  /\ c.stage = "update" => c.op \in {"open", "accept", "expire"}
  /\ c.stage = "tell" => \/ c.op = "open" /\ "opened" \in facts[c.obj]
                         \/ c.op = "accept" /\ "taken" \in facts[c.obj]
                         \/ c.op = "reject"
CallType == \A c \in calls : Sound(c)

(* The inductive invariant.                                                 *)
Core == Typed /\ Truthful /\ HeldAfterSending /\ CallType

-----------------------------------------------------------------------------
(* What is done is not undone, and what was sent stays sent.                *)
Forward == \A o \in Object : facts[o] \subseteq facts'[o] /\ (sent'[o] = "new" => sent[o] = "new")

(* A step that undoes nothing keeps what is evidence evidence.              *)
LEMMA OldStaysTrue ==
  ASSUME Core, Forward
  PROVE  /\ \A o : Started(o) => Started(o)'
         /\ \A m \in net : Good(m)'
         /\ \A c \in calls : Sound(c)'
         /\ \A w \in writes : Written(w)'
<1>1. \A o : Started(o) => Started(o)'
  BY DEF Started, Forward
<1>2. ASSUME NEW m \in net PROVE Good(m)'
  <2>1. Good(m) /\ m.obj \in Object
    BY DEF Core, Truthful, Good, Started
  <2> QED BY <1>1, <2>1 DEF Good, Forward, Promise!Evidence
<1>3. ASSUME NEW c \in calls PROVE Sound(c)'
  <2>1. Sound(c) /\ c.obj \in Object
    BY DEF Core, CallType, Sound, Started
  <2> QED BY <1>1, <2>1 DEF Sound, Forward
<1>4. \A w \in writes : Written(w)'
  BY <1>1 DEF Core, HeldAfterSending, Written
<1> QED BY <1>1, <1>2, <1>3, <1>4

(* It is enough to look at what is new.                                     *)
LEMMA NewIsTrue ==
  ASSUME Core, Forward, Typed',
         \A m \in net' : m \in net \/ Good(m)',
         \A c \in calls' : c \in calls \/ Sound(c)',
         \A o \in kept' \cup objs' : o \in kept \cup objs \/ Started(o)',
         \A w \in writes' : w \in writes \/ Written(w)',
         \A o \in Object : row'[o] # "none" => row[o] # "none" \/ Started(o)'
  PROVE  Core'
<1>1. /\ \A o : Started(o) => Started(o)'
      /\ \A m \in net : Good(m)'
      /\ \A c \in calls : Sound(c)'
      /\ \A w \in writes : Written(w)'
  BY OldStaysTrue
<1>2. Truthful' /\ CallType'
  BY <1>1 DEF Truthful, CallType
<1>3. HeldAfterSending'
  BY <1>1 DEF Core, HeldAfterSending
<1> QED BY <1>2, <1>3 DEF Core

(* Nothing was sent at first.                                               *)
LEMMA InitCore == Init => Core
<1> SUFFICES ASSUME Init PROVE Core
  OBVIOUS
<1>1. Typed
  BY DEF Init, Typed, Statuses
<1> QED BY <1>1 DEF Init, Core, Truthful, HeldAfterSending, CallType

-----------------------------------------------------------------------------
(* The sender                                                               *)

(* What is sent is on its way, and may be written about.                    *)
LEMMA SendsKeeps ==
  ASSUME Core, Forward, Typed', NEW o \in Object, Started(o)', NEW n, NEW others, Sends(o, n, others),
         others \subseteq writes, kept' \subseteq kept \cup {o},
         UNCHANGED <<row, objs, calls>>
  PROVE  /\ Core'
         /\ \/ writes' = others
            \/ \E w \in writes' : w.obj = o /\ w.as = "sending" /\ writes' = others \cup {w}
<1> PICK w : w = ToWrite(o, "sending", n)
  OBVIOUS
<1>1. w.obj = o /\ w.as = "sending"
  BY DEF ToWrite
<1>2. net' = net \cup {Create(o, n)} /\ (writes' = others \/ writes' = others \cup {w})
  BY DEF Sends
<1>3. Good(Create(o, n))' /\ Written(w)'
  BY <1>1 DEF Good, Create, Written
<1>4. Core'
  BY <1>2, <1>3, NewIsTrue
<1> QED BY <1>1, <1>2, <1>4

LEMMA SendKeeps ==
  ASSUME Core, NEW o \in Object, SendObject(o)
  PROVE  Core' /\ Promise!Send(o)
<1>1. /\ sent' = [sent EXCEPT ![o] = "queued"] /\ kept' = kept \cup {o} /\ sent[o] = "new"
      /\ Sends(o, 0, writes) /\ UNCHANGED <<row, objs, calls, facts>>
  BY DEF SendObject, recipient, history
<1>2. Typed' /\ Forward /\ Started(o)'
  BY <1>1 DEF Core, Typed, Statuses, Forward, Started
<1> QED BY <1>1, <1>2, SendsKeeps DEF Promise!Send

(* A retry, a surrender and an expiry are decided on by what the row shows. *)
LEMMA DecideKeeps ==
  ASSUME Core, NEW o \in Object, RetryDelivery(o) \/ GiveUp(o) \/ SweepSent(o)
  PROVE  Core' /\ (Promise!Decide(o) \/ UNCHANGED <<sent, writes, facts>>)
<1>1. kept' \subseteq kept /\ UNCHANGED <<sent, row, objs, calls, facts, net>>
  BY DEF RetryDelivery, GiveUp, SweepSent, recipient, history
<1>2. Started(o)
  BY DEF Core, HeldAfterSending, Started, RetryDelivery, GiveUp, SweepSent
<1>3. Typed' /\ Forward /\ Started(o)'
  BY <1>1, <1>2 DEF Core, Typed, Forward, Started
<1>4. CASE writes' = writes
  <2>1. Core'
    BY <1>1, <1>3, <1>4, NewIsTrue
  <2> QED BY <1>1, <1>4, <2>1
<1>5. ASSUME NEW as, NEW n, writes' = writes \cup {ToWrite(o, as, n)},
             \/ as = "queued" /\ sent[o] = "failed"
             \/ as = "failed" /\ sent[o] = "sending"
             \/ as = "expired" /\ sent[o] \notin {"opened", "none", "new"}
      PROVE  Core' /\ Promise!Decide(o)
  <2> PICK w : w = ToWrite(o, as, n)
    OBVIOUS
  <2>1. w.obj = o /\ w.as = as
    BY DEF ToWrite
  <2>2. Written(w)'
    BY <1>3, <1>5, <2>1 DEF Written
  <2>3. Core'
    BY <1>1, <1>3, <1>5, <2>2, NewIsTrue
  <2> QED BY <1>1, <1>5, <2>1, <2>3 DEF Promise!Decide, Promise!Shows
<1>6. CASE RetryDelivery(o)
  <2>1. PICK n : writes' = writes \cup {ToWrite(o, "queued", n)}
    BY <1>6 DEF RetryDelivery
  <2> QED BY <1>5, <1>6, <2>1 DEF RetryDelivery
<1>7. CASE GiveUp(o)
  BY <1>5, <1>7 DEF GiveUp
<1>8. CASE SweepSent(o)
  BY <1>2, <1>4, <1>5, <1>8 DEF SweepSent, Started
<1> QED BY <1>6, <1>7, <1>8

(* And written, whatever the row shows by then.                             *)
LEMMA WriteKeeps ==
  ASSUME Core, NEW w \in writes, StepWrite(w)
  PROVE  Core' /\ Promise!Write(w)
<1> PICK o : o = w.obj
  OBVIOUS
<1>1. /\ o \in Object /\ Started(o) /\ w.as \in {"queued", "sending", "failed", "expired"}
  BY DEF Core, HeldAfterSending, Written, Started
<1>2. /\ sent' = [sent EXCEPT ![o] = IF @ = "none" THEN "none" ELSE w.as]
      /\ kept' \subseteq kept /\ UNCHANGED <<row, objs, calls, facts>>
  BY DEF StepWrite, recipient
<1>3. Typed' /\ Forward /\ Started(o)'
  BY <1>1, <1>2 DEF Core, Typed, Statuses, Forward, Started
<1>4. CASE w.as = "queued"
  <2>1. Sends(o, w.n, writes \ {w})
    BY <1>4 DEF StepWrite
  <2>2. /\ Core'
        /\ \/ writes' = writes \ {w}
           \/ \E v \in writes' : v.obj = o /\ v.as = "sending" /\ writes' = (writes \ {w}) \cup {v}
    <3>1. kept' \subseteq kept \cup {o} /\ writes \ {w} \subseteq writes
      BY <1>2
    <3> PICK others : others = writes \ {w}
      OBVIOUS
    <3> QED BY <1>1, <1>2, <1>3, <2>1, <3>1, SendsKeeps
  <2> QED BY <1>2, <1>4, <2>2 DEF Promise!Write
<1>5. CASE w.as # "queued"
  <2>1. writes' = writes \ {w} /\ net' = net
    BY <1>5 DEF StepWrite
  <2>2. Core'
    BY <1>2, <1>3, <2>1, NewIsTrue
  <2> QED BY <1>2, <2>1, <2>2 DEF Promise!Write
<1> QED BY <1>4, <1>5

(* What is sent again, or handed off, leaves the row.                       *)
LEMMA AgainKeeps ==
  ASSUME Core, NEW o \in Object, ResendChunks(o) \/ HandOff(o)
  PROVE  Core' /\ UNCHANGED <<sent, writes, facts>>
<1> PICK n : n = retries'
  OBVIOUS
<1>1. /\ UNCHANGED <<sent, kept, writes, row, objs, calls, facts>>
      /\ net' = net \cup {Create(o, n)} \/ net' = net \cup {Handed(o, n)}
  BY DEF ResendChunks, HandOff, recipient, history
<1>2. Typed' /\ Forward /\ Started(o)'
  BY <1>1 DEF Core, Typed, Forward, Started, HeldAfterSending, ResendChunks, HandOff
<1>3. Good(Create(o, n))' /\ Good(Handed(o, n))'
  BY <1>2 DEF Good, Create, Handed
<1>4. Core'
  BY <1>1, <1>2, <1>3, NewIsTrue
<1> QED BY <1>1, <1>4

(* Deletion says nothing of the recipient, nor does a reload.               *)
LEMMA DeleteKeeps ==
  ASSUME Core, NEW o \in Object, DeleteSent(o)
  PROVE  Core' /\ (Promise!Delete(o) \/ UNCHANGED <<sent, writes, facts>>)
<1>1. /\ kept' \subseteq kept /\ sent' = [sent EXCEPT ![o] = "none"] /\ sent[o] # "new"
      /\ UNCHANGED <<writes, row, objs, calls, facts, net>>
  BY DEF DeleteSent, recipient, history, Core, HeldAfterSending, Started
<1>2. Typed' /\ Forward
  BY <1>1 DEF Core, Typed, Statuses, Forward
<1>3. Core'
  BY <1>1, <1>2, NewIsTrue
<1>4. CASE sent[o] = "none"
  BY <1>1, <1>3, <1>4 DEF Core, Typed
<1> QED BY <1>1, <1>3, <1>4 DEF Promise!Delete, Promise!Shows

LEMMA ReloadSenderKeeps ==
  ASSUME Core, ReloadSender
  PROVE  Core' /\ Promise!Forget
<1>1. writes' = {} /\ UNCHANGED <<sent, kept, row, objs, calls, facts, net>>
  BY DEF ReloadSender, recipient, history
<1>2. Typed' /\ Forward
  BY <1>1 DEF Core, Typed, Forward
<1> QED BY <1>1, <1>2, NewIsTrue DEF Promise!Forget

(* A receipt is evidence of the status it sets.                             *)
LEMMA LearnKeeps ==
  ASSUME Core, NEW m \in net, Learn(m)
  PROVE  Core' /\ m.obj \in Object /\ (Promise!Learn(m.obj) \/ UNCHANGED <<sent, writes, facts>>)
<1> DEFINE o == m.obj
<1>1. /\ o \in Object /\ sent[o] # "new" /\ m.to = "sender"
      /\ m.type \in {"delivered", "opened", "rejected"}
      /\ Promise!Evidence(m.type) \cap facts[o] # {}
  BY DEF Core, Truthful, Good, Started, Learn
<1>2. /\ net' \subseteq net
      /\ UNCHANGED <<kept, writes, row, rowId, objs, calls, facts>>
  BY DEF Learn, recipient, history
<1>3. \/ sent[o] = "none" /\ sent' = sent
      \/ sent[o] = "opened" /\ m.type = "delivered" /\ sent' = sent
      \/ /\ sent[o] # "none" /\ (sent[o] = "opened" => m.type # "delivered")
         /\ sent' = [sent EXCEPT ![o] = m.type]
  BY <1>1 DEF Learn, MarkDelivered, Core, Typed
<1>4. Typed' /\ Forward
  BY <1>1, <1>2, <1>3 DEF Core, Typed, Statuses, Forward
<1>5. Core'
  BY <1>2, <1>4, NewIsTrue
<1>6. Promise!Learn(o) \/ UNCHANGED <<sent, writes, facts>>
  BY <1>1, <1>2, <1>3 DEF Promise!Learn, Promise!Shows
<1> QED BY <1>1, <1>5, <1>6

-----------------------------------------------------------------------------
(* The recipient                                                            *)

(* What the recipient does is an Act of the promise.                        *)
LEMMA ActIsAct ==
  ASSUME Core, NEW o \in Object, NEW f \in Deeds,
         facts' = [facts EXCEPT ![o] = @ \cup {f}], UNCHANGED <<sent, writes>>, Started(o)
  PROVE  /\ Promise!Act(o) /\ Forward /\ f \in facts'[o]
         /\ facts' \in [Object -> SUBSET Deeds]
<1>1. facts \in [Object -> SUBSET Deeds]
  BY DEF Core, Typed
<1>2. Promise!Act(o)
  BY DEF Promise!Act, Started, Deeds
<1> QED BY <1>1, <1>2 DEF Forward

(* An object that is received is taken, or waits for an answer.             *)
LEMMA ReceiveKeeps ==
  ASSUME Core, NEW m \in net, Receive(m)
  PROVE  Core' /\ m.obj \in Object /\ (Promise!Act(m.obj) \/ UNCHANGED <<sent, writes, facts>>)
<1> PICK o : o = m.obj
  OBVIOUS
<1>1. Started(o) /\ o \in Object
  BY DEF Core, Truthful, Good, Started
<1>2. /\ net' = (net \ {m}) \cup Acked(m) /\ objs' = objs \cup {o}
      /\ UNCHANGED <<sent, kept, writes, calls>>
  BY DEF Receive, sender
<1>3. /\ row' \in [Object -> {"none", "pending", "delivered", "opened", "expired"}]
      /\ \A p \in Object : row'[p] # "none" => row[p] # "none" \/ p = o
  BY <1>1 DEF Receive, Core, Typed
<1>4. CASE Confirms(m)
  <2>1. facts' = facts /\ Acked(m) = {}
    BY <1>4 DEF Receive, Acked
  <2>2. Typed' /\ Forward /\ Started(o)'
    BY <1>1, <1>2, <1>3, <2>1 DEF Core, Typed, Forward, Started
  <2>3. Core'
    BY <1>2, <1>3, <2>1, <2>2, NewIsTrue
  <2> QED BY <1>1, <1>2, <2>1, <2>3
<1>5. CASE ~Confirms(m)
  <2>1. PICK f \in {"taken", "handed"} : facts' = [facts EXCEPT ![o] = @ \cup {f}]
    BY <1>5 DEF Receive
  <2>2. Acked(m) = {Receipt("delivered", o, m.cause)}
    BY <1>5 DEF Acked
  <2>3. /\ Promise!Act(o) /\ Forward /\ f \in facts'[o]
        /\ facts' \in [Object -> SUBSET Deeds]
    BY <1>1, <1>2, <2>1, ActIsAct DEF Deeds
  <2>4. Typed' /\ Started(o)'
    BY <1>1, <1>2, <1>3, <2>3 DEF Core, Typed, Started
  <2>5. Good(Receipt("delivered", o, m.cause))'
    BY <2>3, <2>4 DEF Good, Receipt, Promise!Evidence
  <2>6. Core'
    BY <1>2, <1>3, <2>2, <2>3, <2>4, <2>5, NewIsTrue
  <2> QED BY <1>1, <2>3, <2>6
<1> QED BY <1>4, <1>5

(* The next stage of a call.                                                *)
LEMMA NextStage ==
  ASSUME NEW c,
         c = [op |-> c.op, obj |-> c.obj, stage |-> c.stage, id |-> c.id, once |-> c.once],
         NEW stage \in {"update", "tell", "delete", "end"}, NEW d, d = [c EXCEPT !.stage = stage]
  PROVE  /\ d = [op |-> d.op, obj |-> d.obj, stage |-> d.stage, id |-> d.id, once |-> d.once]
         /\ d.op = c.op /\ d.obj = c.obj /\ d.stage = stage /\ d.once = c.once
OBVIOUS

(* A call that updates its row does what its receipt will tell.             *)
LEMMA StepUpdateKeeps ==
  ASSUME Core, NEW c \in calls, StepUpdate(c)
  PROVE  Core' /\ c.obj \in Object /\ (Promise!Act(c.obj) \/ UNCHANGED <<sent, writes, facts>>)
<1> DEFINE o == c.obj
           Row(s) == row' = row \/ row' = [row EXCEPT ![o] = s]
<1>1. Sound(c) /\ o \in Object /\ Started(o)
  BY DEF Core, CallType, Sound, Started
<1>2. UNCHANGED <<sent, kept, writes, objs, net>>
  BY DEF StepUpdate, sender
<1>3. /\ row' \in [Object -> {"none", "pending", "delivered", "opened", "expired"}]
      /\ \A p \in Object : row'[p] # "none" => row[p] # "none"
  BY <1>1 DEF StepUpdate, Update, Core, Typed
<1>4. ASSUME NEW f \in {"taken", "opened"}, Did(o, f), Go(c, "tell"),
             f = "opened" => c.op = "open", f = "taken" => c.op = "accept"
      PROVE  Core' /\ Promise!Act(o)
  <2> DEFINE d == [c EXCEPT !.stage = "tell"]
  <2>1. /\ Promise!Act(o) /\ Forward /\ f \in facts'[o]
        /\ facts' \in [Object -> SUBSET Deeds]
    BY <1>1, <1>2, <1>4, ActIsAct DEF Did, Deeds
  <2>2. Typed' /\ Started(o)'
    BY <1>1, <1>2, <1>3, <2>1 DEF Core, Typed, Started
  <2>3. /\ d = [op |-> d.op, obj |-> d.obj, stage |-> d.stage, id |-> d.id, once |-> d.once]
        /\ d.op = c.op /\ d.obj = c.obj /\ d.stage = "tell"
    BY <1>1, NextStage DEF Sound
  <2>4. calls' = (calls \ {c}) \cup {d}
    BY <1>4 DEF Go
  <2> HIDE DEF d
  <2>5. Sound(d)'
    BY <1>4, <2>1, <2>2, <2>3 DEF Sound
  <2> QED BY <1>2, <1>3, <2>1, <2>2, <2>4, <2>5, NewIsTrue
<1>5. CASE facts' = facts /\ Go(c, "delete")
  <2> DEFINE d == [c EXCEPT !.stage = "delete"]
  <2>1. Typed' /\ Forward /\ Started(o)'
    BY <1>1, <1>2, <1>3, <1>5 DEF Core, Typed, Forward, Started
  <2>2. /\ d = [op |-> d.op, obj |-> d.obj, stage |-> d.stage, id |-> d.id, once |-> d.once]
        /\ d.op = c.op /\ d.obj = c.obj /\ d.stage = "delete"
    BY <1>1, NextStage DEF Sound
  <2>3. calls' = (calls \ {c}) \cup {d}
    BY <1>5 DEF Go
  <2> HIDE DEF d
  <2>4. Sound(d)'
    BY <2>1, <2>2 DEF Sound
  <2>5. Core'
    BY <1>2, <1>3, <2>1, <2>3, <2>4, NewIsTrue
  <2> QED BY <1>1, <1>2, <1>5, <2>5
<1>6. \/ c.op = "open" /\ Go(c, "tell") /\ Did(o, "opened")
      \/ c.op = "accept" /\ Go(c, "tell") /\ Did(o, "taken")
      \/ Go(c, "delete") /\ facts' = facts
  BY DEF StepUpdate
<1> QED BY <1>1, <1>4, <1>5, <1>6

(* A call tells what it has done, or does it in the same step.              *)
LEMMA StepTellKeeps ==
  ASSUME Core, NEW c \in calls, StepTell(c)
  PROVE  Core' /\ c.obj \in Object /\ (Promise!Act(c.obj) \/ UNCHANGED <<sent, writes, facts>>)
<1> DEFINE o == c.obj
<1> PICK stage : stage = AfterTelling(c)
  OBVIOUS
<1> PICK d : d = [c EXCEPT !.stage = stage]
  OBVIOUS
<1>1. Sound(c) /\ o \in Object /\ Started(o) /\ c.stage = "tell"
  BY DEF Core, CallType, Sound, Started, StepTell
<1>2. /\ UNCHANGED <<sent, kept, writes, objs, row>>
      /\ net' = net \cup {Receipt(News(c.op), o, <<c.op, c.id>>)}
      /\ calls' \subseteq calls \cup {d} /\ stage \in {"delete", "end"}
  BY DEF StepTell, sender, Go, AfterTelling
<1>3. /\ d = [op |-> d.op, obj |-> d.obj, stage |-> d.stage, id |-> d.id, once |-> d.once]
      /\ d.obj = o /\ d.stage \in {"delete", "end"}
  BY <1>1, <1>2, NextStage DEF Sound
<1>4. /\ Forward /\ (Promise!Act(o) \/ UNCHANGED <<sent, writes, facts>>)
      /\ facts' \in [Object -> SUBSET Deeds]
      /\ c.op = "reject" => "declined" \in facts'[o]
  <2>1. CASE c.op = "reject"
    <3>1. facts' = [facts EXCEPT ![o] = @ \cup {"declined"}]
      BY <2>1 DEF StepTell
    <3> QED BY <1>1, <1>2, <3>1, ActIsAct DEF Deeds
  <2>2. CASE c.op # "reject"
    BY <1>2, <2>2 DEF StepTell, Forward, Core, Typed
  <2> QED BY <2>1, <2>2
<1>5. Typed' /\ Started(o)'
  BY <1>1, <1>2, <1>4 DEF Core, Typed, Started
<1>6. Good(Receipt(News(c.op), o, <<c.op, c.id>>))'
  <2>1. \/ c.op = "open" /\ "opened" \in facts'[o]
        \/ c.op = "accept" /\ "taken" \in facts'[o]
        \/ c.op = "reject" /\ "declined" \in facts'[o]
    BY <1>1, <1>4 DEF Sound, Forward
  <2> QED BY <1>5, <2>1 DEF Good, Receipt, News, Promise!Evidence
<1>7. Sound(d)'
  BY <1>3, <1>5 DEF Sound
<1>8. Core'
  BY <1>2, <1>4, <1>5, <1>6, <1>7, NewIsTrue
<1> QED BY <1>1, <1>4, <1>8

(* A call begins.                                                           *)
LEMMA BeginKeeps ==
  ASSUME Core, NEW o \in Object, Started(o),
         NEW op, NEW stage \in {"update", "tell", "delete"}, Begin(op, o, stage),
         stage = "update" => op \in {"open", "accept", "expire"},
         stage = "tell" => op = "reject",
         UNCHANGED <<sent, kept, writes, row, objs, net, facts>>
  PROVE  Core'
<1> PICK c : c = [op |-> op, obj |-> o, stage |-> stage, id |-> rowId[o],
                   once |-> opt[o].once /\ o \notin plain]
  OBVIOUS
<1>1. /\ c = [op |-> c.op, obj |-> c.obj, stage |-> c.stage, id |-> c.id, once |-> c.once]
      /\ c.op = op /\ c.obj = o /\ c.stage = stage
      /\ calls' = calls \cup {c}
  BY DEF Begin
<1>2. Typed' /\ Forward /\ Started(o)'
  BY DEF Core, Typed, Forward, Started
<1>3. Sound(c)'
  BY <1>1, <1>2 DEF Sound
<1> QED BY <1>1, <1>2, <1>3, NewIsTrue

(* A call that begins has done nothing yet.                                 *)
LEMMA CallKeeps ==
  ASSUME Core, NEW o \in Object,
         \/ InboxUses(o) \/ MarkOpened(o) \/ AcceptObject(o) \/ RejectObject(o)
         \/ SweepReceived(o) \/ TaskOpens(o)
  PROVE  Core' /\ UNCHANGED <<sent, writes, facts>>
<1>1. UNCHANGED <<sent, kept, writes, row, objs, net, facts>>
  BY DEF InboxUses, MarkOpened, AcceptObject, RejectObject, SweepReceived, TaskOpens,
         sender, recipient
<1>2. \/ UNCHANGED calls
      \/ Started(o) /\ Begin("open", o, "update")
      \/ Started(o) /\ Begin("accept", o, "update")
      \/ Started(o) /\ Begin("reject", o, "tell")
      \/ Started(o) /\ Begin("expire", o, "update")
      \/ Started(o) /\ Begin("expire", o, "delete")
  BY DEF InboxUses, MarkOpened, AcceptObject, RejectObject, SweepReceived, TaskOpens,
         Openable, Core, HeldAfterSending
<1>3. CASE UNCHANGED calls
  <2>1. Typed' /\ Forward
    BY <1>1 DEF Core, Typed, Forward
  <2> QED BY <1>1, <1>3, <2>1, NewIsTrue
<1> QED BY <1>1, <1>2, <1>3, BeginKeeps

(* The other steps leave the two rows, and what was done, alone.            *)
LEMMA RestKeeps ==
  ASSUME Core,
         \/ UNCHANGED vars \/ Reload \/ Decide
         \/ \E o \in Object :
              \/ LibraryUses(o) \/ DeleteReceived(o)
              \/ TaskOpened(o) \/ Ask(o) \/ Run(o) \/ Answer(o)
         \/ \E m \in net : Lose(m) \/ MergeChunks(m)
         \/ \E c \in calls : StepDelete(c)
  PROVE  Core' /\ UNCHANGED <<sent, writes, facts>>
<1>1. /\ UNCHANGED <<sent, writes, facts>> /\ net' \subseteq net
      /\ kept' \subseteq kept /\ objs' \subseteq objs
      /\ \/ row' = row \/ \E o \in Object : row' = [row EXCEPT ![o] = "none"]
  BY DEF vars, Reload, Decide, LibraryUses, DeleteReceived, TaskOpened, Ask, Run,
         Answer, Lose, MergeChunks, StepDelete, DeleteLocal, sender, recipient, history,
         Core, CallType, Sound, Started
<1>2. calls' \subseteq calls \cup {[c EXCEPT !.stage = "end"] : c \in calls}
  BY DEF vars, Reload, Decide, LibraryUses, DeleteReceived, TaskOpened, Ask, Run,
         Answer, Lose, MergeChunks, StepDelete, Go, recipient
<1>3. Typed' /\ Forward
  BY <1>1 DEF Core, Typed, Forward
<1>4. \A o \in Object : row'[o] # "none" => row[o] # "none"
  BY <1>1 DEF Core, Typed
<1>5. ASSUME NEW c \in calls PROVE Sound([c EXCEPT !.stage = "end"])'
  <2> DEFINE d == [c EXCEPT !.stage = "end"]
  <2>1. Sound(c) /\ Started(c.obj)'
    BY <1>3, OldStaysTrue DEF Core, CallType, Sound
  <2>2. /\ d = [op |-> d.op, obj |-> d.obj, stage |-> d.stage, id |-> d.id, once |-> d.once]
        /\ d.obj = c.obj /\ d.stage = "end"
    BY <2>1, NextStage DEF Sound
  <2> HIDE DEF d
  <2>3. Sound(d)'
    BY <2>1, <2>2 DEF Sound
  <2> QED BY <2>3 DEF d
<1>6. Core'
  BY <1>1, <1>2, <1>3, <1>4, <1>5, NewIsTrue
<1> QED BY <1>1, <1>6

-----------------------------------------------------------------------------
(* Every step keeps the invariant and is a step of the promise, or none.    *)
LEMMA StepSimulates ==
  ASSUME Core, [Next]_vars
  PROVE  Core' /\ [Promise!Next]_<<sent, writes, facts>>
<1>1. ASSUME NEW o \in Object, \/ Promise!Send(o) \/ Promise!Decide(o) \/ Promise!Act(o)
                               \/ Promise!Learn(o) \/ Promise!Delete(o)
      PROVE  Promise!Next
  BY <1>1 DEF Promise!Next
<1>2. ASSUME NEW o \in Object, SendObject(o) \/ DeleteSent(o)
      PROVE  Core' /\ [Promise!Next]_<<sent, writes, facts>>
  BY <1>1, <1>2, SendKeeps, DeleteKeeps
<1>3. ASSUME NEW o \in Object, RetryDelivery(o) \/ GiveUp(o) \/ SweepSent(o)
      PROVE  Core' /\ [Promise!Next]_<<sent, writes, facts>>
  BY <1>1, <1>3, DecideKeeps
<1>4. ASSUME NEW o \in Object, ResendChunks(o) \/ HandOff(o)
      PROVE  Core' /\ [Promise!Next]_<<sent, writes, facts>>
  BY <1>4, AgainKeeps
<1>5. ASSUME NEW w \in writes, StepWrite(w)
      PROVE  Core' /\ [Promise!Next]_<<sent, writes, facts>>
  BY <1>5, WriteKeeps DEF Promise!Next
<1>6. ASSUME NEW m \in net, Learn(m) \/ Receive(m)
      PROVE  Core' /\ [Promise!Next]_<<sent, writes, facts>>
  BY <1>1, <1>6, LearnKeeps, ReceiveKeeps
<1>7. ASSUME NEW c \in calls, StepUpdate(c) \/ StepTell(c)
      PROVE  Core' /\ [Promise!Next]_<<sent, writes, facts>>
  BY <1>1, <1>7, StepUpdateKeeps, StepTellKeeps
<1>8. ASSUME NEW o \in Object,
             \/ InboxUses(o) \/ MarkOpened(o) \/ AcceptObject(o) \/ RejectObject(o)
             \/ SweepReceived(o) \/ TaskOpens(o)
      PROVE  Core' /\ UNCHANGED <<sent, writes, facts>>
  BY <1>8, CallKeeps
<1>9. ASSUME \/ UNCHANGED vars \/ Reload \/ Decide
             \/ \E o \in Object :
                  \/ LibraryUses(o) \/ DeleteReceived(o)
                  \/ TaskOpened(o) \/ Ask(o) \/ Run(o) \/ Answer(o)
             \/ \E m \in net : Lose(m) \/ MergeChunks(m)
             \/ \E c \in calls : StepDelete(c)
      PROVE  Core' /\ UNCHANGED <<sent, writes, facts>>
  BY <1>9, RestKeeps
<1>10. CASE ReloadSender
  BY <1>10, ReloadSenderKeeps DEF Promise!Next
<1> QED BY <1>2, <1>3, <1>4, <1>5, <1>6, <1>7, <1>8, <1>9, <1>10 DEF Next

(* Every receipt under way, and every call in progress, is evidence of what *)
(* the recipient did.                                                       *)
THEOREM CoreAlways == Spec => []Core
<1>1. Core /\ [Next]_vars => Core'
  BY StepSimulates
<1> QED BY <1>1, InitCore, PTL DEF Spec

(* The rows and receipts of engine.ts implement what a status promises: the *)
(* abstract specification, for any objects and options.                     *)
THEOREM StatusIsTruthful == Spec => PromiseKept
<1>1. Init => Promise!Init
  BY DEF Init, Promise!Init
<1>2. Core /\ [Next]_vars => [Promise!Next]_<<sent, writes, facts>>
  BY StepSimulates
<1> QED BY <1>1, <1>2, CoreAlways, PTL DEF Spec, PromiseKept, Promise!Spec
-----------------------------------------------------------------------------
(* Agreement.                                                               *)

(* The sender will be told: by a receipt on its way, or by the call that    *)
(* is about to send it.                                                     *)
Telling(op, o) ==
  \/ \E m \in net : m.to = "sender" /\ m.obj = o /\ m.type = News(op)
  \/ \E c \in calls : c.obj = o /\ c.op = op /\ c.stage = "tell"

(* The sender of an object shows what was done with it, or will be told.    *)
AnsweredOf(o) ==
  /\ sent[o] = "opened" => "opened" \in facts[o]
  /\ o \notin torn =>
       /\ "opened" \in facts[o] /\ "declined" \notin facts[o] =>
            sent[o] \in {"opened", "none"} \/ Telling("open", o)
       /\ facts[o] # {} /\ facts[o] \subseteq {"taken", "handed"} =>
            sent[o] \in {"delivered", "expired", "none"} \/ Telling("accept", o)
       /\ facts[o] = {"declined"} =>
            sent[o] \in {"rejected", "expired", "none"} \/ Telling("reject", o)
Answered == \A o \in Object : AnsweredOf(o)

(* What happened to an object is never forgotten.                           *)
LEMMA TornGrows ==
  ASSUME [Next]_vars
  PROVE  torn \subseteq torn'
<1>1. CASE UNCHANGED vars
  BY <1>1 DEF vars, history
<1>2. CASE \E m \in net : Learn(m) \/ Lose(m) \/ MergeChunks(m) \/ Receive(m)
  BY <1>2 DEF Learn, Lose, MergeChunks, Receive, Overlap, history
<1>3. CASE \/ \E c \in calls : StepUpdate(c) \/ StepTell(c) \/ StepDelete(c)
           \/ \E w \in writes : StepWrite(w)
           \/ ReloadSender \/ Reload \/ Decide
  BY <1>3 DEF StepUpdate, StepTell, StepDelete, StepWrite, ReloadSender, Reload, Decide, history
<1>4. CASE \E o \in Object :
             \/ SendObject(o) \/ GiveUp(o) \/ RetryDelivery(o) \/ ResendChunks(o)
             \/ HandOff(o) \/ SweepSent(o) \/ DeleteSent(o)
             \/ LibraryUses(o) \/ TaskOpened(o) \/ Ask(o) \/ Run(o) \/ Answer(o)
  BY <1>4 DEF SendObject, GiveUp, RetryDelivery, ResendChunks, HandOff, SweepSent, DeleteSent,
              LibraryUses, TaskOpened, Ask, Run, Answer, history
<1>5. CASE \E o \in Object :
             \/ InboxUses(o) \/ MarkOpened(o) \/ AcceptObject(o) \/ RejectObject(o)
             \/ DeleteReceived(o) \/ SweepReceived(o) \/ TaskOpens(o)
  BY <1>5 DEF InboxUses, MarkOpened, AcceptObject, RejectObject, DeleteReceived,
              SweepReceived, TaskOpens, Begin, Overlap
<1> QED BY <1>1, <1>2, <1>3, <1>4, <1>5 DEF Next

(* A step that neither changes what the two ends did with an object nor     *)
(* takes away what is to be told about it.                                  *)
LEMMA Elsewhere ==
  ASSUME NEW o \in Object, AnsweredOf(o), torn \subseteq torn',
         sent'[o] = sent[o], facts'[o] = facts[o],
         \A m \in net : m.obj = o /\ m.to = "sender" => m \in net' \/ o \in torn',
         \A c \in calls : c.obj = o /\ c.stage = "tell" => c \in calls' \/ o \in torn'
  PROVE  AnsweredOf(o)'
<1>1. ASSUME NEW op, Telling(op, o), o \notin torn'
      PROVE  Telling(op, o)'
  BY <1>1 DEF Telling
<1>2. o \in torn => o \in torn'
  OBVIOUS
<1> QED BY <1>1, <1>2 DEF AnsweredOf

(* The sender sends, deletes, or writes what it decided on: over a row that *)
(* a receipt or an expiry changed, which is noted, or over an older status. *)
LEMMA SenderAnswered ==
  ASSUME Core, Answered, torn \subseteq torn',
         \/ \E o \in Object : SendObject(o) \/ DeleteSent(o)
         \/ \E w \in writes : StepWrite(w)
  PROVE  Answered'
<1>1. PICK o \in Object :
        /\ UNCHANGED <<facts, calls>> /\ net \subseteq net'
        /\ \A p \in Object \ {o} : sent'[p] = sent[p]
        /\ \/ sent[o] = "new" /\ sent'[o] = "queued"
           \/ sent'[o] = "none"
           \/ sent[o] # "none" /\ sent'[o] \in {"queued", "sending", "failed"}
              /\ (o \notin torn' => sent[o] \notin {"opened", "delivered", "rejected", "expired"})
           \/ sent[o] # "none" /\ sent'[o] = "expired" /\ (o \notin torn' => sent[o] # "opened")
  <2>1. CASE \E o \in Object : SendObject(o) \/ DeleteSent(o)
    BY <2>1 DEF SendObject, DeleteSent, Sends, recipient, history, Core, Typed
  <2>2. CASE \E w \in writes : StepWrite(w)
    <3>1. PICK w \in writes : StepWrite(w)
      BY <2>2
    <3>2. w.obj \in Object /\ w.as \in {"queued", "sending", "failed", "expired"}
      BY DEF Core, HeldAfterSending, Written, Started
    <3>3. /\ UNCHANGED <<facts, calls>> /\ net \subseteq net'
          /\ sent' = [sent EXCEPT ![w.obj] = IF @ = "none" THEN "none" ELSE w.as]
          /\ w.obj \notin torn' => ~Overwrites(w)
      BY <3>1 DEF StepWrite, Sends, recipient
    <3> QED BY <3>2, <3>3 DEF Overwrites, Core, Typed
  <2> QED BY <2>1, <2>2
<1>2. \A op : Telling(op, o) => Telling(op, o)'
  BY <1>1 DEF Telling
<1>3. AnsweredOf(o) /\ facts'[o] = facts[o] /\ (o \in torn => o \in torn')
  BY <1>1 DEF Answered
<1>4. AnsweredOf(o)'
  <2>1. sent'[o] # "opened"
    BY <1>1
  <2> SUFFICES ASSUME o \notin torn' PROVE AnsweredOf(o)'
    BY <2>1 DEF AnsweredOf
  <2>2. CASE sent'[o] = "none"
    BY <1>3, <2>2 DEF AnsweredOf
  <2>3. CASE sent[o] \notin {"none", "opened", "delivered", "rejected", "expired"}
    BY <1>2, <1>3, <2>1, <2>3 DEF AnsweredOf
  <2>4. CASE sent[o] \notin {"none", "opened"} /\ sent'[o] = "expired"
    BY <1>2, <1>3, <2>4 DEF AnsweredOf
  <2> QED BY <1>1, <2>2, <2>3, <2>4
<1>5. \A p \in Object \ {o} : AnsweredOf(p)'
  BY <1>1, Elsewhere DEF Answered
<1> QED BY <1>4, <1>5 DEF Answered

(* A receipt arrives.                                                       *)
LEMMA LearnAnswered ==
  ASSUME Core, Answered, torn \subseteq torn', NEW m \in net, Learn(m)
  PROVE  Answered'
<1> PICK o : o = m.obj
  OBVIOUS
<1>1. /\ UNCHANGED <<facts, calls>> /\ net' = net \ {m} /\ (o \in torn => o \in torn')
      /\ m.to = "sender"
      /\ sent' = [sent EXCEPT ![o] =
                    IF @ = "none" THEN "none"
                    ELSE IF m.type = "delivered" THEN MarkDelivered(o) ELSE m.type]
  BY DEF Learn, recipient, history
<1>2. o \in Object /\ m.type \in {"delivered", "opened", "rejected"}
      /\ Promise!Evidence(m.type) \cap facts[o] # {}
  BY <1>1 DEF Core, Truthful, Good, Started
<1>3. AnsweredOf(o) /\ facts'[o] = facts[o]
  BY <1>1, <1>2 DEF Answered
<1>4. sent'[o] = IF sent[o] = "none" THEN "none"
                 ELSE IF m.type = "delivered"
                 THEN IF sent[o] = "opened" THEN "opened" ELSE "delivered" ELSE m.type
  BY <1>1, <1>2 DEF MarkDelivered, Core, Typed
<1>5. ASSUME NEW op, Telling(op, o), News(op) # m.type
      PROVE  Telling(op, o)'
  BY <1>1, <1>5 DEF Telling
<1>6. AnsweredOf(o)'
  <2>1. CASE m.type = "delivered"
    <3>1. "taken" \in facts[o] \/ "handed" \in facts[o]
      BY <1>2, <2>1 DEF Promise!Evidence
    <3>2. Telling("open", o) => Telling("open", o)'
      BY <1>5, <2>1 DEF News
    <3> QED BY <1>1, <1>3, <1>4, <2>1, <3>1, <3>2 DEF AnsweredOf
  <2>2. CASE m.type = "opened"
    <3>1. "opened" \in facts[o]
      BY <1>2, <2>2 DEF Promise!Evidence
    <3> QED BY <1>1, <1>3, <1>4, <2>2, <3>1 DEF AnsweredOf
  <2>3. CASE m.type = "rejected"
    <3>1. "declined" \in facts[o]
      BY <1>2, <2>3 DEF Promise!Evidence
    <3> QED BY <1>1, <1>3, <1>4, <2>3, <3>1 DEF AnsweredOf
  <2> QED BY <1>2, <2>1, <2>2, <2>3
<1>7. ASSUME NEW p \in Object, p # o
      PROVE  AnsweredOf(p)'
  <2>1. sent'[p] = sent[p] /\ facts'[p] = facts[p]
    BY <1>1, <1>7 DEF Core, Typed
  <2> QED BY <1>1, <1>7, <2>1, Elsewhere DEF Answered
<1> QED BY <1>6, <1>7 DEF Answered

(* The recipient takes an object, or does something with one, and says so.  *)
LEMMA ActAnswered ==
  ASSUME Core, Answered, torn \subseteq torn', NEW o \in Object, NEW f \in Deeds,
         facts' = [facts EXCEPT ![o] = @ \cup {f}], sent' = sent,
         f \in {"taken", "handed"} => Telling("accept", o)',
         f = "opened" => Telling("open", o)',
         f = "declined" => Telling("reject", o)',
         \A op : Telling(op, o) => Telling(op, o)',
         \A m \in net : m.to = "sender" => m \in net',
         \A c \in calls : c.obj # o => c \in calls'
  PROVE  Answered'
<1>1. facts \in [Object -> SUBSET Deeds]
  BY DEF Core, Typed
<1>2. facts'[o] = facts[o] \cup {f} /\ AnsweredOf(o)
  BY <1>1 DEF Answered
<1>3. AnsweredOf(o)'
  <2>1. facts'[o] \subseteq {"taken", "handed"} => f \in {"taken", "handed"}
    BY <1>2
  <2>2. facts'[o] = {"declined"} => f = "declined"
    BY <1>2
  <2>3. "opened" \in facts'[o] => f = "opened" \/ "opened" \in facts[o]
    BY <1>2
  <2>4. "declined" \notin facts'[o] => "declined" \notin facts[o]
    BY <1>2
  <2>5. o \in torn => o \in torn'
    OBVIOUS
  <2>6. sent[o] = "opened" => "opened" \in facts'[o]
    BY <1>2 DEF AnsweredOf
  <2> QED BY <1>2, <2>1, <2>2, <2>3, <2>4, <2>5, <2>6 DEF AnsweredOf
<1>4. ASSUME NEW p \in Object, p # o
      PROVE  AnsweredOf(p)'
  <2>1. sent'[p] = sent[p] /\ facts'[p] = facts[p]
    BY <1>1, <1>4
  <2> QED BY <1>4, <2>1, Elsewhere DEF Answered
<1> QED BY <1>3, <1>4 DEF Answered

(* A delivery that is acknowledged, or waits for confirmation.              *)
LEMMA ReceiveAnswered ==
  ASSUME Core, Answered, torn \subseteq torn', NEW m \in net, Receive(m)
  PROVE  Answered'
<1> PICK o : o = m.obj
  OBVIOUS
<1>1. /\ UNCHANGED <<sent, calls>> /\ net' = (net \ {m}) \cup Acked(m) /\ o \in Object
      /\ m.to = "recipient"
  BY DEF Receive, sender, Core, Truthful, Good, Started
<1>2. \A n \in net : n.to = "sender" => n \in net'
  BY <1>1
<1>3. CASE Confirms(m)
  <2>1. facts' = facts
    BY <1>3 DEF Receive
  <2> QED BY <1>1, <1>2, <2>1, Elsewhere DEF Answered
<1>4. CASE ~Confirms(m)
  <2>1. PICK f \in {"taken", "handed"} : facts' = [facts EXCEPT ![o] = @ \cup {f}]
    BY <1>4 DEF Receive
  <2>2. Receipt("delivered", o, m.cause) \in net'
    BY <1>1, <1>4 DEF Acked
  <2>3. Telling("accept", o)'
    BY <2>2 DEF Telling, News, Receipt
  <2>4. \A op : Telling(op, o) => Telling(op, o)'
    BY <1>1, <1>2 DEF Telling
  <2> QED BY <1>1, <1>2, <2>1, <2>3, <2>4, ActAnswered DEF Deeds
<1> QED BY <1>3, <1>4

(* The two steps of a call that says something.                             *)
LEMMA CallAnswered ==
  ASSUME Core, Answered, torn \subseteq torn', NEW c \in calls, StepUpdate(c) \/ StepTell(c)
  PROVE  Answered'
<1> PICK o : o = c.obj
  OBVIOUS
<1>1. o \in Object /\ Sound(c)
  BY DEF Core, CallType, Sound, Started
<1>2. CASE StepUpdate(c)
  <2>1. /\ UNCHANGED <<sent, net>> /\ c.stage = "update"
        /\ calls \ {c} \subseteq calls'
    BY <1>2 DEF StepUpdate, Go, sender
  <2>2. \A op : Telling(op, o) => Telling(op, o)'
    BY <2>1 DEF Telling
  <2>3. CASE UNCHANGED facts
    BY <2>1, <2>3, Elsewhere DEF Answered
  <2>4. ASSUME Go(c, "tell"), NEW f \in {"taken", "opened"},
               facts' = [facts EXCEPT ![o] = @ \cup {f}],
               f = "opened" => c.op = "open", f = "taken" => c.op = "accept"
        PROVE  Answered'
    <3> PICK d : d = [c EXCEPT !.stage = "tell"]
      OBVIOUS
    <3>1. d \in calls' /\ d.obj = o /\ d.op = c.op /\ d.stage = "tell"
      BY <1>1, <2>4, NextStage DEF Go, Sound
    <3>2. Telling(c.op, o)'
      BY <3>1 DEF Telling
    <3> QED BY <1>1, <2>1, <2>2, <2>4, <3>2, ActAnswered DEF Deeds
  <2> QED BY <1>2, <2>3, <2>4 DEF StepUpdate, Did
<1>3. CASE StepTell(c)
  <2> PICK m : m = Receipt(News(c.op), o, <<c.op, c.id>>)
    OBVIOUS
  <2>1. /\ sent' = sent /\ c.stage = "tell" /\ net' = net \cup {m}
        /\ m.to = "sender" /\ m.obj = o /\ m.type = News(c.op)
        /\ calls \ {c} \subseteq calls'
    BY <1>3 DEF StepTell, Go, sender, Receipt
  <2>2. ASSUME NEW op, Telling(op, o) PROVE Telling(op, o)'
    <3>1. CASE \E d \in calls : d.obj = o /\ d.op = op /\ d.stage = "tell" /\ d # c
      BY <2>1, <3>1 DEF Telling
    <3>2. CASE op = c.op
      BY <2>1, <3>2 DEF Telling
    <3> QED BY <2>1, <2>2, <3>1, <3>2 DEF Telling
  <2>3. CASE c.op = "reject"
    <3>1. facts' = [facts EXCEPT ![o] = @ \cup {"declined"}]
      BY <1>3, <2>3 DEF StepTell
    <3>2. Telling("reject", o)'
      BY <2>1, <2>3 DEF Telling
    <3> QED BY <1>1, <2>1, <2>2, <3>1, <3>2, ActAnswered DEF Deeds
  <2>4. CASE c.op # "reject"
    <3>1. facts' = facts
      BY <1>3, <2>4 DEF StepTell
    <3>2. \A p \in Object \ {o} : AnsweredOf(p)'
      BY <2>1, <3>1, Elsewhere DEF Answered
    <3>3. AnsweredOf(o) /\ sent'[o] = sent[o] /\ facts'[o] = facts[o] /\ (o \in torn => o \in torn')
      BY <1>1, <2>1, <3>1 DEF Answered
    <3>4. AnsweredOf(o)'
      BY <2>2, <3>3 DEF AnsweredOf
    <3> QED BY <3>2, <3>4 DEF Answered
  <2> QED BY <2>3, <2>4
<1> QED BY <1>2, <1>3

(* The rest: what is lost or interrupted is noted, and nothing else is said. *)
LEMMA RestAnswered ==
  ASSUME Core, Answered, torn \subseteq torn',
         \/ UNCHANGED vars \/ Reload \/ ReloadSender \/ Decide
         \/ \E o \in Object :
              \/ RetryDelivery(o) \/ GiveUp(o) \/ ResendChunks(o) \/ HandOff(o) \/ SweepSent(o)
              \/ InboxUses(o) \/ LibraryUses(o) \/ MarkOpened(o)
              \/ AcceptObject(o) \/ RejectObject(o) \/ DeleteReceived(o) \/ SweepReceived(o)
              \/ TaskOpens(o) \/ TaskOpened(o) \/ Ask(o) \/ Run(o) \/ Answer(o)
         \/ \E m \in net : Lose(m) \/ MergeChunks(m)
         \/ \E c \in calls : StepDelete(c)
  PROVE  Answered'
<1>1. /\ UNCHANGED <<sent, facts>>
      /\ \A m \in net : m.to = "sender" => m \in net' \/ m.obj \in torn'
      /\ \A c \in calls : c.stage # "delete" => c \in calls' \/ c.obj \in torn'
  <2>1. CASE UNCHANGED vars
    BY <2>1 DEF vars, sender, recipient, history
  <2>2. CASE Reload \/ ReloadSender
    BY <2>2 DEF Reload, ReloadSender, sender, recipient, history
  <2>3. CASE \E o \in Object :
               \/ InboxUses(o) \/ MarkOpened(o) \/ AcceptObject(o) \/ RejectObject(o)
               \/ DeleteReceived(o) \/ SweepReceived(o) \/ TaskOpens(o)
    BY <2>3 DEF InboxUses, MarkOpened, AcceptObject, RejectObject, DeleteReceived,
                SweepReceived, TaskOpens, Begin, sender
  <2>4. CASE Decide \/ \E o \in Object :
               \/ SweepSent(o) \/ RetryDelivery(o) \/ GiveUp(o) \/ ResendChunks(o) \/ HandOff(o)
               \/ LibraryUses(o) \/ TaskOpened(o) \/ Ask(o) \/ Run(o) \/ Answer(o)
    BY <2>4 DEF Decide, SweepSent, RetryDelivery, GiveUp, ResendChunks, HandOff,
                LibraryUses, TaskOpened, Ask, Run, Answer, sender, recipient, history
  <2>5. CASE \E m \in net : Lose(m)
    BY <2>5 DEF Lose, sender, recipient
  <2>6. CASE \E m \in net : MergeChunks(m)
    BY <2>6 DEF MergeChunks, Core, Truthful, Good, sender, recipient, history
  <2>7. CASE \E c \in calls : StepDelete(c)
    BY <2>7 DEF StepDelete, Go, sender
  <2> QED BY <2>1, <2>2, <2>3, <2>4, <2>5, <2>6, <2>7
<1> QED BY <1>1, Elsewhere DEF Answered

(* Every object is answered for, at every moment.                           *)
THEOREM AnsweredAlways == Spec => []Answered
<1>1. Init => Answered
  <2> SUFFICES ASSUME Init PROVE Answered
    OBVIOUS
  <2>1. \A o \in Object : sent[o] \in {"new", "none"} /\ facts[o] = {}
    BY DEF Init
  <2> QED BY <2>1 DEF Answered, AnsweredOf
<1>2. Core /\ Answered /\ [Next]_vars => Answered'
  <2> SUFFICES ASSUME Core, Answered, [Next]_vars PROVE Answered'
    OBVIOUS
  <2>1. torn \subseteq torn'
    BY TornGrows
  <2> QED BY <2>1, SenderAnswered, LearnAnswered, ReceiveAnswered, CallAnswered, RestAnswered
          DEF Next
<1> QED BY <1>1, <1>2, CoreAlways, PTL DEF Spec

(* When every envelope of an object has arrived, in whatever order, no two  *)
(* calls of the recipient on it overlapped and no write of the sender fell  *)
(* on a newer status, the sender shows what the recipient did.              *)
THEOREM EndsAgree == Spec => []Agreement
<1>1. Answered => Agreement
  <2> SUFFICES ASSUME Answered, NEW o \in Object, Settled(o)
               PROVE  /\ "opened" \in facts[o] /\ "declined" \notin facts[o] => sent[o] \in {"opened", "none"}
                      /\ facts[o] # {} /\ facts[o] \subseteq {"taken", "handed"}
                           => sent[o] \in {"delivered", "expired", "none"}
                      /\ facts[o] = {"declined"} => sent[o] \in {"rejected", "expired", "none"}
    BY DEF Agreement
  <2>1. ASSUME NEW op PROVE ~Telling(op, o)
    BY DEF Telling, Settled, InProgress
  <2> QED BY <2>1 DEF Answered, AnsweredOf, Settled
<1> QED BY <1>1, AnsweredAlways, PTL
-----------------------------------------------------------------------------
(* Consent and deletion after opening.                                      *)

(* The recipient holds something of the object, or has done something.      *)
Present(o) == row[o] # "none" \/ o \in objs \/ facts[o] # {} \/ \E c \in calls : c.obj = o

Coming(o) == {m \in net : m.to = "recipient" /\ m.obj = o}
Single(ms) == \A m, n \in ms : m = n /\ m.type = "create"
Requeued(o) == {w \in writes : w.obj = o /\ w.as = "queued"}

(* What is not sent again is received once, under its options.              *)
Once(o) ==
  /\ Single(Coming(o)) /\ (Present(o) => Coming(o) = {})
  /\ Requeued(o) = {} /\ o \notin plain
  /\ \A c \in calls : c.obj = o /\ opt[o].once => c.once

(* Only what expires expires.                                               *)
Fresh(o) ==
  /\ Present(o) => sent[o] # "new"
  /\ retries = 0 => Once(o)
  /\ row[o] = "expired" => opt[o].expires
  /\ \A c \in calls : c.obj = o /\ c.op = "expire" => opt[o].expires

Unrepeated(o) == opt[o].expires => retries = 0

(* Of an object whose calls never overlapped one at most is in progress; it *)
(* can be opened only once it was taken (when it has expired, nothing is    *)
(* left to open but under the call that deletes it); and what burns after   *)
(* reading is gone, or about to go, once it was opened.                     *)
Orderly(o) ==
  o \notin torn =>
    /\ \A c, d \in calls : c.obj = o /\ d.obj = o => c = d
    /\ Unrepeated(o) =>
         /\ \/ row[o] \in {"delivered", "opened"} \/ "opened" \in facts[o]
            \/ \E c \in calls : c.obj = o /\ c.op = "open"
            => "taken" \in facts[o]
         /\ row[o] = "expired" =>
              o \notin objs \/ \E c \in calls : c.obj = o /\ c.op = "expire"
    /\ retries = 0 /\ opt[o].once /\ "opened" \in facts[o] =>
         o \notin objs \/ \E c \in calls : c.obj = o /\ c.op = "open" /\ c.stage \in {"tell", "delete"}

Careful(o) == Fresh(o) /\ Orderly(o)
Carefully == \A o \in Object : Careful(o)

(* The rest of the workspace, as one object sees it: the recipient keeps    *)
(* what it had of it, or its calls are interrupted.                         *)
Aside(o) ==
  /\ row'[o] = row[o] /\ facts'[o] = facts[o] /\ (o \in objs' <=> o \in objs)
  /\ \/ \A c \in calls \cup calls' : c.obj = o => c \in calls /\ c \in calls'
     \/ o \in torn' /\ calls' \subseteq calls
  /\ sent'[o] = "new" => sent[o] = "new"
  /\ retries' = 0 =>
       /\ Coming(o)' \subseteq Coming(o) \/ (sent[o] = "new" /\ Single(Coming(o)'))
       /\ Requeued(o)' \subseteq Requeued(o) /\ (o \in plain' => o \in plain)

(* What is common to all steps.                                             *)
Ongoing ==
  opt' = opt /\ torn \subseteq torn' /\ (retries' = 0 => retries = 0)

(* A step that does not touch an object leaves it as careful as it was.     *)
LEMMA AsideKeeps ==
  ASSUME NEW o \in Object, Careful(o), Aside(o), Ongoing
  PROVE  Careful(o)'
<1>1. Present(o)' => Present(o)
  BY DEF Present, Aside
<1>2. Fresh(o)'
  <2>1. ASSUME retries' = 0 PROVE Once(o)'
    <3>1. Once(o) /\ (Present(o) => sent[o] # "new")
      BY <2>1 DEF Ongoing, Careful, Fresh
    <3>2. Single(Coming(o))' /\ (Present(o)' => Coming(o)' = {})
      BY <1>1, <2>1, <3>1 DEF Once, Aside, Single
    <3>3. Requeued(o)' = {} /\ o \notin plain'
      BY <2>1, <3>1 DEF Once, Aside
    <3>4. \A c \in calls' : c.obj = o /\ opt'[o].once => c.once
      BY <3>1 DEF Once, Aside, Ongoing
    <3> QED BY <3>2, <3>3, <3>4 DEF Once
  <2> QED BY <1>1, <2>1 DEF Careful, Fresh, Aside, Ongoing
<1>3. CASE o \in torn'
  BY <1>2, <1>3 DEF Careful, Orderly
<1>4. CASE o \notin torn'
  <2>1. \A c \in calls \cup calls' : c.obj = o => c \in calls /\ c \in calls'
    BY <1>4 DEF Aside
  <2>2. Orderly(o)'
    BY <1>4, <2>1 DEF Careful, Orderly, Unrepeated, Aside, Ongoing
  <2> QED BY <1>2, <2>2 DEF Careful
<1> QED BY <1>3, <1>4

(* Nothing is retried twice over, and the options stay.                     *)
LEMMA StepsAreOngoing ==
  ASSUME Core, [Next]_vars, retries \in Nat
  PROVE  Ongoing /\ retries' \in Nat
<1>1. torn \subseteq torn'
  BY TornGrows
<1>2. opt' = opt /\ (retries' = retries \/ retries' = retries + 1)
  <2>1. CASE UNCHANGED vars
    BY <2>1 DEF vars, params, sender
  <2>2. CASE \E m \in net : Learn(m) \/ Lose(m) \/ MergeChunks(m) \/ Receive(m)
    BY <2>2 DEF Learn, Lose, MergeChunks, Receive, params, sender
  <2>3. CASE \/ \E c \in calls : StepUpdate(c) \/ StepTell(c) \/ StepDelete(c)
             \/ \E w \in writes : StepWrite(w)
             \/ ReloadSender \/ Reload \/ Decide
    BY <2>3 DEF StepUpdate, StepTell, StepDelete, StepWrite, ReloadSender, Reload, Decide,
                params, sender
  <2>4. CASE \E o \in Object :
               \/ SendObject(o) \/ GiveUp(o) \/ RetryDelivery(o) \/ ResendChunks(o)
               \/ HandOff(o) \/ SweepSent(o) \/ DeleteSent(o)
               \/ LibraryUses(o) \/ TaskOpened(o) \/ Ask(o) \/ Run(o) \/ Answer(o)
    BY <2>4 DEF SendObject, GiveUp, RetryDelivery, ResendChunks, HandOff, SweepSent, DeleteSent,
                Again, LibraryUses, TaskOpened, Ask, Run, Answer, params, sender
  <2>5. CASE \E o \in Object :
               \/ InboxUses(o) \/ MarkOpened(o) \/ AcceptObject(o) \/ RejectObject(o)
               \/ DeleteReceived(o) \/ SweepReceived(o) \/ TaskOpens(o)
    BY <2>5 DEF InboxUses, MarkOpened, AcceptObject, RejectObject, DeleteReceived,
                SweepReceived, TaskOpens, params, sender
  <2> QED BY <2>1, <2>2, <2>3, <2>4, <2>5 DEF Next
<1> QED BY <1>1, <1>2 DEF Ongoing

(* What the sender does, as one object sees it.                             *)
LEMMA SenderAside ==
  ASSUME Core, Carefully, retries \in Nat, NEW o \in Object, sent'[o] = "new" => sent[o] = "new",
         \/ \E p \in Object :
              \/ SendObject(p) \/ RetryDelivery(p) \/ GiveUp(p) \/ ResendChunks(p)
              \/ HandOff(p) \/ SweepSent(p) \/ DeleteSent(p)
         \/ \E w \in writes : StepWrite(w)
  PROVE  Aside(o)
<1>1. UNCHANGED <<row, objs, facts, calls, plain>>
  BY DEF SendObject, RetryDelivery, GiveUp, ResendChunks, HandOff, SweepSent, DeleteSent,
         StepWrite, recipient, history
<1>2. ASSUME retries' = 0
      PROVE  /\ Coming(o)' \subseteq Coming(o) \/ (sent[o] = "new" /\ Single(Coming(o)'))
             /\ Requeued(o)' \subseteq Requeued(o)
  <2>1. CASE \E p \in Object : SendObject(p)
    <3>1. PICK p \in Object : SendObject(p)
      BY <2>1
    <3>2. /\ sent[p] = "new" /\ net' = net \cup {Create(p, 0)}
          /\ writes' = writes \/ writes' = writes \cup {ToWrite(p, "sending", 0)}
      BY <3>1 DEF SendObject, Sends
    <3>3. Requeued(o)' \subseteq Requeued(o)
      BY <3>2 DEF Requeued, ToWrite
    <3>4. CASE p = o
      <4>1. \A m \in net : m.obj # o
        BY <3>2, <3>4 DEF Core, Truthful, Good, Started
      <4>2. Coming(o)' \subseteq {Create(o, 0)} /\ Create(o, 0).type = "create"
        BY <3>2, <3>4, <4>1 DEF Coming, Create
      <4>3. Single(Coming(o)')
        BY <4>2 DEF Single
      <4> QED BY <3>2, <3>3, <3>4, <4>3
    <3>5. CASE p # o
      BY <3>2, <3>3, <3>5 DEF Coming, Create
    <3> QED BY <3>4, <3>5
  <2>2. CASE \E w \in writes : StepWrite(w)
    <3>1. PICK w \in writes : StepWrite(w)
      BY <2>2
    <3>2. retries = 0 /\ w.obj \in Object
      BY <1>2, <3>1 DEF StepWrite, Core, HeldAfterSending, Written, Started
    <3>3. w.as # "queued"
      BY <3>2 DEF Carefully, Careful, Fresh, Once, Requeued
    <3>4. writes' \subseteq writes /\ net' = net
      BY <3>1, <3>3 DEF StepWrite
    <3> QED BY <3>4 DEF Coming, Requeued
  <2>3. CASE \E p \in Object : GiveUp(p) \/ SweepSent(p) \/ DeleteSent(p)
    <3>1. PICK p \in Object, as \in {"failed", "expired"} :
            net' = net /\ writes' \subseteq writes \cup {ToWrite(p, as, 0)}
      BY <2>3 DEF GiveUp, SweepSent, DeleteSent
    <3>2. ToWrite(p, as, 0).as # "queued"
      BY DEF ToWrite
    <3>3. Requeued(o)' \subseteq Requeued(o)
      BY <3>1, <3>2 DEF Requeued
    <3> QED BY <3>1, <3>3 DEF Coming
  <2>4. CASE \E p \in Object : RetryDelivery(p) \/ ResendChunks(p) \/ HandOff(p)
    <3>1. retries' = retries + 1
      BY <2>4 DEF RetryDelivery, ResendChunks, HandOff, Again
    <3> QED BY <1>2, <3>1
  <2> QED BY <2>1, <2>2, <2>3, <2>4
<1> QED BY <1>1, <1>2 DEF Aside

(* The steps in which the recipient does nothing.                           *)
LEMMA AwayKeeps ==
  ASSUME Core, Core', Carefully, Ongoing, retries \in Nat,
         \/ UNCHANGED vars \/ Reload \/ ReloadSender \/ Decide
         \/ \E o \in Object :
              \/ SendObject(o) \/ RetryDelivery(o) \/ GiveUp(o) \/ ResendChunks(o)
              \/ HandOff(o) \/ SweepSent(o) \/ DeleteSent(o)
              \/ LibraryUses(o) \/ TaskOpened(o) \/ Ask(o) \/ Run(o) \/ Answer(o)
         \/ \E w \in writes : StepWrite(w)
         \/ \E m \in net : Learn(m) \/ Lose(m) \/ MergeChunks(m)
  PROVE  Carefully'
<1>1. ASSUME NEW o \in Object PROVE sent'[o] = "new" => sent[o] = "new"
  <2>1. CASE \E m \in net : Learn(m)
    BY <2>1 DEF Learn, MarkDelivered, Core, Typed, Truthful, Good
  <2>2. CASE \E w \in writes : StepWrite(w)
    BY <2>2 DEF StepWrite, Core, Typed, HeldAfterSending, Written
  <2>3. CASE \E p \in Object : SendObject(p) \/ DeleteSent(p)
    BY <2>3 DEF SendObject, DeleteSent, Core, Typed
  <2>4. CASE sent' = sent
    BY <2>4
  <2> QED BY <2>1, <2>2, <2>3, <2>4 DEF Reload, ReloadSender, Decide, RetryDelivery, GiveUp,
             ResendChunks, HandOff, SweepSent, LibraryUses, TaskOpened, Ask, Run, Answer, Lose,
             MergeChunks, vars, sender
<1>2. CASE \/ UNCHANGED vars \/ Reload \/ ReloadSender \/ Decide
           \/ \E o \in Object : LibraryUses(o) \/ TaskOpened(o) \/ Ask(o) \/ Run(o) \/ Answer(o)
           \/ \E m \in net : Learn(m) \/ Lose(m) \/ MergeChunks(m)
  <2>1. /\ UNCHANGED <<row, objs, facts, plain>> /\ net' \subseteq net /\ writes' \subseteq writes
        /\ calls' = calls \/ (calls' = {} /\ \A c \in calls : c.obj \in torn')
    BY <1>2 DEF Reload, ReloadSender, Decide, LibraryUses, TaskOpened, Ask, Run, Answer, Learn,
                Lose, MergeChunks, vars, sender, recipient, history
  <2>2. ASSUME NEW o \in Object PROVE Aside(o)
    <3>1. Coming(o)' \subseteq Coming(o) /\ Requeued(o)' \subseteq Requeued(o)
      BY <2>1 DEF Coming, Requeued
    <3> QED BY <1>1, <2>1, <3>1 DEF Aside
  <2> QED BY <2>2, AsideKeeps DEF Carefully
<1>3. CASE \/ \E w \in writes : StepWrite(w)
           \/ \E o \in Object :
                \/ SendObject(o) \/ RetryDelivery(o) \/ GiveUp(o) \/ ResendChunks(o)
                \/ HandOff(o) \/ SweepSent(o) \/ DeleteSent(o)
  BY <1>1, <1>3, SenderAside, AsideKeeps DEF Carefully
<1> QED BY <1>2, <1>3

(* A call begins: if it is the only one, an expired object is not there to  *)
(* be opened.                                                               *)
LEMMA BeginCareful ==
  ASSUME Core, Carefully, Ongoing, NEW o \in Object, Present(o),
         NEW op, NEW stage, Begin(op, o, stage),
         op = "open" => Openable(o), op = "expire" => opt[o].expires,
         UNCHANGED <<sent, writes, retries, row, plain, objs, net, facts>>
  PROVE  Carefully'
<1> PICK c : c = [op |-> op, obj |-> o, stage |-> stage, id |-> rowId[o],
                   once |-> opt[o].once /\ o \notin plain]
  OBVIOUS
<1>1. /\ c.op = op /\ c.obj = o /\ c.stage = stage /\ calls' = calls \cup {c}
      /\ c.once = (opt[o].once /\ o \notin plain)
      /\ o \notin torn' => o \notin torn /\ \A d \in calls : d.obj # o
  BY DEF Begin, Overlap, InProgress
<1>2. Careful(o) /\ Coming(o)' = Coming(o) /\ Requeued(o)' = Requeued(o)
  BY DEF Carefully, Coming, Requeued
<1>3. Fresh(o)'
  <2>1. ASSUME retries' = 0 PROVE Once(o)'
    <3>1. Once(o) /\ Coming(o) = {}
      BY <1>2, <2>1 DEF Careful, Fresh, Once
    <3>2. opt[o].once => c.once
      BY <1>1, <3>1 DEF Once
    <3> QED BY <1>1, <1>2, <3>1, <3>2 DEF Once, Single, Ongoing
  <2> QED BY <1>1, <1>2, <2>1 DEF Careful, Fresh, Present, Ongoing
<1>4. Orderly(o)'
  <2> SUFFICES ASSUME o \notin torn' PROVE Orderly(o)'
    BY DEF Orderly
  <2>1. o \notin torn /\ (\A d \in calls : d.obj # o) /\ \A d \in calls' : d.obj = o => d = c
    BY <1>1
  <2>2. Unrepeated(o)' => Unrepeated(o)
    BY DEF Unrepeated, Ongoing
  <2>3. Unrepeated(o) => /\ row[o] = "expired" => o \notin objs
                         /\ row[o] \in {"delivered", "opened"} \/ "opened" \in facts[o]
                              => "taken" \in facts[o]
    BY <1>2, <2>1 DEF Careful, Orderly
  <2>4. retries = 0 /\ opt[o].once /\ "opened" \in facts[o] => o \notin objs
    BY <1>2, <2>1 DEF Careful, Orderly
  <2>5. Unrepeated(o) /\ op = "open" => "taken" \in facts[o]
    BY <2>3 DEF Openable
  <2> QED BY <1>1, <2>1, <2>2, <2>3, <2>4, <2>5 DEF Orderly, Ongoing
<1>5. ASSUME NEW p \in Object, p # o PROVE Careful(p)'
  <2>1. Coming(p)' \subseteq Coming(p) /\ Requeued(p)' \subseteq Requeued(p)
    BY DEF Coming, Requeued
  <2>2. Aside(p)
    BY <1>1, <1>5, <2>1 DEF Aside
  <2> QED BY <2>2, AsideKeeps DEF Carefully
<1> QED BY <1>3, <1>4, <1>5 DEF Careful, Carefully

(* A call that begins finds an object it may be made on.                    *)
LEMMA CallCareful ==
  ASSUME Core, Carefully, Ongoing, NEW o \in Object,
         \/ InboxUses(o) \/ MarkOpened(o) \/ AcceptObject(o) \/ RejectObject(o)
         \/ SweepReceived(o) \/ TaskOpens(o)
  PROVE  Carefully'
<1>1. UNCHANGED <<sent, writes, retries, row, plain, objs, net, facts>>
  BY DEF InboxUses, MarkOpened, AcceptObject, RejectObject, SweepReceived, TaskOpens,
         sender, recipient
<1>2. \/ UNCHANGED <<calls, torn>>
      \/ Openable(o) /\ Begin("open", o, "update")
      \/ row[o] = "pending" /\ Begin("accept", o, "update")
      \/ row[o] = "pending" /\ Begin("reject", o, "tell")
      \/ o \in objs /\ opt[o].expires /\ \E stage : Begin("expire", o, stage)
  BY DEF InboxUses, MarkOpened, AcceptObject, RejectObject, SweepReceived, TaskOpens
<1>3. CASE UNCHANGED <<calls, torn>>
  <2>1. \A p \in Object : Aside(p)
    BY <1>1, <1>3 DEF Aside, Coming, Requeued
  <2> QED BY <2>1, AsideKeeps DEF Carefully
<1>4. CASE Openable(o) /\ Begin("open", o, "update")
  BY <1>1, <1>4, BeginCareful DEF Present, Openable
<1>5. CASE row[o] = "pending" /\ (Begin("accept", o, "update") \/ Begin("reject", o, "tell"))
  BY <1>1, <1>5, BeginCareful DEF Present
<1>6. CASE o \in objs /\ opt[o].expires /\ \E stage : Begin("expire", o, stage)
  BY <1>1, <1>6, BeginCareful DEF Present
<1> QED BY <1>2, <1>3, <1>4, <1>5, <1>6

(* An object arrives.  If it was there before, it was sent again.           *)
LEMMA ReceiveCareful ==
  ASSUME Core, Carefully, Ongoing, NEW m \in net, Receive(m)
  PROVE  Carefully'
<1> PICK o : o = m.obj
  OBVIOUS
<1>1. /\ UNCHANGED <<sent, writes, retries, calls>> /\ m.to = "recipient"
      /\ net' = (net \ {m}) \cup Acked(m) /\ objs' = objs \cup {o}
      /\ row' = [row EXCEPT ![o] =
                   IF @ # "none" THEN @ ELSE IF Confirms(m) THEN "pending" ELSE "delivered"]
      /\ plain' = IF m.type = "hand-off" /\ row[o] = "none" THEN plain \cup {o} ELSE plain
      /\ facts' = IF Confirms(m) THEN facts
                  ELSE [facts EXCEPT ![o] = @ \cup {IF row[o] = "pending" THEN "handed" ELSE "taken"}]
      /\ o \notin torn' => o \notin torn /\ \A d \in calls : d.obj # o
  BY DEF Receive, sender, Overlap, InProgress
<1>2. o \in Object /\ Careful(o) /\ sent[o] # "new" /\ m \in Coming(o)
  BY <1>1 DEF Carefully, Core, Truthful, Good, Started, Coming
<1>3. /\ \A p : Coming(p)' = Coming(p) \ {m}
      /\ \A p : Requeued(p)' = Requeued(p)
  BY <1>1 DEF Acked, Receipt, Coming, Requeued
<1>4. /\ row'[o] = IF row[o] # "none" THEN row[o]
                   ELSE IF Confirms(m) THEN "pending" ELSE "delivered"
      /\ facts'[o] = IF Confirms(m) THEN facts[o]
                     ELSE facts[o] \cup {IF row[o] = "pending" THEN "handed" ELSE "taken"}
  BY <1>1, <1>2 DEF Core, Typed
<1>5. retries = 0 => /\ Once(o) /\ Coming(o) = {m} /\ m.type = "create"
                     /\ row[o] = "none" /\ facts[o] = {} /\ \A d \in calls : d.obj # o
  BY <1>2 DEF Careful, Fresh, Once, Single, Present
<1>6. Fresh(o)'
  <2>1. row'[o] = "expired" => opt'[o].expires
    BY <1>2, <1>4 DEF Careful, Fresh, Ongoing
  <2>2. ASSUME retries' = 0 PROVE Once(o)'
    <3>1. Coming(o)' = {} /\ plain' = plain /\ Requeued(o)' = {}
      BY <1>1, <1>3, <1>5, <2>2 DEF Once
    <3> QED BY <1>1, <1>5, <2>2, <3>1 DEF Once, Single
  <2> QED BY <1>1, <1>2, <2>1, <2>2 DEF Careful, Fresh, Ongoing
<1>7. Orderly(o)'
  <2> SUFFICES ASSUME o \notin torn' PROVE Orderly(o)'
    BY DEF Orderly
  <2>1. o \notin torn /\ (\A d \in calls : d.obj # o) /\ calls' = calls
    BY <1>1
  <2>2. Unrepeated(o)' => Unrepeated(o) /\ (retries = 0 \/ ~opt[o].expires)
    BY <1>1 DEF Unrepeated, Ongoing
  <2>3. Unrepeated(o) => /\ row[o] \in {"delivered", "opened"} \/ "opened" \in facts[o]
                              => "taken" \in facts[o]
    BY <1>2, <2>1 DEF Careful, Orderly
  <2>4. Unrepeated(o) => row[o] # "expired" /\ row'[o] # "expired"
    BY <1>2, <1>4, <1>5 DEF Careful, Fresh, Unrepeated
  <2>5. Unrepeated(o) => (row'[o] \in {"delivered", "opened"} \/ "opened" \in facts'[o]
                            => "taken" \in facts'[o])
    BY <1>4, <2>3
  <2>6. retries = 0 => "opened" \notin facts'[o]
    BY <1>4, <1>5
  <2> QED BY <1>1, <2>1, <2>2, <2>4, <2>5, <2>6 DEF Orderly
<1>8. ASSUME NEW p \in Object, p # o PROVE Careful(p)'
  <2>1. row'[p] = row[p] /\ facts'[p] = facts[p] /\ (p \in objs' <=> p \in objs)
        /\ (p \in plain' => p \in plain)
    BY <1>1, <1>8 DEF Core, Typed
  <2>2. Aside(p)
    BY <1>1, <1>3, <1>8, <2>1 DEF Aside
  <2> QED BY <2>2, AsideKeeps DEF Carefully
<1> QED BY <1>6, <1>7, <1>8 DEF Careful, Carefully

(* A step of a call, for the other objects.                                 *)
LEMMA StepElsewhere ==
  ASSUME Core, Carefully, Ongoing, NEW c \in calls,
         StepUpdate(c) \/ StepTell(c) \/ StepDelete(c),
         NEW o \in Object, o # c.obj
  PROVE  Careful(o)'
<1>1. Sound(c) /\ c.obj \in Object
  BY DEF Core, CallType, Sound, Started
<1>2. /\ UNCHANGED <<sent, writes, retries>>
      /\ net' \subseteq net \cup {Receipt(News(c.op), c.obj, <<c.op, c.id>>)}
  BY DEF StepUpdate, StepTell, StepDelete, sender
<1>3. /\ row'[o] = row[o] /\ facts'[o] = facts[o] /\ (o \in objs' <=> o \in objs)
      /\ (o \in plain' => o \in plain)
  BY <1>1 DEF StepUpdate, StepTell, StepDelete, Update, Did, DeleteLocal, Core, Typed
<1>4. Coming(o)' \subseteq Coming(o) /\ Requeued(o)' = Requeued(o)
  BY <1>2 DEF Coming, Requeued, Receipt
<1>5. calls' \subseteq (calls \ {c}) \cup {[c EXCEPT !.stage = s] : s \in {"tell", "delete"}}
      /\ calls \ {c} \subseteq calls'
  BY DEF StepUpdate, StepTell, StepDelete, Go, AfterTelling
<1>6. \A s \in {"tell", "delete"} : [c EXCEPT !.stage = s].obj = c.obj
  BY <1>1 DEF Sound
<1>7. \A d \in calls \cup calls' : d.obj = o => d \in calls /\ d \in calls'
  BY <1>5, <1>6
<1>8. Aside(o)
  BY <1>2, <1>3, <1>4, <1>7 DEF Aside
<1> QED BY <1>8, AsideKeeps DEF Carefully

(* And for its own.                                                         *)
LEMMA StepCareful ==
  ASSUME Core, Carefully, Ongoing, NEW c \in calls,
         StepUpdate(c) \/ StepTell(c) \/ StepDelete(c)
  PROVE  Carefully'
<1> PICK o : o = c.obj
  OBVIOUS
<1>1. Sound(c) /\ o \in Object /\ Careful(o)
  BY DEF Core, CallType, Sound, Started, Carefully
<1>2. /\ UNCHANGED <<sent, writes, retries, torn, opt>> /\ plain' \subseteq plain
      /\ net' \subseteq net \cup {Receipt(News(c.op), c.obj, <<c.op, c.id>>)}
  BY DEF StepUpdate, StepTell, StepDelete, DeleteLocal, sender, params
<1>3. /\ Present(o) /\ sent[o] # "new"
      /\ retries = 0 => Once(o) /\ Coming(o) = {} /\ (opt[o].once => c.once)
      /\ (c.op = "expire" => opt[o].expires) /\ (row[o] = "expired" => opt[o].expires)
  BY <1>1 DEF Careful, Fresh, Present, Once
<1>4. ASSUME retries' = 0, \A d \in calls' : d \in calls \/ d.obj # o \/ d.once = c.once
       PROVE  Once(o)'
  <2>1. Coming(o)' \subseteq Coming(o) /\ Requeued(o)' = Requeued(o)
    BY <1>2 DEF Coming, Requeued, Receipt
  <2> QED BY <1>2, <1>3, <1>4, <2>1 DEF Once, Single
<1>5. Unrepeated(o)' <=> Unrepeated(o)
  BY <1>2 DEF Unrepeated
<1>6. ASSUME o \notin torn
      PROVE  /\ \A d \in calls : d.obj = o => d = c
             /\ Unrepeated(o) =>
                  /\ \/ row[o] \in {"delivered", "opened"} \/ "opened" \in facts[o] \/ c.op = "open"
                     => "taken" \in facts[o]
                  /\ row[o] = "expired" => o \notin objs \/ c.op = "expire"
             /\ retries = 0 /\ opt[o].once /\ "opened" \in facts[o] =>
                  o \notin objs \/ (c.op = "open" /\ c.stage \in {"tell", "delete"})
  BY <1>1, <1>6 DEF Careful, Orderly
<1>7. ASSUME NEW d, d.obj = o, d.op = c.op /\ d.once = c.once, calls' = (calls \ {c}) \cup {d},
             row'[o] = "expired" => row[o] = "expired" \/ c.op = "expire",
             o \in objs' => o \in objs,
             Unrepeated(o) /\ o \notin torn =>
               (row'[o] \in {"delivered", "opened"} \/ "opened" \in facts'[o] \/ c.op = "open"
                  => "taken" \in facts'[o]),
             retries = 0 /\ opt[o].once /\ "opened" \in facts'[o] /\ o \notin torn =>
               o \notin objs' \/ (c.op = "open" /\ d.stage \in {"tell", "delete"})
      PROVE  Careful(o)'
  <2>1. Fresh(o)'
    BY <1>1, <1>2, <1>3, <1>4, <1>7 DEF Careful, Fresh
  <2>2. o \notin torn => \A e \in calls' : e.obj = o => e = d
    BY <1>6, <1>7
  <2>3. d \in calls'
    BY <1>7
  <2>4. Unrepeated(o) /\ o \notin torn => (row'[o] = "expired" => o \notin objs' \/ c.op = "expire")
    BY <1>6, <1>7
  <2>5. Orderly(o)'
    BY <1>2, <1>5, <1>7, <2>2, <2>3, <2>4 DEF Orderly
  <2> QED BY <2>1, <2>5 DEF Careful
<1>8. ASSUME calls' = calls \ {c}, row'[o] = "none" \/ row'[o] = row[o],
             o \notin objs' \/ (row'[o] = row[o] /\ c.op # "expire" /\ objs' = objs),
             o \in objs' /\ c.op = "open" /\ retries = 0 => ~opt[o].once,
             facts'[o] = facts[o] \/ facts'[o] = facts[o] \cup {"declined"}
      PROVE  Careful(o)'
  <2>1. Fresh(o)'
    BY <1>1, <1>2, <1>3, <1>4, <1>8 DEF Careful, Fresh
  <2>2. o \notin torn => \A e \in calls' : e.obj # o
    BY <1>6, <1>8
  <2>3. ASSUME o \notin torn
        PROVE  /\ Unrepeated(o) =>
                    /\ row'[o] \in {"delivered", "opened"} \/ "opened" \in facts'[o]
                         => "taken" \in facts'[o]
                    /\ row'[o] = "expired" => o \notin objs'
               /\ retries = 0 /\ opt[o].once /\ "opened" \in facts'[o] => o \notin objs'
    BY <1>6, <1>8, <2>3
  <2>4. Orderly(o)'
    <3> SUFFICES ASSUME o \notin torn PROVE Orderly(o)'
      BY <1>2 DEF Orderly
    <3> QED BY <1>2, <1>5, <2>2, <2>3 DEF Orderly
  <2> QED BY <2>1, <2>4 DEF Careful
<1> SUFFICES Careful(o)'
  BY StepElsewhere DEF Carefully
<1>9. CASE StepUpdate(c)
  <2>1. objs' = objs /\ c.stage = "update"
    BY <1>9 DEF StepUpdate
  <2>2. ASSUME NEW stage \in {"tell", "delete"}, Go(c, stage)
        PROVE  \E d : d.obj = o /\ d.op = c.op /\ d.once = c.once /\ d.stage = stage /\ calls' = (calls \ {c}) \cup {d}
    <3> PICK d : d = [c EXCEPT !.stage = stage]
      OBVIOUS
    <3>1. d.obj = o /\ d.op = c.op /\ d.once = c.once /\ d.stage = stage /\ calls' = (calls \ {c}) \cup {d}
      BY <1>1, <2>2, NextStage DEF Go, Sound
    <3> QED BY <3>1
  <2>3. CASE c.op = "open"
    <3>1. PICK d : d.obj = o /\ d.op = c.op /\ d.once = c.once /\ d.stage = "tell" /\ calls' = (calls \ {c}) \cup {d}
      BY <1>9, <2>2, <2>3 DEF StepUpdate
    <3>2. row'[o] = row[o] \/ row'[o] = "opened"
      BY <1>1, <1>9, <2>3 DEF StepUpdate, Update, Core, Typed
    <3>3. facts'[o] = facts[o] \cup {"opened"}
      BY <1>1, <1>9, <2>3 DEF StepUpdate, Did, Core, Typed
    <3>4. Unrepeated(o) /\ o \notin torn => "taken" \in facts'[o]
      BY <1>6, <2>3, <3>3
    <3> QED BY <1>7, <2>1, <2>3, <3>1, <3>2, <3>4
  <2>4. CASE c.op = "accept"
    <3>1. PICK d : d.obj = o /\ d.op = c.op /\ d.once = c.once /\ d.stage = "tell" /\ calls' = (calls \ {c}) \cup {d}
      BY <1>9, <2>2, <2>4 DEF StepUpdate
    <3>2. row'[o] = row[o] \/ row'[o] = "delivered"
      BY <1>1, <1>9, <2>4 DEF StepUpdate, Update, Core, Typed
    <3>3. facts'[o] = facts[o] \cup {"taken"}
      BY <1>1, <1>9, <2>4 DEF StepUpdate, Did, Core, Typed
    <3>4. retries = 0 /\ opt[o].once /\ "opened" \in facts'[o] /\ o \notin torn => o \notin objs'
      BY <1>6, <2>1, <2>4, <3>3
    <3>5. row'[o] = "expired" => row[o] = "expired"
      BY <3>2
    <3>6. "taken" \in facts'[o]
      BY <3>3
    <3> QED BY <1>7, <2>1, <3>1, <3>4, <3>5, <3>6
  <2>5. CASE c.op = "expire"
    <3>1. PICK d : d.obj = o /\ d.op = c.op /\ d.once = c.once /\ d.stage = "delete" /\ calls' = (calls \ {c}) \cup {d}
      BY <1>9, <2>2, <2>5 DEF StepUpdate
    <3>2. row'[o] = row[o] \/ row'[o] = "expired"
      BY <1>1, <1>9, <2>5 DEF StepUpdate, Update, Core, Typed
    <3>3. facts'[o] = facts[o]
      BY <1>9, <2>5 DEF StepUpdate
    <3>4. retries = 0 /\ opt[o].once /\ "opened" \in facts'[o] /\ o \notin torn => o \notin objs'
      BY <1>6, <2>1, <2>5, <3>3
    <3>5. Unrepeated(o) /\ o \notin torn =>
            (row'[o] \in {"delivered", "opened"} \/ "opened" \in facts'[o] \/ c.op = "open"
               => "taken" \in facts'[o])
      BY <1>6, <2>5, <3>2, <3>3
    <3> QED BY <1>7, <2>1, <2>5, <3>1, <3>4, <3>5
  <2> QED BY <1>9, <2>3, <2>4, <2>5 DEF StepUpdate
<1>10. CASE StepTell(c)
  <2>1. row' = row /\ objs' = objs /\ c.stage = "tell" /\ Go(c, AfterTelling(c))
    BY <1>10 DEF StepTell
  <2>2. facts'[o] = facts[o] \/ facts'[o] = facts[o] \cup {"declined"}
    BY <1>1, <1>10 DEF StepTell, Core, Typed
  <2>3. c.op \in {"open", "accept", "reject"}
    BY <1>1, <2>1 DEF Sound
  <2>4. CASE AfterTelling(c) = "delete"
    <3> PICK d : d = [c EXCEPT !.stage = "delete"]
      OBVIOUS
    <3>1. d.obj = o /\ d.op = c.op /\ d.once = c.once /\ d.stage = "delete" /\ calls' = (calls \ {c}) \cup {d}
      BY <1>1, <2>1, <2>4, NextStage DEF Go, Sound
    <3>2. row'[o] = row[o] /\ (o \in objs' <=> o \in objs)
          /\ ("opened" \in facts'[o] <=> "opened" \in facts[o])
          /\ ("taken" \in facts'[o] <=> "taken" \in facts[o])
      BY <2>1, <2>2
    <3>3. Unrepeated(o) /\ o \notin torn =>
            (row'[o] \in {"delivered", "opened"} \/ "opened" \in facts'[o] \/ c.op = "open"
               => "taken" \in facts'[o])
      BY <1>6, <3>2
    <3>4. retries = 0 /\ opt[o].once /\ "opened" \in facts'[o] /\ o \notin torn =>
            o \notin objs' \/ (c.op = "open" /\ d.stage \in {"tell", "delete"})
      BY <1>6, <3>1, <3>2
    <3> QED BY <1>7, <3>1, <3>2, <3>3, <3>4
  <2>5. CASE AfterTelling(c) = "end"
    <3>1. calls' = calls \ {c} /\ (c.op = "open" /\ retries = 0 => ~opt[o].once)
      BY <1>3, <2>1, <2>5 DEF Go, AfterTelling
    <3> QED BY <1>8, <2>1, <2>2, <2>3, <3>1
  <2> QED BY <2>4, <2>5 DEF AfterTelling
<1>11. CASE StepDelete(c)
  <2>1. calls' = calls \ {c} /\ facts' = facts
    BY <1>11 DEF StepDelete, Go
  <2>2. o \notin objs'
    BY <1>11 DEF StepDelete, DeleteLocal
  <2>3. row'[o] = row[o] \/ row'[o] = "none"
    BY <1>1, <1>11 DEF StepDelete, DeleteLocal, Core, Typed
  <2> QED BY <1>8, <2>1, <2>2, <2>3
<1> QED BY <1>9, <1>10, <1>11

(* The user deletes what was received.                                      *)
LEMMA DeleteCareful ==
  ASSUME Core, Carefully, Ongoing, NEW o \in Object, DeleteReceived(o)
  PROVE  Carefully'
<1>1. /\ UNCHANGED <<sent, writes, retries, calls, net, facts>> /\ plain' \subseteq plain
      /\ objs' = objs \ {o} /\ row' = [row EXCEPT ![o] = "none"] /\ o \in objs
  BY DEF DeleteReceived, DeleteLocal, sender
<1>2. /\ Careful(o) /\ Present(o) /\ row'[o] = "none"
      /\ \A p : Coming(p)' = Coming(p) /\ Requeued(p)' = Requeued(p)
  BY <1>1 DEF Carefully, Present, Coming, Requeued, Core, Typed
<1>3. Careful(o)'
  <2>1. Fresh(o)'
    <3>1. ASSUME retries' = 0 PROVE Once(o)'
      <4>1. Once(o) /\ Coming(o) = {}
        BY <1>2, <3>1 DEF Careful, Fresh, Once, Ongoing
      <4> QED BY <1>1, <1>2, <4>1 DEF Once, Single, Ongoing
    <3> QED BY <1>1, <1>2, <3>1 DEF Careful, Fresh, Ongoing
  <2>2. Unrepeated(o)' => Unrepeated(o)
    BY DEF Unrepeated, Ongoing
  <2>3. Orderly(o)'
    <3> SUFFICES ASSUME o \notin torn' PROVE Orderly(o)'
      BY DEF Orderly
    <3>1. o \notin torn
      BY DEF Ongoing
    <3> QED BY <1>1, <1>2, <2>2, <3>1 DEF Careful, Orderly
  <2> QED BY <2>1, <2>3 DEF Careful
<1>4. ASSUME NEW p \in Object, p # o PROVE Careful(p)'
  <2>1. row'[p] = row[p] /\ (p \in objs' <=> p \in objs)
    BY <1>1, <1>4 DEF Core, Typed
  <2>2. Aside(p)
    BY <1>1, <1>2, <2>1 DEF Aside
  <2> QED BY <2>2, AsideKeeps DEF Carefully
<1> QED BY <1>3, <1>4 DEF Carefully

(* The invariant holds.                                                     *)
THEOREM CarefulAlways == Spec => [](Carefully /\ retries \in Nat)
<1>1. Init => Carefully /\ retries \in Nat
  <2> SUFFICES ASSUME Init PROVE Carefully /\ retries \in Nat
    OBVIOUS
  <2>1. /\ objs = {} /\ calls = {} /\ net = {} /\ writes = {} /\ plain = {}
        /\ \A o \in Object : row[o] = "none" /\ facts[o] = {}
    BY DEF Init
  <2>2. retries = 0 /\ \A o \in Object : Once(o)
    BY <2>1 DEF Init, Once, Single, Coming, Requeued
  <2> QED BY <2>1, <2>2 DEF Carefully, Careful, Fresh, Orderly, Present
<1>2. Core /\ Carefully /\ retries \in Nat /\ [Next]_vars => (Carefully /\ retries \in Nat)'
  <2> SUFFICES ASSUME Core, Carefully, retries \in Nat, [Next]_vars
               PROVE  Carefully' /\ retries' \in Nat
    OBVIOUS
  <2>1. Ongoing /\ retries' \in Nat
    BY StepsAreOngoing
  <2>2. Core'
    BY StepSimulates
  <2> QED BY <2>1, <2>2, AwayKeeps, CallCareful, ReceiveCareful, StepCareful, DeleteCareful DEF Next
<1> QED BY <1>1, <1>2, CoreAlways, PTL DEF Spec

(* A payload that requires confirmation is opened only after it was         *)
(* accepted.                                                                *)
THEOREM OpenedOnlyIfAccepted == Spec => []OpenedWasAccepted
<1>1. Carefully => OpenedWasAccepted
  BY DEF Carefully, Careful, Orderly, Unrepeated, OpenedWasAccepted
<1> QED BY <1>1, CarefulAlways, PTL

(* What is to be deleted after opening is gone once the call that opened it *)
(* has ended.                                                               *)
THEOREM BurntOnceRead == Spec => []BurntAfterReading
<1>1. Carefully => BurntAfterReading
  BY DEF Carefully, Careful, Orderly, BurntAfterReading, Settled, InProgress
<1> QED BY <1>1, CarefulAlways, PTL
=============================================================================
