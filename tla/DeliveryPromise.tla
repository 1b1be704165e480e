--------------------------- MODULE DeliveryPromise ---------------------------
(***************************************************************************)
(* What the status of a delivery promises its sender, whatever is lost,    *)
(* repeated or handled in another order: "delivered" is shown only for a   *)
(* payload the recipient has taken or was handed once more, "opened" only  *)
(* for one it has opened, "rejected" only for one it has declined, and a   *)
(* delivery note that arrives late never hides that it was opened.         *)
(*                                                                         *)
(* A status may go back, but only to what the sender decided on when it    *)
(* looked: it sends what is new or failed, and gives up what is sending.   *)
(***************************************************************************)
CONSTANT Object

VARIABLES
  belief,  \* the status the sender shows, per object
  decided, \* the statuses it will write, whatever it shows by then
  facts    \* what the recipient has done with it

Init ==
  /\ belief \in [Object -> {"new", "none"}] /\ decided = {}
  /\ facts = [o \in Object |-> {}]

Shows(o) == belief[o] \notin {"new", "none"}

Send(o) ==
  /\ belief[o] = "new" /\ belief' = [belief EXCEPT ![o] = "queued"]
  /\ \/ UNCHANGED decided
     \/ \E w \in decided' : w.obj = o /\ w.as = "sending" /\ decided' = decided \cup {w}
  /\ UNCHANGED facts

Decide(o) ==
  /\ \E w \in decided' :
       /\ w.obj = o /\ decided' = decided \cup {w}
       /\ \/ w.as = "queued" /\ belief[o] = "failed"
          \/ w.as = "failed" /\ belief[o] = "sending"
          \/ w.as = "expired" /\ Shows(o) /\ belief[o] # "opened"
  /\ UNCHANGED <<belief, facts>>

(* What is queued again may go out at once.                                 *)
Write(w) ==
  /\ belief' = [belief EXCEPT ![w.obj] = IF @ = "none" THEN "none" ELSE w.as]
  /\ \/ decided' = decided \ {w}
     \/ w.as = "queued" /\ \E v \in decided' : /\ v.obj = w.obj /\ v.as = "sending"
                                              /\ decided' = (decided \ {w}) \cup {v}
  /\ UNCHANGED facts

Act(o) ==
  /\ \E f \in {"taken", "handed", "opened", "declined"} : facts' = [facts EXCEPT ![o] = @ \cup {f}]
  /\ belief[o] # "new"
  /\ UNCHANGED <<belief, decided>>

Evidence(s) == CASE s = "delivered" -> {"taken", "handed"} [] s = "opened" -> {"opened"}
                 [] s = "rejected" -> {"declined"}

Learn(o) ==
  /\ Shows(o)
  /\ \E s \in {"delivered", "opened", "rejected"} :
       /\ belief[o] = "opened" => s # "delivered"
       /\ Evidence(s) \cap facts[o] # {}
       /\ belief' = [belief EXCEPT ![o] = s]
  /\ UNCHANGED <<decided, facts>>

(* The user deletes it.                                                     *)
Delete(o) ==
  /\ Shows(o) /\ belief' = [belief EXCEPT ![o] = "none"]
  /\ UNCHANGED <<decided, facts>>

(* The sender stops before it writes.                                       *)
Forget == decided' = {} /\ UNCHANGED <<belief, facts>>

Next ==
  \/ \E o \in Object : Send(o) \/ Decide(o) \/ Act(o) \/ Learn(o) \/ Delete(o)
  \/ \E w \in decided : Write(w)
  \/ Forget

Spec == Init /\ [][Next]_<<belief, decided, facts>>
=============================================================================
