-------------------------------- MODULE Carry --------------------------------
(***************************************************************************)
(* Store-carry-forward of one bundle (packages/sync/src/engine.ts): the    *)
(* source that cannot send it keeps it in its outbox, hands copies to      *)
(* carriers, and sends it itself on the next connection; a carrier         *)
(* forwards its copy when it believes the destination is online.           *)
(*                                                                         *)
(* Every database access and every sending is awaited: the source's        *)
(* drains and sweeps, which each work on what they read first, interleave. *)
(* A sending counts as done once the socket has taken it: what is on its   *)
(* way is lost with a dying socket or at the relay's full queue, and       *)
(* nobody hears of it.                                                     *)
(***************************************************************************)
EXTENDS Integers, FiniteSets

CONSTANTS
  Src, Dst, Carrier,   (* the devices                                       *)
  HopLimit,            (* hopLimit the bundle starts with                   *)
  Run,                 (* identities of concurrent drains and sweeps        *)
  MaxDrops,            (* bound: connections lost                           *)
  MaxCopies,           (* bound: copies of one holder on their way at once  *)
  MaxQueued,           (* bound: offers waiting in the outbox at once       *)
  MaxLost              (* bound: holders and carriers that lose something   *)

ASSUME BoundsAreNat == {HopLimit, MaxDrops, MaxCopies, MaxQueued, MaxLost} \subseteq Nat
ASSUME RunsAreNumbered == Run \subseteq Nat
ASSUME DevicesDiffer == Src # Dst /\ {Src, Dst} \cap Carrier = {}

Device == {Src, Dst} \cup Carrier
Holder == {Src} \cup Carrier

VARIABLES
  online,   \* the devices connected to the relay
  listed,   \* whom each holder's table of devices shows as online
  adding,   \* sendOps has found no route and has yet to store the bundle
  outbox,   \* the source's row of the bundle, or NoRow
  queued,   \* per carrier, CARRY_BUNDLE envelopes in the source's outbox
  drains,   \* drainOutbox calls of the source
  sweeps,   \* offerCarrying calls of the source
  offers,   \* carriers that a CARRY_BUNDLE envelope is on its way to
  carried,  \* carriers that hold the bundle
  forwards, \* attemptCarriedDelivery calls: [carrier, run, stage]
  copies,   \* per holder, its copies on their way to the destination
  seen,     \* the destination's seen table has the bundle
  expired,  \* expiresAt has passed
  applied,  \* history: how often the destination applied it
  handed,   \* history: carriers given a copy by an offer that went out live
  had,      \* history: holders that have stored the bundle
  lost,     \* history: holders that had a copy lost on its way
  missed,   \* history: carriers that had an offer lost on its way
  drops

source  == <<adding, outbox, queued, drains, sweeps>>
network == <<online, listed, offers, copies>>
history == <<applied, handed, had, lost, missed>>
vars    == <<source, network, carried, forwards, seen, expired, history, drops>>

NoRow == [hop |-> -1, offeredTo |-> {}]
InOutbox == outbox # NoRow

Init ==
  /\ online = Carrier /\ listed = [d \in Holder |-> IF d = Src THEN Carrier ELSE {}]
  /\ adding = TRUE /\ outbox = NoRow
  /\ queued = [c \in Carrier |-> 0]
  /\ drains = {} /\ sweeps = {} /\ offers = {}
  /\ carried = {} /\ forwards = {}
  /\ copies = [h \in Holder |-> 0] /\ seen = FALSE /\ expired = FALSE
  /\ applied = 0 /\ handed = {} /\ had = {} /\ lost = {} /\ missed = {}
  /\ drops = 0

----------------------------------------------------------------------------
(* Connections                                                              *)

FreeRuns(calls) == Run \ {c.run : c \in calls}
NextRun(calls) == CHOOSE r \in FreeRuns(calls) : \A q \in FreeRuns(calls) : r <= q

(* status "connected": drainOutbox, with what the outbox holds now.         *)
Drains ==
  IF FreeRuns(drains) = {} THEN UNCHANGED drains
  ELSE drains' = drains \cup
         {[run |-> NextRun(drains), stage |-> IF InOutbox /\ ~expired THEN "send" ELSE "end"]}

(* The devices whose status a holder ever asks for.                         *)
Watched(d) == IF d = Src THEN Carrier ELSE {Dst}

(* The relay tells every connected device; the others keep their table.     *)
Rosters ==
  listed' = [d \in Holder |-> IF d \in online' THEN online' \cap Watched(d) ELSE listed[d]]

Connect(d) ==
  /\ d \notin online /\ online' = online \cup {d}
  /\ Rosters
  /\ IF d = Src
     THEN /\ Drains
          /\ IF expired THEN outbox' = NoRow /\ queued' = [c \in Carrier |-> 0]
                        ELSE UNCHANGED <<outbox, queued>>
     ELSE UNCHANGED <<drains, outbox, queued>>
  /\ UNCHANGED <<offers, copies, adding, sweeps, carried, forwards, seen, expired, history,
                 drops>>

Disconnect(d) ==
  /\ d \in online /\ online' = online \ {d}
  /\ drops < MaxDrops /\ drops' = drops + 1
  /\ Rosters
  /\ UNCHANGED <<source, offers, copies, carried, forwards, seen, expired, history>>

----------------------------------------------------------------------------
(* The source                                                               *)

Store ==
  /\ adding /\ adding' = FALSE
  /\ outbox' = [hop |-> HopLimit, offeredTo |-> {}] /\ had' = had \cup {Src}
  /\ UNCHANGED <<queued, drains, sweeps, network, carried, forwards, seen, expired,
                 applied, handed, lost, missed, drops>>

AlwaysDeletes(live) == TRUE     \* mutant: the row goes whatever came of the sending
DeletesRow(live) == live

DrainDeliver(d) ==
  /\ d.stage = "send" /\ copies[Src] < MaxCopies
  /\ drains' = (drains \ {d}) \cup
       IF DeletesRow(Src \in online) THEN {[d EXCEPT !.stage = "delete"]} ELSE {}
  /\ copies' = IF Src \in online THEN [copies EXCEPT ![Src] = @ + 1] ELSE copies
  /\ UNCHANGED <<adding, outbox, queued, sweeps, online, listed, offers, carried, forwards,
                 seen, expired, history, drops>>

DrainDelete(d) ==
  /\ d.stage = "delete"
  /\ drains' = drains \ {d} /\ outbox' = NoRow
  /\ UNCHANGED <<adding, queued, sweeps, network, carried, forwards, seen, expired,
                 history, drops>>

(* The offers queued earlier go the same way, before the bundle or after.   *)
DrainOffer(d, c) ==
  /\ d \in drains /\ Src \in online
  /\ queued[c] > 0 /\ queued' = [queued EXCEPT ![c] = @ - 1]
  /\ offers' = offers \cup {c}
  /\ UNCHANGED <<adding, outbox, drains, sweeps, online, listed, copies, carried, forwards,
                 seen, expired, history, drops>>

DrainEnd(d) ==
  /\ d.stage = "end"
  /\ drains' = drains \ {d}
  /\ UNCHANGED <<adding, outbox, queued, sweeps, network, carried, forwards, seen, expired,
                 history, drops>>

Unguarded(calls) == TRUE                  \* mutant: sweeps overlap
NotSweeping(calls) == calls = {}

(* offerCarrying: the first peer listed online that was not offered it yet. *)
Offer(c) ==
  /\ NotSweeping(sweeps) /\ FreeRuns(sweeps) # {}
  /\ InOutbox /\ outbox.hop > 0
  /\ c \in listed[Src] \ outbox.offeredTo
  /\ sweeps' = sweeps \cup {[run |-> NextRun(sweeps), stage |-> "send", carrier |-> c, row |-> outbox]}
  /\ UNCHANGED <<adding, outbox, queued, drains, network, carried, forwards, seen, expired,
                 history, drops>>

Waiting == {w \in Carrier \X (1 .. MaxQueued) : w[2] <= queued[w[1]]}

(* sendOps to the carrier: with no route, the offer itself is stored.       *)
OfferSend(s) ==
  /\ s.stage = "send"
  /\ IF Src \in online
     THEN /\ offers' = offers \cup {s.carrier} /\ handed' = handed \cup {s.carrier}
          /\ sweeps' = (sweeps \ {s}) \cup {[s EXCEPT !.stage = "update"]}
          /\ UNCHANGED queued
     ELSE /\ Cardinality(Waiting) < MaxQueued
          /\ queued' = [queued EXCEPT ![s.carrier] = @ + 1]
          /\ sweeps' = sweeps \ {s}
          /\ UNCHANGED <<offers, handed>>
  /\ UNCHANGED <<adding, outbox, drains, online, listed, copies, carried, forwards, seen,
                 expired, applied, had, lost, missed, drops>>

SameHops(s) == [hop |-> s.row.hop, offeredTo |-> s.row.offeredTo \cup {s.carrier}]  \* mutant
OneHopLess(s) == [hop |-> s.row.hop - 1, offeredTo |-> s.row.offeredTo \cup {s.carrier}]

OfferUpdate(s) ==
  /\ s.stage = "update"
  /\ sweeps' = sweeps \ {s}
  /\ outbox' = IF InOutbox THEN OneHopLess(s) ELSE outbox
  /\ UNCHANGED <<adding, queued, drains, network, carried, forwards, seen, expired,
                 history, drops>>

----------------------------------------------------------------------------
(* The carriers                                                             *)

WithHopsLeft == ~expired /\ outbox.hop > 0   \* mutant: the last hop is refused
Acceptable == ~expired

Take(c) ==
  /\ c \in offers /\ c \in online /\ offers' = offers \ {c}
  /\ IF Acceptable
     THEN carried' = carried \cup {c} /\ had' = had \cup {c}
     ELSE UNCHANGED <<carried, had>>
  /\ UNCHANGED <<source, online, listed, copies, forwards, seen, expired, applied, handed,
                 lost, missed, drops>>

ForwardsOf(c) == {f \in forwards : f.carrier = c}

(* attemptCarriedDelivery, under the same guard.                            *)
Attempt(c) ==
  /\ NotSweeping(ForwardsOf(c)) /\ FreeRuns(ForwardsOf(c)) # {}
  /\ c \in carried /\ ~expired /\ Dst \in listed[c]
  /\ forwards' = forwards \cup {[carrier |-> c, run |-> NextRun(ForwardsOf(c)), stage |-> "send"]}
  /\ UNCHANGED <<source, network, carried, seen, expired, history, drops>>

Forward(f) ==
  /\ f.stage = "send" /\ copies[f.carrier] < MaxCopies
  /\ forwards' = (forwards \ {f}) \cup
       IF DeletesRow(f.carrier \in online) THEN {[f EXCEPT !.stage = "delete"]} ELSE {}
  /\ copies' = IF f.carrier \in online THEN [copies EXCEPT ![f.carrier] = @ + 1] ELSE copies
  /\ UNCHANGED <<source, online, listed, offers, carried, seen, expired, history, drops>>

Forwarded(f) ==
  /\ f.stage = "delete"
  /\ forwards' = forwards \ {f} /\ carried' = carried \ {f.carrier}
  /\ UNCHANGED <<source, network, seen, expired, history, drops>>

Drop(c) ==
  /\ expired /\ c \in carried /\ carried' = carried \ {c}
  /\ UNCHANGED <<source, network, forwards, seen, expired, history, drops>>

----------------------------------------------------------------------------
(* The relay, the network and the destination                               *)

Fresh == TRUE                             \* mutant: the seen table is not read
Unseen == ~seen

Receive(h) ==
  /\ copies[h] > 0 /\ Dst \in online /\ copies' = [copies EXCEPT ![h] = @ - 1]
  /\ applied' = applied + (IF Unseen THEN 1 ELSE 0)
  /\ seen' = TRUE
  /\ UNCHANGED <<source, online, listed, offers, carried, forwards, expired, handed, had, lost,
                 missed, drops>>

(* A copy on its way dies with a socket, or finds the relay's queue full.   *)
LoseCopy(h) ==
  /\ copies[h] > 0 /\ copies' = [copies EXCEPT ![h] = @ - 1]
  /\ lost' = lost \cup {h} /\ Cardinality(lost') + Cardinality(missed) <= MaxLost
  /\ UNCHANGED <<source, online, listed, offers, carried, forwards, seen, expired, applied,
                 handed, had, missed, drops>>

LoseOffer(c) ==
  /\ c \in offers /\ offers' = offers \ {c}
  /\ missed' = missed \cup {c} /\ Cardinality(lost) + Cardinality(missed') <= MaxLost
  /\ UNCHANGED <<source, online, listed, copies, carried, forwards, seen, expired, applied,
                 handed, had, lost, drops>>

Expire ==
  /\ ~expired /\ expired' = TRUE
  /\ UNCHANGED <<source, network, carried, forwards, seen, history, drops>>

Next ==
  \/ \E d \in Device : Connect(d) \/ Disconnect(d)
  \/ Store
  \/ \E d \in drains :
       DrainDeliver(d) \/ DrainDelete(d) \/ DrainEnd(d) \/ \E c \in Carrier : DrainOffer(d, c)
  \/ \E s \in sweeps : OfferSend(s) \/ OfferUpdate(s)
  \/ \E c \in Carrier : Offer(c) \/ Take(c) \/ Attempt(c) \/ Drop(c) \/ LoseOffer(c)
  \/ \E f \in forwards : Forward(f) \/ Forwarded(f)
  \/ \E h \in Holder : Receive(h) \/ LoseCopy(h)
  \/ Expire

Spec == Init /\ [][Next]_vars

(* Devices come back, rosters arrive and so do the envelopes that are not   *)
(* lost, timers fire, and what was begun goes on.                           *)
FairSpec ==
  /\ Spec
  /\ WF_vars(\E d \in Device : Connect(d))
  /\ WF_vars(Store)
  /\ WF_vars(\E d \in drains : DrainDeliver(d) \/ DrainDelete(d) \/ DrainEnd(d))
  /\ SF_vars(\E c \in Carrier : Offer(c))
  /\ WF_vars(\E s \in sweeps : OfferSend(s) \/ OfferUpdate(s))
  /\ WF_vars(\E c \in Carrier : Take(c))
  /\ SF_vars(\E c \in Carrier : Attempt(c))
  /\ WF_vars(\E f \in forwards : Forward(f) \/ Forwarded(f))
  /\ SF_vars(\E h \in Holder : Receive(h))

----------------------------------------------------------------------------
(* However many copies the source, its overlapping drains and the carriers  *)
(* send, the destination applies the bundle once.                           *)
AppliedOnce == applied <= 1

(* Nobody lets go of the bundle for what somebody else has sent: until it   *)
(* is applied or expires, everyone who has had it still holds it or has a   *)
(* copy of its own on the way, unless the network has lost one of that      *)
(* holder's. So the bundle vanishes only if every holder's copy was lost.   *)
Holds(h) == IF h = Src THEN InOutbox ELSE h \in carried
HeldOrLost ==
  applied = 0 /\ ~expired =>
    \A h \in had : Holds(h) \/ copies[h] > 0 \/ h \in lost

(* "Bounded by hopLimit so fan-out can't run away": of the offers that go   *)
(* out live, however sweeps, drains and rosters interleave.                 *)
FanOutBounded == Cardinality(handed) <= HopLimit

(* A bundle left in the outbox reaches its destination once everyone is     *)
(* back, if nothing is lost on its way: also when the drain read the outbox *)
(* just before the bundle was added, if there is a carrier to hand it to.   *)
Arrives == InOutbox ~> (applied = 1 \/ expired \/ lost # {} \/ missed # {})
=============================================================================
