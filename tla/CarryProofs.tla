----------------------------- MODULE CarryProofs -----------------------------
(***************************************************************************)
(* Proofs about store-carry-forward: a bundle is applied once, vanishes    *)
(* before that only if every holder had a copy lost, and is handed to no   *)
(* more carriers than it has hops, for any number of carriers, hops,       *)
(* concurrent calls, lost connections and lost envelopes.                  *)
(***************************************************************************)
EXTENDS Carry, FiniteSetTheorems, TLAPS

Counted ==
  /\ copies \in [Holder -> Nat] /\ applied \in Nat /\ had \subseteq Holder
  /\ seen \in BOOLEAN /\ adding \in BOOLEAN
  /\ applied = IF seen THEN 1 ELSE 0
  /\ \A f \in forwards : f.carrier \in Carrier

(* Who is about to delete its row has sent a copy of its own.               *)
Deleting(h) ==
  \/ h = Src /\ \E d \in drains : d.stage = "delete"
  \/ \E f \in forwards : f.carrier = h /\ f.stage = "delete"
Sent(h) == copies[h] > 0 \/ h \in lost \/ applied > 0
SentBefore == \A h \in Holder : Deleting(h) => Sent(h)

(* A sweep holds the row it read, and nobody else writes it.                *)
RowType ==
  /\ outbox = NoRow \/ outbox.hop \in Nat
  /\ adding => outbox = NoRow /\ sweeps = {} /\ handed = {}
SweepType ==
  \A s \in sweeps :
    /\ s = [run |-> s.run, stage |-> s.stage, carrier |-> s.carrier, row |-> s.row]
    /\ s.stage \in {"send", "update"} /\ s.row.hop \in Nat \ {0}
Exclusive ==
  /\ \A s, t \in sweeps : s = t
  /\ InOutbox => \A s \in sweeps : outbox = s.row

(* The hops that are left were not given to anyone.                         *)
Budget ==
  /\ IsFiniteSet(handed)
  /\ InOutbox /\ sweeps = {} => Cardinality(handed) + outbox.hop <= HopLimit
  /\ \A s \in sweeps :
       Cardinality(handed) + s.row.hop <= HopLimit + (IF s.stage = "send" THEN 0 ELSE 1)

(* The inductive invariant.                                                 *)
Holding == Counted /\ SentBefore /\ RowType /\ HeldOrLost
Sharing == RowType /\ SweepType /\ Exclusive /\ Budget /\ FanOutBounded
Core == Holding /\ Sharing

-----------------------------------------------------------------------------
(* A row has hops, or is none.                                              *)
LEMMA StoredRow ==
  ASSUME NEW h \in Nat, NEW o
  PROVE  [hop |-> h, offeredTo |-> o] # NoRow
<1>1. [hop |-> h, offeredTo |-> o].hop # NoRow.hop
  BY DEF NoRow
<1> QED BY <1>1

(* Nothing is stored, carried or under way at first.                        *)
LEMMA InitCore == Init => Core
<1> SUFFICES ASSUME Init PROVE Core
  OBVIOUS
<1>1. Holding
  BY DEF Init, Holding, Counted, SentBefore, Deleting, Sent, RowType, HeldOrLost
<1>2. Sharing
  <2>1. IsFiniteSet(handed) /\ Cardinality(handed) = 0 /\ HopLimit \in Nat
    BY FS_EmptySet, BoundsAreNat DEF Init
  <2> QED BY <2>1 DEF Init, Sharing, RowType, SweepType, Exclusive, Budget, InOutbox,
                      FanOutBounded
<1> QED BY <1>1, <1>2 DEF Core

-----------------------------------------------------------------------------
(* The bundle is held                                                       *)

(* The steps that leave every copy sent on its way, or count it as lost.    *)
LEMMA NothingForgotten ==
  ASSUME Holding, UNCHANGED <<applied, seen>>, copies' \in [Holder -> Nat],
         had' \subseteq Holder, expired => expired', RowType', adding' \in BOOLEAN,
         \A f \in forwards' : f.carrier \in Carrier,
         \A h \in Holder : Sent(h) => Sent(h)',
         \A h \in Holder : Deleting(h)' => Deleting(h) \/ Sent(h)',
         \A h \in had' : h \in had \/ Holds(h)',
         \A h \in Holder : Holds(h) => Holds(h)' \/ Sent(h)' \/ expired'
  PROVE  Holding'
<1>1. Counted' /\ SentBefore'
  BY DEF Holding, Counted, SentBefore
<1>2. HeldOrLost'
  <2> SUFFICES ASSUME applied' = 0, ~expired', NEW h \in had'
               PROVE  Holds(h)' \/ copies'[h] > 0 \/ h \in lost'
    BY DEF HeldOrLost
  <2>1. h \in Holder /\ applied = 0 /\ ~expired
    OBVIOUS
  <2>2. (h \in had => Holds(h) \/ Sent(h)) /\ (Sent(h)' => copies'[h] > 0 \/ h \in lost')
    BY <2>1 DEF Holding, HeldOrLost, Sent
  <2> QED BY <2>1, <2>2
<1> QED BY <1>1, <1>2 DEF Holding

(* Sending adds a copy of the sender's own and takes nobody else's.         *)
LEMMA CopyAdded ==
  ASSUME Counted, NEW k \in Holder, UNCHANGED <<applied, lost>>,
         NEW live \in BOOLEAN,
         copies' = IF live THEN [copies EXCEPT ![k] = @ + 1] ELSE copies
  PROVE  /\ copies' \in [Holder -> Nat]
         /\ \A h \in Holder : Sent(h) => Sent(h)'
         /\ live => Sent(k)'
<1>1. copies \in [Holder -> Nat]
  BY DEF Counted
<1> QED BY <1>1 DEF Sent

(* A copy that is lost is remembered as lost.                               *)
LEMMA CopyLost ==
  ASSUME Core, NEW k \in Holder, LoseCopy(k)
  PROVE  Holding'
<1>0. Holding /\ copies \in [Holder -> Nat] /\ copies[k] > 0
  BY DEF Core, Holding, Counted, LoseCopy
<1>1. copies' \in [Holder -> Nat] /\ \A h \in Holder : Sent(h) => Sent(h)'
  BY <1>0 DEF LoseCopy, Sent
<1>2. UNCHANGED <<applied, seen, adding, outbox, drains, forwards, had, expired, carried, sweeps,
                  handed>>
  BY DEF LoseCopy, source
<1>3. /\ \A h \in Holder : Deleting(h)' => Deleting(h)
      /\ \A h \in Holder : Holds(h)' = Holds(h)
  BY <1>2 DEF Deleting, Holds, InOutbox
<1> QED BY <1>0, <1>1, <1>2, <1>3, NothingForgotten DEF Holding, Counted, RowType

(* A drain deletes the row only after it has sent a copy.                   *)
LEMMA DrainHolds ==
  ASSUME Core, NEW d \in drains, DrainDeliver(d) \/ DrainDelete(d) \/ DrainEnd(d)
  PROVE  Holding'
<1>0. Holding /\ Counted /\ Src \in Holder
  BY DEF Core, Holding, Holder
<1>1. UNCHANGED <<applied, seen, adding, forwards, had, lost, expired, carried, sweeps, handed>>
  BY DEF DrainDeliver, DrainDelete, DrainEnd, network, history
<1>2. CASE DrainDeliver(d)
  <2>1. /\ copies' \in [Holder -> Nat]
        /\ \A h \in Holder : Sent(h) => Sent(h)'
        /\ Src \in online => Sent(Src)'
    <3> DEFINE live == Src \in online
    <3>1. copies' = IF live THEN [copies EXCEPT ![Src] = @ + 1] ELSE copies
      BY <1>2 DEF DrainDeliver
    <3> HIDE DEF live
    <3>2. live \in BOOLEAN
      BY DEF live
    <3> QED BY <1>0, <1>1, <3>1, <3>2, CopyAdded DEF live
  <2>2. \A h \in Holder : Deleting(h)' => Deleting(h) \/ Sent(h)'
    BY <1>1, <1>2, <2>1 DEF DrainDeliver, DeletesRow, Deleting
  <2>3. outbox' = outbox /\ \A h \in Holder : Holds(h)' = Holds(h)
    BY <1>1, <1>2 DEF DrainDeliver, Holds, InOutbox
  <2> QED BY <1>0, <1>1, <2>1, <2>2, <2>3, NothingForgotten DEF Holding, Counted, RowType
<1>3. CASE DrainDelete(d)
  <2>1. Deleting(Src) /\ copies' = copies
    BY <1>3 DEF DrainDelete, Deleting, network
  <2>2. \A h \in Holder : (Sent(h)' <=> Sent(h)) /\ (Deleting(h)' => Deleting(h))
    BY <1>1, <1>3, <2>1 DEF DrainDelete, Deleting, Sent
  <2>3. \A h \in Holder : Holds(h) => Holds(h)' \/ Sent(h)'
    BY <1>0, <1>1, <2>1, <2>2 DEF Holding, SentBefore, Holds
  <2>4. RowType'
    BY <1>0, <1>1, <1>3 DEF DrainDelete, Holding, RowType
  <2> QED BY <1>0, <1>1, <2>1, <2>2, <2>3, <2>4, NothingForgotten DEF Holding, Counted
<1>4. CASE DrainEnd(d)
  <2>1. UNCHANGED <<copies, outbox>>
    BY <1>4 DEF DrainEnd, network
  <2>2. \A h \in Holder : (Sent(h)' <=> Sent(h)) /\ (Deleting(h)' => Deleting(h))
                           /\ Holds(h)' = Holds(h)
    BY <1>1, <1>4, <2>1 DEF DrainEnd, Deleting, Sent, Holds, InOutbox
  <2> QED BY <1>0, <1>1, <2>1, <2>2, NothingForgotten DEF Holding, Counted, RowType
<1> QED BY <1>2, <1>3, <1>4

(* A carrier deletes its row only after it has sent a copy.                 *)
LEMMA ForwardHolds ==
  ASSUME Core, NEW f \in forwards, Forward(f) \/ Forwarded(f)
  PROVE  Holding'
<1>0. Holding /\ Counted /\ f.carrier \in Carrier /\ f.carrier \in Holder /\ f.carrier # Src
  BY DevicesDiffer DEF Core, Holding, Counted, Holder
<1>1. UNCHANGED <<applied, seen, adding, outbox, drains, had, lost, expired, sweeps, handed>>
  BY DEF Forward, Forwarded, source, history
<1>2. CASE Forward(f)
  <2>1. /\ copies' \in [Holder -> Nat]
        /\ \A h \in Holder : Sent(h) => Sent(h)'
        /\ f.carrier \in online => Sent(f.carrier)'
    <3> DEFINE live == f.carrier \in online
    <3>1. copies' = IF live THEN [copies EXCEPT ![f.carrier] = @ + 1] ELSE copies
      BY <1>2 DEF Forward
    <3> HIDE DEF live
    <3>2. live \in BOOLEAN
      BY DEF live
    <3> QED BY <1>0, <1>1, <3>1, <3>2, CopyAdded DEF live
  <2>2. /\ f.carrier \notin online => forwards' = forwards \ {f}
        /\ f.carrier \in online => forwards' = (forwards \ {f}) \cup {[f EXCEPT !.stage = "delete"]}
        /\ [f EXCEPT !.stage = "delete"].carrier = f.carrier
        /\ carried' = carried
    BY <1>2 DEF Forward, DeletesRow
  <2>3. \A h \in Holder : Deleting(h)' => Deleting(h) \/ Sent(h)'
    BY <1>1, <2>1, <2>2 DEF Deleting
  <2>4. (\A g \in forwards' : g.carrier \in Carrier) /\ \A h \in Holder : Holds(h)' = Holds(h)
    BY <1>0, <1>1, <2>2 DEF Counted, Holds, InOutbox
  <2> QED BY <1>0, <1>1, <2>1, <2>3, <2>4, NothingForgotten DEF Holding, Counted, RowType
<1>3. CASE Forwarded(f)
  <2>1. Deleting(f.carrier) /\ copies' = copies
    BY <1>3 DEF Forwarded, Deleting, network
  <2>2. \A h \in Holder : (Sent(h)' <=> Sent(h)) /\ (Deleting(h)' => Deleting(h))
    BY <1>1, <1>3, <2>1 DEF Forwarded, Deleting, Sent
  <2>3. \A h \in Holder : Holds(h) => Holds(h)' \/ Sent(h)'
    <3>1. carried' = carried \ {f.carrier} /\ Sent(f.carrier)
      BY <1>0, <1>3, <2>1 DEF Forwarded, Holding, SentBefore
    <3> QED BY <1>0, <1>1, <2>2, <3>1 DEF Holds, InOutbox
  <2>4. \A g \in forwards' : g.carrier \in Carrier
    BY <1>0, <1>3 DEF Forwarded, Counted
  <2> QED BY <1>0, <1>1, <2>1, <2>2, <2>3, <2>4, NothingForgotten DEF Holding, Counted, RowType
<1> QED BY <1>2, <1>3

(* Coming back adds drains that have deleted nothing yet, and clears the    *)
(* outbox only of what has expired.                                         *)
LEMMA ConnectHolds ==
  ASSUME Core, NEW d \in Device, Connect(d)
  PROVE  Holding'
<1>0. Holding
  BY DEF Core
<1>1. /\ UNCHANGED <<applied, seen, adding, copies, forwards, had, lost, expired, carried, sweeps,
                     handed>>
      /\ outbox' = outbox \/ (expired /\ outbox' = NoRow)
  BY DEF Connect, history
<1>2. \A h \in Holder : Deleting(h)' => Deleting(h)
  BY <1>1 DEF Connect, Drains, Deleting
<1>3. \A h \in Holder : (Sent(h)' <=> Sent(h)) /\ (Holds(h) => Holds(h)' \/ expired')
  BY <1>1 DEF Sent, Holds, InOutbox
<1>4. RowType'
  BY <1>0, <1>1 DEF Holding, RowType
<1>5. \A h \in had' : h \in had
  BY <1>1
<1> QED BY <1>0, <1>1, <1>2, <1>3, <1>4, <1>5, NothingForgotten DEF Holding, Counted

(* The steps that send and delete nothing.                                  *)
LEMMA RestHolds ==
  ASSUME Core,
         \/ Store \/ Expire
         \/ \E h \in Holder : Receive(h)
         \/ \E d \in Device : Disconnect(d)
         \/ \E d \in drains, c \in Carrier : DrainOffer(d, c)
         \/ \E c \in Carrier : Take(c) \/ Attempt(c) \/ Drop(c) \/ LoseOffer(c)
  PROVE  Holding'
<1>0. Holding /\ Counted /\ RowType /\ Src \in Holder
  BY DEF Core, Holding, Holder
<1>1. CASE Store
  <2>1. outbox' # NoRow /\ outbox'.hop \in Nat
    BY <1>1, StoredRow, BoundsAreNat DEF Store
  <2>2. /\ UNCHANGED <<applied, seen, copies, drains, forwards, lost, expired, carried, sweeps,
                       handed>>
        /\ had' = had \cup {Src} /\ ~adding' /\ adding' \in BOOLEAN
    BY <1>1 DEF Store, network
  <2>3. \A h \in Holder : (Sent(h)' <=> Sent(h)) /\ (Deleting(h)' => Deleting(h))
                           /\ (Holds(h) => Holds(h)')
    BY <2>1, <2>2 DEF Deleting, Sent, Holds, InOutbox
  <2>4. Holds(Src)' /\ RowType'
    BY <2>1, <2>2 DEF Holds, InOutbox, RowType
  <2> QED BY <1>0, <2>2, <2>3, <2>4, NothingForgotten DEF Counted
<1>2. CASE \E h \in Holder : Receive(h)
  <2>1. applied' = 1 /\ seen' = TRUE /\ copies' \in [Holder -> Nat]
    BY <1>0, <1>2 DEF Receive, Unseen, Counted
  <2>2. UNCHANGED <<adding, outbox, forwards, had, sweeps, handed>>
    BY <1>2 DEF Receive, source
  <2> QED BY <1>0, <2>1, <2>2 DEF Holding, Counted, SentBefore, Sent, RowType, HeldOrLost
<1>3. CASE \/ Expire \/ \E d \in Device : Disconnect(d)
           \/ \E d \in drains, c \in Carrier : DrainOffer(d, c)
           \/ \E c \in Carrier : Take(c) \/ Attempt(c) \/ Drop(c) \/ LoseOffer(c)
  <2>1. /\ UNCHANGED <<applied, seen, adding, outbox, copies, lost, drains, sweeps, handed>>
        /\ expired => expired'
    BY <1>3 DEF Expire, Disconnect, DrainOffer, Take, Attempt, Drop, LoseOffer, source, network,
                history
  <2>2. forwards' = forwards \/ \E c \in Carrier :
          forwards' = forwards \cup {[carrier |-> c, run |-> NextRun(ForwardsOf(c)), stage |-> "send"]}
    BY <1>3 DEF Expire, Disconnect, DrainOffer, Take, Attempt, Drop, LoseOffer
  <2>3. /\ \A f \in forwards' : f.carrier \in Carrier
        /\ \A h \in Holder : (Sent(h)' <=> Sent(h)) /\ (Deleting(h)' => Deleting(h))
    BY <1>0, <2>1, <2>2 DEF Counted, Deleting, Sent
  <2>4. /\ had' \subseteq Holder /\ \A h \in had' : h \in had \/ Holds(h)'
        /\ \A h \in Holder : Holds(h) => Holds(h)' \/ expired'
    <3>1. CASE \E c \in Carrier : Take(c)
      <4>1. PICK c \in Carrier : Take(c)
        BY <3>1
      <4> QED BY <1>0, <2>1, <4>1, DevicesDiffer DEF Take, Counted, Holder, Holds, InOutbox
    <3>2. CASE ~\E c \in Carrier : Take(c)
      <4>1. had' = had
        BY <1>3, <3>2 DEF Expire, Disconnect, DrainOffer, Attempt, Drop, LoseOffer, history
      <4>2. carried' = carried \/ expired'
        BY <1>3, <3>2 DEF Expire, Disconnect, DrainOffer, Attempt, Drop, LoseOffer
      <4> QED BY <1>0, <2>1, <4>1, <4>2 DEF Counted, Holds, InOutbox
    <3> QED BY <3>1, <3>2
  <2>5. RowType'
    BY <1>0, <2>1 DEF RowType
  <2> QED BY <1>0, <2>1, <2>3, <2>4, <2>5, NothingForgotten DEF Counted
<1> QED BY <1>1, <1>2, <1>3

-----------------------------------------------------------------------------
(* The fan-out is bounded                                                   *)

(* Steps that leave the sweeps alone, and the row unless they delete it.    *)
LEMMA SharingKept ==
  ASSUME Core, UNCHANGED <<sweeps, handed>>, adding' => adding,
         outbox' = outbox \/ outbox' = NoRow
  PROVE  Sharing'
BY DEF Core, Sharing, RowType, SweepType, Exclusive, Budget, InOutbox, FanOutBounded

(* A new row has all its hops, and nobody was offered it.                   *)
LEMMA StoreShares ==
  ASSUME Core, Store
  PROVE  Sharing'
<1>1. /\ adding /\ ~adding' /\ outbox' = [hop |-> HopLimit, offeredTo |-> {}]
      /\ UNCHANGED <<sweeps, handed>> /\ HopLimit \in Nat
  BY BoundsAreNat DEF Store, history
<1>2. sweeps = {} /\ handed = {} /\ outbox'.hop = HopLimit
  BY <1>1 DEF Core, Sharing, RowType
<1>3. Cardinality(handed) = 0
  BY <1>2, FS_EmptySet
<1> QED BY <1>1, <1>2, <1>3 DEF Core, Sharing, RowType, SweepType, Exclusive, Budget,
                                InOutbox, FanOutBounded

(* A sweep reads the row, and what it read is what is there.                *)
LEMMA OfferKeeps ==
  ASSUME Core, NEW c \in Carrier, Offer(c)
  PROVE  Core'
<1> DEFINE s == [run |-> NextRun(sweeps), stage |-> "send", carrier |-> c, row |-> outbox]
<1>1. /\ sweeps = {} /\ InOutbox /\ outbox.hop > 0 /\ sweeps' = {s}
      /\ UNCHANGED <<adding, outbox, drains, forwards, copies, applied, seen, carried,
                     expired, handed, had, lost>>
  BY DEF Offer, NotSweeping, network, history
<1>2. ~adding /\ outbox.hop \in Nat
  BY <1>1 DEF Core, Sharing, RowType, InOutbox
<1>3. s.stage = "send" /\ s.row = outbox
      /\ s = [run |-> s.run, stage |-> s.stage, carrier |-> s.carrier, row |-> s.row]
  OBVIOUS
<1> HIDE DEF s
<1>4. Holding'
  BY <1>1, <1>2 DEF Core, Holding, Counted, SentBefore, Deleting, Sent, RowType, HeldOrLost,
                    Holds, InOutbox
<1>5. Cardinality(handed) + outbox.hop <= HopLimit
  BY <1>1 DEF Core, Sharing, Budget
<1>6. Cardinality(handed) \in Nat /\ HopLimit \in Nat
  BY FS_CardinalityType, BoundsAreNat DEF Core, Sharing, Budget
<1>7. Sharing'
  BY <1>1, <1>2, <1>3, <1>5, <1>6
     DEF Core, Sharing, RowType, SweepType, Exclusive, Budget, InOutbox, FanOutBounded
<1> QED BY <1>4, <1>7 DEF Core

(* A sending uses one hop more than the row shows until it is updated.      *)
LEMMA SendKeeps ==
  ASSUME Core, NEW s \in sweeps, OfferSend(s)
  PROVE  Core'
<1>0. /\ SweepType /\ Exclusive /\ Budget /\ FanOutBounded /\ RowType /\ Holding
      /\ s.stage = "send" /\ s.row.hop \in Nat \ {0} /\ sweeps = {s} /\ ~adding
  BY DEF Core, Sharing, SweepType, Exclusive, RowType, OfferSend
<1>1. UNCHANGED <<adding, outbox, drains, forwards, copies, applied, seen, carried, expired, had,
                  lost>>
  BY DEF OfferSend
<1>2. Holding'
  BY <1>0, <1>1 DEF Holding, Counted, SentBefore, Deleting, Sent, RowType, HeldOrLost, Holds,
                    InOutbox
<1>3. /\ Cardinality(handed) \in Nat /\ HopLimit \in Nat
      /\ Cardinality(handed) + s.row.hop <= HopLimit
  BY <1>0, FS_CardinalityType, BoundsAreNat DEF Budget
<1>4. CASE Src \in online
  <2> DEFINE t == [s EXCEPT !.stage = "update"]
  <2>1. handed' = handed \cup {s.carrier} /\ sweeps' = {t}
    BY <1>0, <1>4 DEF OfferSend
  <2>2. /\ t = [run |-> t.run, stage |-> t.stage, carrier |-> t.carrier, row |-> t.row]
        /\ t.stage = "update" /\ t.row = s.row
    BY <1>0 DEF SweepType
  <2> HIDE DEF t
  <2>3. /\ IsFiniteSet(handed') /\ Cardinality(handed') \in Nat
        /\ Cardinality(handed') <= Cardinality(handed) + 1
    <3>1. IsFiniteSet(handed)
      BY <1>0 DEF Budget
    <3>2. /\ IsFiniteSet(handed \cup {s.carrier})
          /\ \/ Cardinality(handed \cup {s.carrier}) = Cardinality(handed)
             \/ Cardinality(handed \cup {s.carrier}) = Cardinality(handed) + 1
      BY <3>1, FS_AddElement
    <3> QED BY <1>3, <2>1, <3>2
  <2>4. FanOutBounded'
    BY <1>0, <1>3, <2>3 DEF FanOutBounded
  <2>5. Budget'
    BY <1>0, <1>3, <2>1, <2>2, <2>3 DEF Budget
  <2>6. RowType' /\ SweepType' /\ Exclusive'
    BY <1>0, <1>1, <2>1, <2>2 DEF RowType, SweepType, Exclusive, InOutbox
  <2> QED BY <1>2, <2>4, <2>5, <2>6 DEF Core, Sharing
<1>5. CASE Src \notin online
  <2>1. handed' = handed /\ sweeps' = {}
    BY <1>0, <1>5 DEF OfferSend
  <2>2. InOutbox => outbox = s.row
    BY <1>0 DEF Exclusive
  <2> QED BY <1>0, <1>1, <1>2, <1>3, <2>1, <2>2
          DEF Core, Sharing, RowType, SweepType, Exclusive, Budget, InOutbox, FanOutBounded
<1> QED BY <1>4, <1>5

(* The update settles what the sending used.                                *)
LEMMA UpdateKeeps ==
  ASSUME Core, NEW s \in sweeps, OfferUpdate(s)
  PROVE  Core'
<1>0. /\ SweepType /\ Exclusive /\ Budget /\ FanOutBounded /\ RowType /\ Holding
      /\ s.stage = "update" /\ s.row.hop \in Nat \ {0} /\ sweeps' = {} /\ ~adding
  BY DEF Core, Sharing, SweepType, Exclusive, RowType, OfferUpdate
<1>1. UNCHANGED <<adding, drains, forwards, copies, applied, seen, carried, expired, handed, had,
                  lost>>
  BY DEF OfferUpdate, network, history
<1>2. IF InOutbox THEN outbox' = OneHopLess(s) ELSE outbox' = outbox
  BY DEF OfferUpdate
<1>3. OneHopLess(s) # NoRow /\ OneHopLess(s).hop = s.row.hop - 1 /\ s.row.hop - 1 \in Nat
  BY <1>0, StoredRow DEF OneHopLess
<1>4. Holding'
  BY <1>0, <1>1, <1>2, <1>3
     DEF Holding, Counted, SentBefore, Deleting, Sent, RowType, HeldOrLost, Holds, InOutbox
<1>5. /\ Cardinality(handed) \in Nat /\ HopLimit \in Nat
      /\ Cardinality(handed) + s.row.hop <= HopLimit + 1
  BY <1>0, FS_CardinalityType, BoundsAreNat DEF Budget
<1>6. Budget'
  BY <1>0, <1>1, <1>2, <1>3, <1>5 DEF Budget, InOutbox
<1>7. RowType' /\ SweepType' /\ Exclusive' /\ FanOutBounded'
  BY <1>0, <1>1, <1>2, <1>3 DEF RowType, SweepType, Exclusive, FanOutBounded, InOutbox
<1> QED BY <1>4, <1>6, <1>7 DEF Core, Sharing

-----------------------------------------------------------------------------
(* The invariant holds in every reachable state.                            *)
THEOREM CoreAlways == Spec => []Core
<1>1. Init => Core
  BY InitCore
<1>2. Core /\ [Next]_vars => Core'
  <2> SUFFICES ASSUME Core, [Next]_vars PROVE Core'
    OBVIOUS
  <2>1. CASE UNCHANGED vars
    BY <2>1 DEF vars, source, network, history, Core, Holding, Sharing, Counted, SentBefore,
                Deleting, Sent, RowType, HeldOrLost, Holds, InOutbox, SweepType, Exclusive, Budget,
                FanOutBounded
  <2>2. CASE Store
    BY <2>2, RestHolds, StoreShares DEF Core
  <2>3. ASSUME NEW d \in Device, Connect(d) \/ Disconnect(d)
        PROVE  Core'
    <3>1. UNCHANGED <<sweeps, handed, adding>> /\ (outbox' = outbox \/ outbox' = NoRow)
      BY <2>3 DEF Connect, Disconnect, source, history
    <3> QED BY <2>3, <3>1, ConnectHolds, RestHolds, SharingKept DEF Core
  <2>4. ASSUME NEW d \in drains, \/ DrainDeliver(d) \/ DrainDelete(d) \/ DrainEnd(d)
                                  \/ \E c \in Carrier : DrainOffer(d, c)
        PROVE  Core'
    <3>1. UNCHANGED <<sweeps, handed, adding>> /\ (outbox' = outbox \/ outbox' = NoRow)
      BY <2>4 DEF DrainDeliver, DrainDelete, DrainEnd, DrainOffer, network, history
    <3> QED BY <2>4, <3>1, DrainHolds, RestHolds, SharingKept DEF Core
  <2>5. ASSUME NEW s \in sweeps, OfferSend(s) \/ OfferUpdate(s)
        PROVE  Core'
    BY <2>5, SendKeeps, UpdateKeeps
  <2>6. ASSUME NEW c \in Carrier, Offer(c)
        PROVE  Core'
    BY <2>6, OfferKeeps
  <2>7. ASSUME NEW c \in Carrier, Take(c) \/ Attempt(c) \/ Drop(c) \/ LoseOffer(c)
        PROVE  Core'
    <3>1. UNCHANGED <<sweeps, handed, adding, outbox>>
      BY <2>7 DEF Take, Attempt, Drop, LoseOffer, source, network, history
    <3> QED BY <2>7, <3>1, RestHolds, SharingKept DEF Core
  <2>8. ASSUME NEW f \in forwards, Forward(f) \/ Forwarded(f)
        PROVE  Core'
    <3>1. UNCHANGED <<sweeps, handed, adding, outbox>>
      BY <2>8 DEF Forward, Forwarded, source, network, history
    <3> QED BY <2>8, <3>1, ForwardHolds, SharingKept DEF Core
  <2>9. CASE Expire \/ \E h \in Holder : Receive(h) \/ LoseCopy(h)
    <3>1. UNCHANGED <<sweeps, handed, adding, outbox>>
      BY <2>9 DEF Receive, LoseCopy, Expire, source, network, history
    <3> QED BY <2>9, <3>1, RestHolds, CopyLost, SharingKept DEF Core
  <2> QED BY <2>1, <2>2, <2>3, <2>4, <2>5, <2>6, <2>7, <2>8, <2>9 DEF Next
<1> QED BY <1>1, <1>2, PTL DEF Spec

(* However many copies are sent, the destination applies the bundle once    *)
(* (engine.ts, the seen table).                                             *)
THEOREM BundleIsAppliedOnce == Spec => []AppliedOnce
<1>1. Core => AppliedOnce
  BY DEF Core, Holding, Counted, AppliedOnce
<1> QED BY <1>1, CoreAlways, PTL

(* Until it is applied or expires, everyone who had the bundle holds it,    *)
(* has a copy of its own on its way, or had one lost (drainOutbox and       *)
(* attemptCarriedDelivery delete only after they sent).                     *)
THEOREM BundleIsHeld == Spec => []HeldOrLost
BY CoreAlways, PTL DEF Core, Holding

(* Offers that go out live reach at most hopLimit carriers (engine.ts:      *)
(* "Bounded by hopLimit so fan-out can't run away").                        *)
THEOREM CopiesAreBounded == Spec => []FanOutBounded
BY CoreAlways, PTL DEF Core, Sharing
=============================================================================
