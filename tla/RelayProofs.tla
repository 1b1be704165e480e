----------------------------- MODULE RelayProofs -----------------------------
(***************************************************************************)
(* Proofs about the relay: its types, the bound and the order of its       *)
(* queues, that a device that is online has none, that a live socket is    *)
(* never cut off by an older one, and that rosters are current.            *)
(***************************************************************************)
EXTENDS Relay, SequenceTheorems, TLAPS

(* Everything d was handed or is held, in order.                            *)
Line(d) == handed[d] \o queues[d]

(* A socket a device is reached on was opened and authenticated by it; a    *)
(* socket authenticates once.                                               *)
Linked ==
  /\ \A d \in Device : connections[d] # None =>
       auth[connections[d]] = d /\ ready[connections[d]] # "new"
  /\ \A s \in Socket : claim[s] # None => auth[s] = None /\ ready[s] # "new"

Numbered == \A d \in Device : \A i \in DOMAIN Line(d) : Line(d)[i] <= routed

(* The inductive invariant.                                                 *)
Core ==
  /\ TypeOK
  /\ QueueBound
  /\ DrainedWhenOnline
  /\ Linked
  /\ Numbered
  /\ InOrder

-----------------------------------------------------------------------------
(* Appending a larger number keeps a sequence increasing.                   *)
LEMMA AppendIncreasing ==
  ASSUME NEW q \in Seq(Nat), NEW n \in Nat, Increasing(q),
         \A i \in DOMAIN q : q[i] < n
  PROVE  Increasing(Append(q, n))
BY DEF Increasing

(* A prefix of an increasing sequence is increasing.                        *)
LEMMA PrefixIncreasing ==
  ASSUME NEW p \in Seq(Nat), NEW q \in Seq(Nat), Increasing(p \o q)
  PROVE  Increasing(p)
<1> SUFFICES ASSUME NEW i \in DOMAIN p, NEW j \in DOMAIN p, i < j
             PROVE  p[i] < p[j]
  BY DEF Increasing
<1>1. i \in DOMAIN (p \o q) /\ j \in DOMAIN (p \o q)
  OBVIOUS
<1>2. (p \o q)[i] = p[i] /\ (p \o q)[j] = p[j]
  OBVIOUS
<1> QED BY <1>1, <1>2 DEF Increasing

(* The elements of a prefix keep their places.                              *)
LEMMA PrefixElement ==
  ASSUME NEW p \in Seq(Nat), NEW q \in Seq(Nat), NEW i \in DOMAIN p
  PROVE  i \in DOMAIN (p \o q) /\ (p \o q)[i] = p[i]
OBVIOUS

(* Appending to the second part appends to the whole.                       *)
LEMMA AppendAtEnd ==
  ASSUME NEW p \in Seq(Nat), NEW q \in Seq(Nat), NEW n \in Nat
  PROVE  p \o Append(q, n) = Append(p \o q, n)
OBVIOUS

(* An empty second part adds nothing.                                       *)
LEMMA EmptyAtEnd ==
  ASSUME NEW p \in Seq(Nat)
  PROVE  p \o <<>> = p
OBVIOUS

-----------------------------------------------------------------------------
(* No socket is open at first.                                              *)
LEMMA InitCore == Init => Core
<1> SUFFICES ASSUME Init PROVE Core
  OBVIOUS
<1> USE DEF Init
<1>0. <<>> \in Seq(Nat) /\ Len(<<>>) = 0
  OBVIOUS
<1>1. TypeOK
  <2>1. queues \in [Device -> Seq(Nat)] /\ handed \in [Device -> Seq(Nat)]
    BY <1>0
  <2>2. registered \in SUBSET Device /\ Owner \in registered
    BY OwnerIsDevice
  <2>3. expired \in BOOLEAN /\ late \in BOOLEAN
    OBVIOUS
  <2>4. /\ ready \in [Socket -> ReadyState]
        /\ claim \in [Socket -> Device \cup {None}]
        /\ auth \in [Socket -> Device \cup {None}]
        /\ connections \in [Device -> Socket \cup {None}]
    BY DEF ReadyState
  <2>5. routed \in Nat /\ dropped \in SUBSET Nat
    OBVIOUS
  <2> QED BY <2>1, <2>2, <2>3, <2>4, <2>5 DEF TypeOK
<1>2. QueueBound
  <2> SUFFICES ASSUME NEW d \in Device PROVE Len(queues[d]) <= MaxQueue
    BY DEF QueueBound
  <2>1. queues[d] = <<>>
    OBVIOUS
  <2> QED BY <2>1, <1>0, NumbersAreNat
<1>3. DrainedWhenOnline /\ Linked
  BY DEF DrainedWhenOnline, IsOnline, Online, Linked
<1>4. Numbered /\ InOrder
  BY DEF Numbered, InOrder, Line, Increasing
<1> QED BY <1>1, <1>2, <1>3, <1>4 DEF Core

(* Steps that leave queues and history alone keep the order.                *)
LEMMA SameLines ==
  ASSUME Core, UNCHANGED <<queues, handed, routed>>
  PROVE  Numbered' /\ InOrder' /\ QueueBound'
BY DEF Core, Numbered, InOrder, QueueBound, Line

(* The order survives when one line grows at its end by the newly routed    *)
(* number, and the others stay.                                             *)
LEMMA LineGrows ==
  ASSUME Core, TypeOK', NEW d \in Device, routed' = routed + 1,
         Line(d)' = Append(Line(d), routed + 1) \/ Line(d)' = Line(d),
         \A e \in Device \ {d} : Line(e)' = Line(e)
  PROVE  Numbered' /\ InOrder'
<1> USE DEF Core
<1>1. \A e \in Device : Line(e) \in Seq(Nat) /\ Increasing(Line(e))
  BY DEF Line, TypeOK, InOrder
<1>2. routed \in Nat /\ \A e \in Device : \A i \in DOMAIN Line(e) : Line(e)[i] <= routed
  BY DEF Numbered, TypeOK
<1>3. \A i \in DOMAIN Line(d) : Line(d)[i] \in Nat /\ Line(d)[i] < routed + 1
  BY <1>1, <1>2
<1>4. Increasing(Append(Line(d), routed + 1))
  BY <1>1, <1>2, <1>3, AppendIncreasing
<1>5. \A e \in Device : Increasing(Line(e)')
  BY <1>1, <1>4
<1>6. \A e \in Device : \A i \in DOMAIN Line(e)' : Line(e)'[i] <= routed + 1
  <2> TAKE e \in Device
  <2>1. CASE Line(e)' = Line(e)
    <3> TAKE i \in DOMAIN Line(e)'
    <3>1. Line(e)[i] \in Nat /\ Line(e)[i] <= routed
      BY <2>1, <1>1, <1>2
    <3> QED BY <2>1, <3>1, <1>2
  <2>2. CASE e = d /\ Line(d)' = Append(Line(d), routed + 1)
    <3> TAKE i \in DOMAIN Line(e)'
    <3>1. i \in 1..(Len(Line(d)) + 1)
      BY <2>2, <1>1, <1>2
    <3>2. CASE i = Len(Line(d)) + 1
      BY <2>2, <3>2, <1>1, <1>2
    <3>3. CASE i \in DOMAIN Line(d)
      <4>1. Line(e)'[i] = Line(d)[i]
        BY <2>2, <3>3, <1>1, <1>2
      <4> QED BY <4>1, <3>3, <1>3, <1>2
    <3> QED BY <3>1, <3>2, <3>3, <1>1
  <2> QED BY <2>1, <2>2
<1>7. InOrder'
  BY <1>5 DEF InOrder, Line
<1>8. Numbered'
  BY <1>6 DEF Numbered
<1> QED BY <1>7, <1>8

(* The order survives when one line is cut to a prefix or stays.            *)
LEMMA LineCut ==
  ASSUME Core, TypeOK', NEW d \in Device, routed' = routed,
         Line(d)' = handed[d] \/ Line(d)' = Line(d),
         \A e \in Device \ {d} : Line(e)' = Line(e)
  PROVE  Numbered' /\ InOrder'
<1> USE DEF Core
<1>1. \A e \in Device : /\ handed[e] \in Seq(Nat) /\ queues[e] \in Seq(Nat)
                         /\ Increasing(handed[e] \o queues[e])
  BY DEF TypeOK, InOrder
<1>2. Increasing(handed[d])
  BY <1>1, PrefixIncreasing
<1>3. \A e \in Device : Increasing(Line(e)')
  BY <1>1, <1>2 DEF Line
<1>4. InOrder'
  BY <1>3 DEF InOrder, Line
<1>5. \A i \in DOMAIN handed[d] : handed[d][i] <= routed
  <2> TAKE i \in DOMAIN handed[d]
  <2>1. i \in DOMAIN Line(d) /\ Line(d)[i] = handed[d][i]
    BY <1>1, PrefixElement DEF Line
  <2> QED BY <2>1 DEF Numbered
<1>6. Numbered'
  BY <1>5 DEF Numbered
<1> QED BY <1>4, <1>6

-----------------------------------------------------------------------------
(* One lemma per action that moves envelopes.                               *)
LEMMA EnvelopeStep ==
  ASSUME Core, NEW s \in Socket, NEW d \in Device, Envelope(s, d)
  PROVE  Core'
<1> USE DEF Core
<1>1. /\ routed \in Nat /\ routed' = routed + 1
      /\ queues \in [Device -> Seq(Nat)] /\ handed \in [Device -> Seq(Nat)]
  BY DEF Envelope, TypeOK
<1>2. UNCHANGED <<registered, expired, ready, claim, auth, connections, late>>
  BY DEF Envelope
<1>3. RouteOrQueue(routed + 1, d)
  BY DEF Envelope
<1>4. /\ TypeOK' /\ QueueBound' /\ DrainedWhenOnline'
      /\ \/ Line(d)' = Append(Line(d), routed + 1)
         \/ Line(d)' = Line(d)
      /\ \A e \in Device \ {d} : Line(e)' = Line(e)
  <2>1. CASE IsOnline(d) /\ handed' = [handed EXCEPT ![d] = Append(@, routed + 1)]
             /\ UNCHANGED <<queues, dropped>>
    <3>1. queues[d] = <<>>
      BY <2>1 DEF DrainedWhenOnline
    <3>2. Append(handed[d], routed + 1) \in Seq(Nat)
      BY <1>1
    <3>3. handed'[d] \o <<>> = handed'[d] /\ handed[d] \o <<>> = handed[d]
      BY <2>1, <3>2, <1>1, EmptyAtEnd
    <3>4. Line(d)' = Append(Line(d), routed + 1)
      BY <2>1, <3>1, <3>3, <1>1 DEF Line
    <3>5. \A e \in Device \ {d} : Line(e)' = Line(e)
      BY <2>1, <1>1 DEF Line
    <3>6. TypeOK'
      BY <2>1, <3>2, <1>1, <1>2 DEF TypeOK
    <3>7. QueueBound' /\ DrainedWhenOnline'
      BY <2>1, <1>2 DEF QueueBound, DrainedWhenOnline, IsOnline, Online
    <3> QED BY <3>4, <3>5, <3>6, <3>7
  <2>2. CASE /\ ~IsOnline(d) /\ Len(queues[d]) < MaxQueue
             /\ queues' = [queues EXCEPT ![d] = Append(@, routed + 1)]
             /\ UNCHANGED <<handed, dropped>>
    <3>1. /\ Append(queues[d], routed + 1) \in Seq(Nat)
          /\ Len(Append(queues[d], routed + 1)) = Len(queues[d]) + 1
          /\ Len(queues[d]) \in Nat
      BY <1>1
    <3>2. Line(d)' = Append(Line(d), routed + 1)
      BY <2>2, <1>1, AppendAtEnd DEF Line
    <3>3. \A e \in Device \ {d} : Line(e)' = Line(e)
      BY <2>2, <1>1 DEF Line
    <3>4. TypeOK'
      BY <2>2, <3>1, <1>1, <1>2 DEF TypeOK
    <3>5. QueueBound'
      BY <2>2, <3>1, <1>1, NumbersAreNat DEF QueueBound
    <3>6. DrainedWhenOnline'
      BY <2>2, <1>1, <1>2 DEF DrainedWhenOnline, IsOnline, Online
    <3> QED BY <3>2, <3>3, <3>4, <3>5, <3>6
  <2>3. CASE dropped' = dropped \cup {routed + 1} /\ UNCHANGED <<queues, handed>>
    <3>1. TypeOK'
      BY <2>3, <1>1, <1>2 DEF TypeOK
    <3> QED BY <2>3, <3>1, <1>1, <1>2 DEF QueueBound, DrainedWhenOnline, IsOnline,
                                    Online, Line
  <2> QED BY <1>3, <2>1, <2>2, <2>3 DEF RouteOrQueue
<1>5. Numbered' /\ InOrder'
  BY <1>1, <1>4, LineGrows
<1>6. Linked'
  BY <1>2 DEF Linked
<1> QED BY <1>4, <1>5, <1>6

(* A login hands the queue over in its order.                               *)
LEMMA AuthenticatedStep ==
  ASSUME Core, NEW s \in Socket, Authenticated(s)
  PROVE  Core'
<1> USE DEF Core
<1>0. PICK d \in Device : d = claim[s]
  BY DEF Authenticated, TypeOK
<1>1. /\ d \in Device /\ routed \in Nat /\ routed' = routed
      /\ queues \in [Device -> Seq(Nat)] /\ handed \in [Device -> Seq(Nat)]
      /\ queues' = [queues EXCEPT ![d] = <<>>]
      /\ handed' = [handed EXCEPT ![d] =
                       IF ready[s] = "open" THEN @ \o queues[d] ELSE @]
  BY <1>0 DEF Authenticated, TypeOK, TakeQueue, Drained
<1>2. /\ UNCHANGED <<registered, expired, ready, late>>
      /\ connections' = [connections EXCEPT ![d] = s]
      /\ auth' = [auth EXCEPT ![s] = d]
      /\ claim' = [claim EXCEPT ![s] = None]
  BY <1>0 DEF Authenticated
<1>3. <<>> \in Seq(Nat) /\ Len(<<>>) = 0 /\ handed[d] \o queues[d] \in Seq(Nat)
  BY <1>1
<1>4. TypeOK'
  <2>1. queues' \in [Device -> Seq(Nat)] /\ handed' \in [Device -> Seq(Nat)]
    BY <1>1, <1>3
  <2>2. /\ claim' \in [Socket -> Device \cup {None}]
        /\ auth' \in [Socket -> Device \cup {None}]
        /\ connections' \in [Device -> Socket \cup {None}]
    BY <1>1, <1>2 DEF TypeOK
  <2>3. dropped' \in SUBSET Nat
    <3>1. \A i \in DOMAIN queues[d] : queues[d][i] \in Nat
      BY <1>1
    <3>2. Elements(queues[d]) \subseteq Nat
      BY <3>1 DEF Elements
    <3> QED BY <3>2, <1>0 DEF Authenticated, TypeOK
  <2> QED BY <2>1, <2>2, <2>3, <1>1, <1>2 DEF TypeOK
<1>5. QueueBound'
  <2> SUFFICES ASSUME NEW e \in Device PROVE Len(queues'[e]) <= MaxQueue
    BY DEF QueueBound
  <2>1. CASE e = d
    BY <2>1, <1>1, <1>3, NumbersAreNat
  <2>2. CASE e # d
    BY <2>2, <1>1 DEF QueueBound
  <2> QED BY <2>1, <2>2
<1>6. DrainedWhenOnline'
  <2> SUFFICES ASSUME NEW e \in Device, IsOnline(e)' PROVE queues'[e] = <<>>
    BY DEF DrainedWhenOnline
  <2>1. CASE e = d
    BY <2>1, <1>1
  <2>2. CASE e # d
    <3>1. IsOnline(e)
      BY <2>2, <1>1, <1>2 DEF IsOnline, Online, TypeOK
    <3> QED BY <2>2, <3>1, <1>1 DEF DrainedWhenOnline
  <2> QED BY <2>1, <2>2
<1>7. Linked'
  <2>1. claim[s] # None /\ auth[s] = None /\ ready[s] # "new"
    BY DEF Authenticated, Linked
  <2>2. \A e \in Device : connections'[e] # None =>
          auth'[connections'[e]] = e /\ ready'[connections'[e]] # "new"
    <3> SUFFICES ASSUME NEW e \in Device, connections'[e] # None
                 PROVE  auth'[connections'[e]] = e /\ ready'[connections'[e]] # "new"
      OBVIOUS
    <3>1. CASE e = d
      BY <3>1, <2>1, <1>1, <1>2 DEF TypeOK
    <3>2. CASE e # d
      <4>1. /\ connections'[e] = connections[e] /\ connections[e] \in Socket
            /\ auth[connections[e]] = e /\ ready[connections[e]] # "new"
        BY <3>2, <1>1, <1>2 DEF TypeOK, Linked
      <4>2. connections[e] # s
        BY <4>1, <2>1, NoneIsNothing
      <4> QED BY <4>1, <4>2, <1>2 DEF TypeOK
    <3> QED BY <3>1, <3>2
  <2>3. \A t \in Socket : claim'[t] # None => auth'[t] = None /\ ready'[t] # "new"
    BY <1>1, <1>2 DEF TypeOK, Linked
  <2> QED BY <2>2, <2>3 DEF Linked
<1>8. Numbered' /\ InOrder'
  <2>1. \A e \in Device \ {d} : Line(e)' = Line(e)
    BY <1>1 DEF Line
  <2>2. Line(d)' = handed[d] \/ Line(d)' = Line(d)
    <3>1. Line(d)' = handed'[d] \o <<>>
      BY <1>1 DEF Line
    <3>2. Line(d)' = handed'[d]
      BY <3>1, <1>4, <1>1, EmptyAtEnd DEF TypeOK
    <3> QED BY <3>2, <1>1 DEF Line
  <2> QED BY <2>1, <2>2, <1>1, <1>4, LineCut
<1> QED BY <1>4, <1>5, <1>6, <1>7, <1>8

(* A removal empties the queue of the device.                               *)
LEMMA RevokeStep ==
  ASSUME Core, NEW d \in Device, Revoke(d)
  PROVE  Core'
<1> USE DEF Core
<1>1. /\ routed \in Nat /\ routed' = routed
      /\ queues \in [Device -> Seq(Nat)] /\ handed \in [Device -> Seq(Nat)]
      /\ queues' = [queues EXCEPT ![d] = <<>>] /\ handed' = handed
  BY DEF Revoke, TypeOK
<1>2. /\ UNCHANGED <<expired, claim, auth, late>>
      /\ connections' = [connections EXCEPT ![d] = None]
      /\ ready' = [s \in Socket |->
                     IF s = connections[d] /\ ready[s] = "open" THEN "kicked"
                     ELSE ready[s]]
      /\ registered' = registered \ {d} /\ d # Owner
  BY DEF Revoke, Revocable
<1>3. <<>> \in Seq(Nat) /\ Len(<<>>) = 0
  OBVIOUS
<1>4. TypeOK'
  <2>1. queues' \in [Device -> Seq(Nat)] /\ handed' \in [Device -> Seq(Nat)]
    BY <1>1, <1>3
  <2>2. /\ connections' \in [Device -> Socket \cup {None}]
        /\ ready' \in [Socket -> ReadyState]
    BY <1>2 DEF TypeOK, ReadyState
  <2>3. dropped' \in SUBSET Nat
    <3>1. \A i \in DOMAIN queues[d] : queues[d][i] \in Nat
      BY <1>1
    <3>2. Elements(queues[d]) \subseteq Nat
      BY <3>1 DEF Elements
    <3> QED BY <3>2 DEF Revoke, TypeOK
  <2> QED BY <2>1, <2>2, <2>3, <1>1, <1>2 DEF TypeOK
<1>5. QueueBound'
  <2> SUFFICES ASSUME NEW e \in Device PROVE Len(queues'[e]) <= MaxQueue
    BY DEF QueueBound
  <2>1. CASE e = d
    BY <2>1, <1>1, <1>3, NumbersAreNat
  <2>2. CASE e # d
    BY <2>2, <1>1 DEF QueueBound
  <2> QED BY <2>1, <2>2
<1>6. DrainedWhenOnline'
  <2> SUFFICES ASSUME NEW e \in Device, IsOnline(e)' PROVE queues'[e] = <<>>
    BY DEF DrainedWhenOnline
  <2>1. CASE e = d
    BY <2>1, <1>1
  <2>2. CASE e # d
    <3>1. IsOnline(e)
      BY <2>2, <1>1, <1>2 DEF IsOnline, Online, TypeOK
    <3> QED BY <2>2, <3>1, <1>1 DEF DrainedWhenOnline
  <2> QED BY <2>1, <2>2
<1>7. Linked'
  BY <1>2 DEF Linked, TypeOK
<1>8. Numbered' /\ InOrder'
  <2>1. \A e \in Device \ {d} : Line(e)' = Line(e)
    BY <1>1 DEF Line
  <2>2. Line(d)' = handed[d]
    BY <1>1, EmptyAtEnd DEF Line
  <2> QED BY <2>1, <2>2, <1>1, <1>4, LineCut
<1> QED BY <1>4, <1>5, <1>6, <1>7, <1>8

(* The other actions move no envelope.                                      *)
LEMMA SocketStep ==
  ASSUME Core, NEW s \in Socket,
         Open(s) \/ (\E d \in Device : Auth(s, d)) \/ Drop(s) \/ Closed(s)
  PROVE  Core'
<1> USE DEF Core
<1>1. UNCHANGED <<registered, expired, queues, late, routed, handed, dropped>>
  BY DEF Open, Auth, Drop, Closed
<1>2. Numbered' /\ InOrder' /\ QueueBound'
  BY <1>1, SameLines
<1>3. CASE Open(s)
  BY <1>1, <1>2, <1>3 DEF Open, TypeOK, ReadyState, DrainedWhenOnline, IsOnline,
     Online, Linked
<1>4. CASE \E d \in Device : Auth(s, d)
  BY <1>1, <1>2, <1>4 DEF Auth, TypeOK, DrainedWhenOnline, IsOnline, Online, Linked
<1>5. CASE Drop(s)
  BY <1>1, <1>2, <1>5 DEF Drop, TypeOK, ReadyState, DrainedWhenOnline, IsOnline,
     Online, Linked
<1>6. CASE Closed(s)
  <2>1. /\ UNCHANGED <<claim, auth>>
        /\ ready' = [ready EXCEPT ![s] = "closed"]
        /\ \/ connections' = connections
           \/ /\ auth[s] \in Device
              /\ connections' = [connections EXCEPT ![auth[s]] =
                                    IF @ = s THEN None ELSE @]
    BY <1>6 DEF Closed, CloseSame, TypeOK
  <2>2. TypeOK'
    BY <1>1, <2>1 DEF TypeOK, ReadyState
  <2>3. DrainedWhenOnline'
    <3> SUFFICES ASSUME NEW d \in Device, IsOnline(d)' PROVE queues'[d] = <<>>
      BY DEF DrainedWhenOnline
    <3>1. IsOnline(d)
      BY <2>1 DEF IsOnline, Online, TypeOK
    <3> QED BY <3>1, <1>1 DEF DrainedWhenOnline
  <2>4. Linked'
    <3>1. \A d \in Device : connections'[d] # None =>
            auth'[connections'[d]] = d /\ ready'[connections'[d]] # "new"
      <4> SUFFICES ASSUME NEW d \in Device, connections'[d] # None
                   PROVE  auth'[connections'[d]] = d /\ ready'[connections'[d]] # "new"
        OBVIOUS
      <4>1. connections'[d] = connections[d] /\ connections[d] \in Socket
        BY <2>1 DEF TypeOK
      <4>2. auth[connections[d]] = d /\ ready[connections[d]] # "new"
        BY <4>1 DEF Linked
      <4> QED BY <4>1, <4>2, <2>1 DEF TypeOK
    <3>2. \A t \in Socket : claim'[t] # None => auth'[t] = None /\ ready'[t] # "new"
      BY <2>1 DEF Linked, TypeOK
    <3> QED BY <3>1, <3>2 DEF Linked
  <2> QED BY <1>2, <2>2, <2>3, <2>4
<1> QED BY <1>3, <1>4, <1>5, <1>6

(* Joins and expiry leave sockets and order alone.                          *)
LEMMA OtherStep ==
  ASSUME Core,
         (\E d \in Device : Join(d)) \/ WorkspaceExpires \/ EnvelopesExpire
           \/ UNCHANGED vars
  PROVE  Core'
<1> USE DEF Core
<1>1. UNCHANGED <<ready, claim, auth, connections, queues, routed, handed, dropped>>
  BY DEF Join, WorkspaceExpires, EnvelopesExpire, vars
<1>2. /\ registered' \in SUBSET Device /\ Owner \in registered'
      /\ expired' \in BOOLEAN /\ late' \in BOOLEAN
  BY DEF Join, WorkspaceExpires, EnvelopesExpire, vars, TypeOK
<1>3. TypeOK'
  BY <1>1, <1>2 DEF TypeOK
<1>4. DrainedWhenOnline' /\ Linked'
  BY <1>1 DEF DrainedWhenOnline, IsOnline, Online, Linked
<1> QED BY <1>1, <1>3, <1>4, SameLines

(* Every step keeps the invariant.                                          *)
LEMMA CoreStep == Core /\ [Next]_vars => Core'
<1> SUFFICES ASSUME Core, [Next]_vars PROVE Core'
  OBVIOUS
<1>1. CASE \E s \in Socket : Open(s) \/ Drop(s) \/ Closed(s)
                             \/ \E d \in Device : Auth(s, d)
  BY <1>1, SocketStep
<1>2. CASE \E s \in Socket : Authenticated(s)
  BY <1>2, AuthenticatedStep
<1>3. CASE \E s \in Socket, d \in Device : Envelope(s, d)
  BY <1>3, EnvelopeStep
<1>4. CASE \E d \in Device : Revoke(d)
  BY <1>4, RevokeStep
<1>5. CASE \/ \E d \in Device : Join(d)
           \/ WorkspaceExpires \/ EnvelopesExpire \/ UNCHANGED vars
  BY <1>5, OtherStep
<1> QED BY <1>1, <1>2, <1>3, <1>4, <1>5 DEF Next

(* The inductive invariant holds always.                                    *)
THEOREM CoreAlways == Spec => []Core
<1>1. Init => Core
  BY InitCore
<1>2. Core /\ [Next]_vars => Core'
  BY CoreStep
<1> QED BY <1>1, <1>2, PTL DEF Spec

(* The relay's state is well typed and the owner stays registered.          *)
THEOREM TypeCorrect == Spec => []TypeOK
BY CoreAlways, PTL DEF Core

(* No queue outgrows MAX_QUEUE_PER_DEVICE.                                  *)
THEOREM QueuesAreBounded == Spec => []QueueBound
BY CoreAlways, PTL DEF Core

(* A device that is online has nothing waiting in its queue.                *)
THEOREM OnlineIsDrained == Spec => []DrainedWhenOnline
BY CoreAlways, PTL DEF Core

(* Envelopes reach a device, over all its sockets, in the order the relay   *)
(* routed them and each once.                                               *)
THEOREM OrderIsKept == Spec => []InOrder
BY CoreAlways, PTL DEF Core

-----------------------------------------------------------------------------
(* A connection goes only with its own socket, a login or a revocation.     *)
LEMMA LiveStep ==
  ASSUME Core, [Next]_vars, NEW d \in Device, IsOnline(d),
         ready'[connections[d]] = "open"
  PROVE  \/ connections'[d] = connections[d]
         \/ \E s \in Socket : connections'[d] = s /\ auth[s] # d /\ auth'[s] = d
<1> USE DEF Core
<1>1. CASE \E s \in Socket : Authenticated(s)
  <2> PICK s \in Socket : Authenticated(s)
    BY <1>1
  <2>1. claim[s] # None /\ auth[s] = None
    BY DEF Authenticated, Linked
  <2>2. /\ connections' = [connections EXCEPT ![claim[s]] = s]
        /\ auth' = [auth EXCEPT ![s] = claim[s]]
    BY DEF Authenticated
  <2>3. CASE claim[s] = d
    BY <2>1, <2>2, <2>3, NoneIsNothing DEF TypeOK
  <2>4. CASE claim[s] # d
    BY <2>2, <2>4 DEF TypeOK
  <2> QED BY <2>3, <2>4
<1>2. CASE \E s \in Socket : Closed(s)
  BY <1>2 DEF Closed, CloseSame, IsOnline, Online, TypeOK
<1>3. CASE \E e \in Device : Revoke(e)
  BY <1>3 DEF Revoke, IsOnline, Online, TypeOK
<1>4. CASE UNCHANGED connections
  BY <1>4
<1>5. CASE \/ \E s \in Socket : \/ Open(s) \/ Drop(s)
                               \/ \E e \in Device : Auth(s, e) \/ Envelope(s, e)
           \/ \E e \in Device : Join(e)
           \/ WorkspaceExpires \/ EnvelopesExpire \/ UNCHANGED vars
  <2>1. UNCHANGED connections
    BY <1>5 DEF Open, Drop, Auth, Envelope, Join, WorkspaceExpires, EnvelopesExpire,
                vars
  <2> QED BY <2>1, <1>4
<1> QED BY <1>1, <1>2, <1>3, <1>5 DEF Next

(* The late close event of an older socket never cuts off a newer one.      *)
THEOREM LiveSocketIsKept == Spec => KeepsLiveSocket
<1>1. Core /\ [Next]_vars =>
        [\A d \in Device :
           IsOnline(d) /\ ready'[connections[d]] = "open"
             => \/ connections'[d] = connections[d]
                \/ \E s \in Socket :
                     connections'[d] = s /\ auth[s] # d /\ auth'[s] = d]_vars
  BY LiveStep
<1> QED BY <1>1, CoreAlways, PTL DEF Spec, KeepsLiveSocket

-----------------------------------------------------------------------------
(* Rosters.  A step either broadcasts the state it leaves, or changes       *)
(* neither who is online nor whether the state is settled, or unsettles it. *)
LEMMA BroadcastIsCurrent ==
  ASSUME TypeOK', BroadcastPresence(registered', connections', ready')
  PROVE  RosterIsCurrent'
<1> SUFFICES ASSUME NEW d \in registered', IsOnline(d)'
             PROVE  roster'[connections'[d]] = Presence(registered', connections', ready')
  BY DEF RosterIsCurrent, Presence, Online
<1>1. d \in Device /\ connections'[d] \in Socket /\ ready'[connections'[d]] = "open"
  BY DEF TypeOK, IsOnline, Online
<1> QED BY <1>1 DEF BroadcastPresence

(* Every step of the relay leaves each device with the latest roster.       *)
LEMMA RosterStep ==
  ASSUME Core, RosterIsCurrent, [Next]_vars
  PROVE  RosterIsCurrent'
<1>0. Core' /\ TypeOK' /\ TypeOK /\ Linked
  BY CoreStep DEF Core
<1>1. CASE \E s \in Socket : Open(s)
  <2> PICK s \in Socket : Open(s)
    BY <1>1
  <2>1. /\ UNCHANGED <<registered, connections, roster>>
        /\ ready' = [ready EXCEPT ![s] = "open"] /\ ready[s] = "new"
    BY DEF Open
  <2>2. \A d \in Device : connections[d] # None =>
           connections[d] \in Socket /\ ready'[connections[d]] = ready[connections[d]]
    BY <2>1, <1>0 DEF Linked, TypeOK
  <2>3. Presence(registered', connections', ready') = Presence(registered, connections, ready)
    BY <2>1, <2>2, <1>0 DEF Presence, Online, TypeOK
  <2>4. Settled' <=> Settled
    BY <2>1, <2>2, <1>0 DEF Settled, TypeOK
  <2>5. \A d \in Device : IsOnline(d)' <=> IsOnline(d)
    BY <2>1, <2>2 DEF IsOnline, Online
  <2> QED BY <2>1, <2>3, <2>4, <2>5, <1>0 DEF RosterIsCurrent, TypeOK
<1>2. CASE \E s \in Socket : Drop(s)
  <2> PICK s \in Socket : Drop(s)
    BY <1>2
  <2>1. /\ UNCHANGED <<registered, connections, roster>>
        /\ ready' = [ready EXCEPT ![s] = "closing"] /\ ready[s] = "open"
    BY DEF Drop
  <2>2. CASE \E d \in registered : connections[d] = s
    <3>1. ~Settled'
      BY <2>1, <2>2, <1>0, NoneIsNothing DEF Settled, TypeOK
    <3> QED BY <3>1 DEF RosterIsCurrent
  <2>3. CASE \A d \in registered : connections[d] # s
    <3>1. \A d \in registered : /\ IsOnline(d)' <=> IsOnline(d)
                                /\ Online(connections', ready', d)
                                      <=> Online(connections, ready, d)
      BY <2>1, <2>3, <1>0 DEF IsOnline, Online, TypeOK
    <3>2. Presence(registered', connections', ready')
            = Presence(registered, connections, ready)
      BY <2>1, <3>1 DEF Presence
    <3>3. Settled' <=> Settled
      BY <2>1, <2>3, <1>0 DEF Settled, TypeOK
    <3> QED BY <2>1, <3>1, <3>2, <3>3 DEF RosterIsCurrent
  <2> QED BY <2>2, <2>3
<1>3. CASE \E s \in Socket : Authenticated(s)
  <2>1. BroadcastPresence(registered', connections', ready')
    BY <1>3 DEF Authenticated, BroadcastPresence, Presence, Online
  <2> QED BY <2>1, <1>0, BroadcastIsCurrent
<1>4. CASE \E s \in Socket : Closed(s)
  <2> PICK s \in Socket : Closed(s)
    BY <1>4
  <2>1. CASE auth[s] = None
    <3>1. /\ UNCHANGED <<registered, connections, roster>>
          /\ ready' = [ready EXCEPT ![s] = "closed"] /\ ready[s] # "open"
      BY <2>1 DEF Closed
    <3>2. \A d \in Device : connections[d] # None =>
             connections[d] \in Socket /\ ready'[connections[d]] = ready[connections[d]]
      BY <2>1, <3>1, <1>0, NoneIsNothing DEF Linked, TypeOK
    <3>3. Presence(registered', connections', ready')
            = Presence(registered, connections, ready)
      BY <3>1, <3>2, <1>0 DEF Presence, Online, TypeOK
    <3>4. Settled' <=> Settled
      BY <3>1, <3>2, <1>0 DEF Settled, TypeOK
    <3>5. \A d \in Device : IsOnline(d)' <=> IsOnline(d)
      BY <3>1, <3>2 DEF IsOnline, Online
    <3> QED BY <3>1, <3>3, <3>4, <3>5, <1>0 DEF RosterIsCurrent, TypeOK
  <2>2. CASE auth[s] # None
    <3>1. BroadcastPresence(registered', connections', ready')
      BY <2>2 DEF Closed, BroadcastPresence, Presence, Online
    <3> QED BY <3>1, <1>0, BroadcastIsCurrent
  <2> QED BY <2>1, <2>2
<1>5. CASE \E d \in Device : Join(d) \/ Revoke(d)
  <2>1. BroadcastPresence(registered', connections', ready')
    BY <1>5 DEF Join, Revoke, BroadcastPresence, Presence, Online
  <2> QED BY <2>1, <1>0, BroadcastIsCurrent
<1>6. CASE UNCHANGED <<registered, ready, connections, roster>>
  BY <1>6 DEF RosterIsCurrent, Settled, IsOnline, Online, Presence
<1>7. CASE \/ \E s \in Socket, d \in Device : Auth(s, d) \/ Envelope(s, d)
           \/ WorkspaceExpires \/ EnvelopesExpire \/ UNCHANGED vars
  <2>1. UNCHANGED <<registered, ready, connections, roster>>
    BY <1>7 DEF Auth, Envelope, WorkspaceExpires, EnvelopesExpire, vars
  <2> QED BY <2>1, <1>6
<1> QED BY <1>1, <1>2, <1>3, <1>4, <1>5, <1>7 DEF Next

(* Unless a close event is due, every member that is online was last sent   *)
(* the roster as it is now.                                                 *)
THEOREM RostersAreCurrent == Spec => []RosterIsCurrent
<1>1. Init => RosterIsCurrent
  BY OwnerIsDevice DEF Init, RosterIsCurrent, IsOnline, Online
<1>2. Core /\ RosterIsCurrent /\ [Next]_vars => RosterIsCurrent'
  BY RosterStep
<1> QED BY <1>1, <1>2, CoreAlways, PTL DEF Spec

=============================================================================
