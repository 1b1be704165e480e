---------------------------- MODULE RosterProofs ----------------------------
(***************************************************************************)
(* For every value of the constants: Roster's type invariant, that a table *)
(* which has caught up is the roster, that no envelope of a listed member  *)
(* is given up, and that a removed device is forgotten.  The inductive     *)
(* invariant says where the latest roster is (Informed), and that behind   *)
(* every trace of a removed device its REVOKE_DEVICE is still on its way   *)
(* (Traced).                                                               *)
(***************************************************************************)
EXTENDS Roster, TLAPS

Presences == [type : {"presence"}, roster : SUBSET Peer, exposing : SUBSET Peer]
Routed    == [type : {"envelope"}, from : Peer]
               \cup [type : {"revoke"}, from : {Owner}, device : Peer]
Calls     == [type : {"put", "prune"}, roster : SUBSET Peer, exposing : SUBSET Peer]

(* What the wires and the queues hold; the relay queues only for a member   *)
(* that is away.                                                            *)
Wires ==
  /\ socket \in Seq(Presences \cup Routed)
  /\ queue \in Seq(Routed) /\ inbox \in Seq(Routed) /\ applying \in Seq(Calls)
  /\ connected => queue = <<>>
  /\ ~connected => socket = <<>>

NoRosterAfter(i) ==
  \A j \in DOMAIN socket : j > i => socket[j].type # "presence"

(* The latest roster is on its way, or being written, or in the table.      *)
Informed ==
  connected /\ ~mixed =>
    \/ \E i \in DOMAIN socket :
         socket[i] = Presence(members, exposing) /\ NoRosterAfter(i)
    \/ /\ NoRosterAfter(0) /\ applying # <<>>
       /\ applying[1].roster = members /\ applying[1].exposing = exposing
       /\ applying[1].type = "prune" =>
            members \subseteq keyed /\ offering \cap members = exposing
    \/ /\ NoRosterAfter(0) /\ applying = <<>>
       /\ devices = members /\ keyed = members /\ offering = exposing

OneCall == ~mixed => Len(applying) <= 1

(* The devices of which the member holds something, and those whose removal *)
(* it has still to read.                                                    *)
Known ==
  peerKeys \cup ratchets \cup devices
    \cup UNION {applying[i].roster : i \in DOMAIN applying}
Told == Removals(inbox) \cup Removals(socket) \cup Removals(queue)

Gone(p) == p \in Peer /\ p \notin members \cup untold \cup dropped

Traced ==
  ~mixed => \A p \in Peer : Gone(p) =>
    /\ p \in Known => p \in Told
    /\ \A i \in DOMAIN socket : socket[i].type = "presence" /\ p \in socket[i].roster =>
         \E j \in DOMAIN socket : j > i /\ socket[j].type = "revoke" /\ socket[j].device = p

(* The inductive invariant.                                                 *)
CaughtUp == Informed /\ OneCall /\ Traced
----------------------------------------------------------------------------
(* Sequences.                                                               *)

(* The elements of a sequence with one more at the end.                     *)
LEMMA AppendFacts ==
  ASSUME NEW S, NEW q \in Seq(S), NEW e \in S
  PROVE  /\ Append(q, e) \in Seq(S) /\ Append(q, e) # <<>>
         /\ Len(q) \in Nat /\ DOMAIN q = 1..Len(q)
         /\ DOMAIN Append(q, e) = 1..(Len(q) + 1)
         /\ \A i \in 1..Len(q) : Append(q, e)[i] = q[i]
         /\ Append(q, e)[Len(q) + 1] = e
OBVIOUS

(* And without its first.                                                   *)
LEMMA TailFacts ==
  ASSUME NEW S, NEW q \in Seq(S), q # <<>>
  PROVE  /\ Tail(q) \in Seq(S) /\ Head(q) \in S /\ Head(q) = q[1]
         /\ Len(q) \in Nat /\ Len(q) >= 1 /\ DOMAIN q = 1..Len(q)
         /\ DOMAIN Tail(q) = 1..(Len(q) - 1)
         /\ \A i \in 1..(Len(q) - 1) : Tail(q)[i] = q[i + 1]
OBVIOUS

(* The devices named by the removals of a sequence.                         *)
LEMMA RemovalsOf ==
  ASSUME NEW q, NEW p
  PROVE  p \in Removals(q) <=>
           \E i \in DOMAIN q : q[i].type = "revoke" /\ q[i].device = p
BY DEF Removals

(* What a queue announces it goes on announcing when it grows.              *)
LEMMA RemovalsAppend ==
  ASSUME NEW S, NEW q \in Seq(S), NEW e \in S
  PROVE  /\ Removals(q) \subseteq Removals(Append(q, e))
         /\ e.type = "revoke" => e.device \in Removals(Append(q, e))
<1>1. ASSUME NEW p \in Removals(q)
      PROVE  p \in Removals(Append(q, e))
  <2>1. PICK i \in DOMAIN q : q[i].type = "revoke" /\ q[i].device = p
    BY RemovalsOf
  <2>2. i \in DOMAIN Append(q, e) /\ Append(q, e)[i] = q[i]
    BY AppendFacts
  <2> QED BY <2>1, <2>2, RemovalsOf
<1>2. ASSUME e.type = "revoke"
      PROVE  e.device \in Removals(Append(q, e))
  <2> PICK r : r = Append(q, e)
    OBVIOUS
  <2>1. Len(q) + 1 \in DOMAIN r /\ r[Len(q) + 1] = e
    BY AppendFacts
  <2>2. \E i \in DOMAIN r : r[i].type = "revoke" /\ r[i].device = e.device
    BY <1>2, <2>1
  <2>3. e.device \in Removals(r)
    BY ONLY <2>2, RemovalsOf
  <2> QED BY <2>3
<1> QED BY <1>1, <1>2

(* Taking a message takes at most what that message announces.              *)
LEMMA RemovalsTail ==
  ASSUME NEW S, NEW q \in Seq(S), q # <<>>, NEW p \in Removals(q)
  PROVE  p \in Removals(Tail(q)) \/ (Head(q).type = "revoke" /\ Head(q).device = p)
<1>1. PICK i \in 1..Len(q) : q[i].type = "revoke" /\ q[i].device = p
  BY RemovalsOf, TailFacts
<1>2. CASE i = 1
  BY <1>1, <1>2, TailFacts
<1>3. CASE i # 1
  <2> PICK r : r = Tail(q)
    OBVIOUS
  <2>1. i - 1 \in DOMAIN r /\ r[i - 1] = q[i]
    BY <1>3, TailFacts
  <2>2. p \in Removals(r)
    BY <1>1, <2>1, RemovalsOf
  <2> QED BY <2>2
<1> QED BY <1>2, <1>3

(* A call of applyPresence that has ended.                                  *)
LEMMA WithoutFacts ==
  ASSUME NEW S, NEW q \in Seq(S), NEW i \in DOMAIN q
  PROVE  /\ Without(q, i) \in Seq(S) /\ Len(Without(q, i)) = Len(q) - 1
         /\ Len(q) \in Nat
         /\ \A j \in DOMAIN Without(q, i) : \E k \in DOMAIN q : Without(q, i)[j] = q[k]
<1>1. Len(q) \in Nat /\ DOMAIN q = 1..Len(q) /\ i \in 1..Len(q) /\ Len(q) - 1 \in Nat
  OBVIOUS
<1>2. ASSUME NEW j \in 1..(Len(q) - 1)
      PROVE  j \in DOMAIN q /\ j + 1 \in DOMAIN q /\ q[j] \in S /\ q[j + 1] \in S
  BY <1>1
<1>3. /\ Without(q, i) \in Seq(S) /\ Len(Without(q, i)) = Len(q) - 1
      /\ DOMAIN Without(q, i) = 1..(Len(q) - 1)
  BY <1>1, <1>2 DEF Without
<1>4. \A j \in 1..(Len(q) - 1) : Without(q, i)[j] = q[j] \/ Without(q, i)[j] = q[j + 1]
  BY DEF Without
<1> QED BY <1>1, <1>2, <1>3, <1>4

(* What travels: the messages of one kind are those of one type.            *)
LEMMA Messages ==
  ASSUME NEW m \in Presences \cup Routed
  PROVE  /\ m.type = "presence" => m \in Presences
         /\ m.type # "presence" => m \in Routed
         /\ m \in Presences => /\ m.type = "presence" /\ m.roster \subseteq Peer
                               /\ m.exposing \subseteq Peer
                               /\ m = Presence(m.roster, m.exposing)
         /\ m \in Routed => /\ m.type # "presence" /\ m.from \in Peer
                            /\ m.type = "revoke" => m.device \in Peer /\ m.from = Owner
BY OwnerIsPeer DEF Presences, Routed, Presence

(* Routing puts a message at the end of the way it takes.                   *)
LEMMA RouteWires ==
  ASSUME Wires, NEW m \in Routed, Route(m), connected' = connected
  PROVE  /\ socket' \in Seq(Presences \cup Routed) /\ queue' \in Seq(Routed)
         /\ connected' => queue' = <<>>
         /\ ~connected' => socket' = <<>>
<1>1. Append(queue, m) \in Seq(Routed) /\ Append(socket, m) \in Seq(Presences \cup Routed)
  BY DEF Wires
<1> QED BY <1>1 DEF Wires, Route

(* A roster goes out on the socket of a member that is connected.           *)
LEMMA BroadcastWires ==
  ASSUME Wires, members' \subseteq Peer, exposing' \subseteq Peer,
         Broadcast, connected' = connected, queue' = queue
  PROVE  /\ socket' \in Seq(Presences \cup Routed) /\ queue' \in Seq(Routed)
         /\ connected' => queue' = <<>>
         /\ ~connected' => socket' = <<>>
<1>1. Presence(members', exposing') \in Presences \cup Routed
  BY DEF Presence, Presences
<1>2. Append(socket, Presence(members', exposing')) \in Seq(Presences \cup Routed)
  BY <1>1 DEF Wires
<1> QED BY <1>2 DEF Wires, Broadcast

----------------------------------------------------------------------------
(* Type correctness.                                                        *)

(* The removals in a sequence name peers.                                   *)
LEMMA RemovalsType ==
  ASSUME NEW q \in Seq(Presences \cup Routed)
  PROVE  Removals(q) \subseteq Peer
<1> SUFFICES ASSUME NEW p \in Removals(q)
             PROVE  p \in Peer
  OBVIOUS
<1>1. PICK i \in DOMAIN q : q[i].type = "revoke" /\ q[i].device = p
  BY RemovalsOf
<1>2. q[i] \in Presences \cup Routed
  OBVIOUS
<1> QED BY <1>1, <1>2, Messages

(* What the relay does keeps the types.                                     *)
LEMMA RelayType ==
  ASSUME TypeOK, Wires, NEW p \in Peer,
         Join(p) \/ Revoke(p) \/ TellRevoked(p) \/ Send(p)
           \/ SetCapabilities(p) \/ AgentStarts(p) \/ Login \/ Disconnect
  PROVE  TypeOK' /\ Wires'
<1>1. UNCHANGED <<devices, keyed, offering, peerKeys, ratchets, unknown, mixed>>
      /\ UNCHANGED <<inbox, applying>>
  BY DEF Join, Revoke, TellRevoked, Send, SetCapabilities, AgentStarts, Advertise,
         Login, Disconnect, engine, table
<1>2. CASE Join(p) \/ Revoke(p) \/ SetCapabilities(p) \/ AgentStarts(p)
  <2>1. /\ Broadcast /\ UNCHANGED <<connected, queue, dropped>>
        /\ untold' = untold \/ untold' = untold \cup {p}
    BY <1>2 DEF Join, Revoke, SetCapabilities, AgentStarts, Advertise
  <2>2. /\ members' \subseteq Peer /\ exposing' \subseteq members' /\ Owner \in members'
        /\ exposing' \subseteq Peer
    <3>1. CASE Join(p)
      BY <3>1 DEF Join, Brought, TypeOK
    <3>2. CASE Revoke(p)
      BY <3>2 DEF Revoke, Removable, TypeOK
    <3>3. CASE SetCapabilities(p) \/ AgentStarts(p)
      BY <3>3 DEF SetCapabilities, AgentStarts, Advertise, Toggled, TypeOK
    <3> QED BY <1>2, <3>1, <3>2, <3>3
  <2>3. Wires'
    BY <1>1, <2>1, <2>2, BroadcastWires DEF Wires
  <2> QED BY <1>1, <2>1, <2>2, <2>3 DEF TypeOK
<1>3. CASE TellRevoked(p)
  <2>1. Removal(p) \in Routed
    BY OwnerIsPeer DEF Removal, Routed
  <2>2. Wires'
    BY <1>1, <1>3, <2>1, RouteWires DEF TellRevoked, Wires
  <2> QED BY <1>1, <1>3, <2>2 DEF TellRevoked, registry, TypeOK
<1>4. CASE Send(p)
  <2>1. Envelope(p) \in Routed
    BY DEF Envelope, Routed
  <2>2. Wires'
    BY <1>1, <1>4, <2>1, RouteWires DEF Send, Wires
  <2> QED BY <1>1, <1>4, <2>2 DEF Send, registry, TypeOK
<1>5. CASE Login
  <2>1. Presence(members, exposing) \in Presences
    BY DEF TypeOK, Presence, Presences
  <2>2. queue \in Seq(Presences \cup Routed)
    BY DEF Wires
  <2>3. Append(queue, Presence(members, exposing)) \in Seq(Presences \cup Routed)
    BY <2>1, <2>2
  <2>4. Wires'
    BY <1>1, <1>5, <2>3 DEF Login, Wires
  <2> QED BY <1>1, <1>5, <2>4 DEF Login, registry, TypeOK
<1>6. CASE Disconnect
  <2>1. Removals(socket) \subseteq Peer
    BY RemovalsType DEF Wires
  <2>2. Wires'
    BY <1>1, <1>6 DEF Disconnect, Wires
  <2> QED BY <1>1, <1>6, <2>1, <2>2 DEF Disconnect, registry, TypeOK
<1> QED BY <1>2, <1>3, <1>4, <1>5, <1>6

(* So does what the engine does.                                            *)
LEMMA EngineType ==
  ASSUME TypeOK, Wires, Receive \/ PutRows \/ Prune \/ Handle \/ Reload
  PROVE  TypeOK' /\ Wires'
<1>1. CASE Receive
  <2> DEFINE m == Head(socket)
             call == [m EXCEPT !.type = "put"]
  <2>1. /\ m \in Presences \cup Routed /\ Tail(socket) \in Seq(Presences \cup Routed)
        /\ Tail(socket) = <<>> \/ connected
    BY <1>1, TailFacts DEF Receive, Wires
  <2>2. CASE m.type = "presence"
    <3>1. call \in Calls
      BY <2>1, <2>2, Messages DEF Presences, Calls
    <3>2. Append(applying, call) \in Seq(Calls)
      BY <3>1 DEF Wires
    <3>3. applying' = Append(applying, call) /\ inbox' = inbox /\ socket' = Tail(socket)
          /\ mixed' \in BOOLEAN
      BY <1>1, <2>2 DEF Receive
    <3>4. \A i \in DOMAIN applying' :
            applying'[i].roster \subseteq Peer /\ applying'[i].type \in {"put", "prune"}
      <4>1. \A i \in DOMAIN applying' : applying'[i] \in Calls
        BY <3>2, <3>3
      <4> QED BY <4>1 DEF Calls
    <3>5. Wires'
      BY <1>1, <2>1, <3>2, <3>3 DEF Receive, relay, Wires
    <3> QED BY <1>1, <3>3, <3>4, <3>5 DEF Receive, registry, table, TypeOK
  <2>3. CASE m.type # "presence"
    <3>1. m \in Routed
      BY <2>1, <2>3, Messages
    <3>2. Append(inbox, m) \in Seq(Routed)
      BY <3>1 DEF Wires
    <3>3. applying' = applying /\ inbox' = Append(inbox, m) /\ socket' = Tail(socket)
          /\ mixed' = mixed
      BY <1>1, <2>3 DEF Receive
    <3>4. Wires'
      BY <1>1, <2>1, <3>2, <3>3 DEF Receive, Wires
    <3> QED BY <1>1, <3>3, <3>4 DEF Receive, registry, table, TypeOK
  <2> QED BY <2>2, <2>3
<1>2. CASE PutRows
  <2>1. PICK i \in DOMAIN applying :
          /\ devices' = Rows(applying[i].roster)
          /\ keyed' = keyed \cup (applying[i].roster \cap devices')
          /\ offering' = (offering \ applying[i].roster) \cup (applying[i].exposing \cap devices')
          /\ applying' = [applying EXCEPT ![i].type = "prune"]
    BY <1>2 DEF PutRows
  <2>2. applying[i] \in Calls /\ [applying[i] EXCEPT !.type = "prune"] \in Calls
    <3>1. applying[i] \in Calls
      BY DEF Wires
    <3> QED BY <3>1 DEF Calls
  <2>3. applying' = [applying EXCEPT ![i] = [applying[i] EXCEPT !.type = "prune"]]
    BY <2>1
  <2>4. applying' \in Seq(Calls)
    BY <2>2, <2>3 DEF Wires
  <2>5. \A j \in DOMAIN applying' :
          applying'[j].roster \subseteq Peer /\ applying'[j].type \in {"put", "prune"}
    <3>1. \A j \in DOMAIN applying' : applying'[j] \in Calls
      BY <2>4
    <3> QED BY <3>1 DEF Calls
  <2>6. Wires'
    BY <1>2, <2>4 DEF PutRows, relay, registry, Wires
  <2>7. devices' \subseteq Peer /\ keyed' \subseteq devices' /\ offering' \subseteq devices'
    BY <2>1, <2>2 DEF Rows, Calls, TypeOK
  <2> QED BY <1>2, <2>5, <2>6, <2>7 DEF PutRows, relay, registry, TypeOK
<1>3. CASE Prune
  <2>1. PICK i \in DOMAIN applying :
          /\ devices' = Kept(applying[i].roster)
          /\ keyed' = keyed \cap devices' /\ offering' = offering \cap devices'
          /\ applying' = Without(applying, i)
    BY <1>3 DEF Prune
  <2>2. applying' \in Seq(Calls)
    BY <2>1, WithoutFacts DEF Wires
  <2>3. \A j \in DOMAIN applying' :
          applying'[j].roster \subseteq Peer /\ applying'[j].type \in {"put", "prune"}
    <3>1. \A j \in DOMAIN applying' : applying'[j] \in Calls
      BY <2>2
    <3> QED BY <3>1 DEF Calls
  <2>4. Wires'
    BY <1>3, <2>2 DEF Prune, relay, registry, Wires
  <2>5. devices' \subseteq Peer /\ keyed' \subseteq devices' /\ offering' \subseteq devices'
    BY <2>1 DEF Kept, TypeOK
  <2> QED BY <1>3, <2>3, <2>4, <2>5 DEF Prune, relay, registry, TypeOK
<1>4. CASE Handle
  <2> DEFINE m == Head(inbox)
  <2>1. /\ m \in Routed /\ Tail(inbox) \in Seq(Routed) /\ inbox' = Tail(inbox)
        /\ UNCHANGED <<members, exposing, connected, socket, queue, untold, applying>>
    BY <1>4, TailFacts DEF Handle, registry, Wires
  <2>2. Wires'
    BY <2>1 DEF Wires
  <2>3. m.from \in Peer /\ (m.type = "revoke" => m.device \in Peer)
    BY <2>1, Messages
  <2>4. Removals(<<m>>) \subseteq Peer
    <3>1. <<m>> \in Seq(Presences \cup Routed)
      BY <2>1
    <3> QED BY <3>1, RemovalsType
  <2>5. CASE GivenUp(m)
    BY <2>1, <2>2, <2>3, <2>4, <2>5 DEF GivenUp, table, TypeOK
  <2>6. CASE m.type = "envelope" /\ Opened(m.from)
    BY <2>1, <2>2, <2>3, <2>6 DEF Opened, table, TypeOK
  <2>7. CASE m.type = "revoke" /\ Forget(m.from, m.device)
    <3> HIDE DEF m
    <3> QED BY <2>1, <2>2, <2>3, <2>7 DEF Forget, KeysWithout, TypeOK
  <2> QED BY <1>4, <2>5, <2>6, <2>7 DEF Handle
<1>5. CASE Reload
  <2>1. Removals(socket) \subseteq Peer /\ Removals(inbox) \subseteq Peer
    <3>1. inbox \in Seq(Presences \cup Routed)
      BY DEF Wires
    <3> QED BY <3>1, RemovalsType DEF Wires
  <2>2. Wires'
    BY <1>5 DEF Reload, Wires
  <2>3. applying' = <<>> /\ DOMAIN applying' = {}
    BY <1>5 DEF Reload
  <2> QED BY <1>5, <2>1, <2>2, <2>3 DEF Reload, registry, table, TypeOK
<1> QED BY <1>1, <1>2, <1>3, <1>4, <1>5

(* Roster's variables keep their types.                                     *)
THEOREM TypeCorrect == Spec => [](TypeOK /\ Wires)
<1>1. Init => TypeOK /\ Wires
  <2> SUFFICES ASSUME Init PROVE TypeOK /\ Wires
    OBVIOUS
  <2>1. applying = <<>> /\ DOMAIN applying = {}
    BY DEF Init
  <2>2. connected \in BOOLEAN /\ mixed \in BOOLEAN
    BY DEF Init
  <2>3. devices \subseteq Peer
    BY OwnerIsPeer DEF Init
  <2>4. TypeOK
    BY <2>1, <2>2, <2>3, OwnerIsPeer DEF Init, TypeOK
  <2>5. Wires
    BY DEF Init, Wires
  <2> QED BY <2>4, <2>5
<1>2. TypeOK /\ Wires /\ [Next]_vars => TypeOK' /\ Wires'
  <2> SUFFICES ASSUME TypeOK, Wires, [Next]_vars
               PROVE  TypeOK' /\ Wires'
    OBVIOUS
  <2>1. CASE UNCHANGED vars
    BY <2>1 DEF vars, relay, registry, engine, table, TypeOK, Wires
  <2>2. CASE Login \/ Disconnect
    BY <2>2, OwnerIsPeer, RelayType
  <2> QED BY <2>1, <2>2, RelayType, EngineType DEF Next
<1> QED BY <1>1, <1>2, PTL DEF Spec
----------------------------------------------------------------------------
(* The invariant.                                                           *)

(* What is known, as the parts that a step changes one by one.              *)
LEMMA KnownParts ==
  ASSUME NEW p
  PROVE  p \in Known <=> \/ p \in peerKeys \/ p \in ratchets \/ p \in devices
                         \/ \E i \in DOMAIN applying : p \in applying[i].roster
BY DEF Known

(* A message that arrives behind the others leaves their order as it was.   *)
LEMMA Behind ==
  ASSUME NEW S, socket \in Seq(S), NEW e \in S, socket' = Append(socket, e),
         inbox' = inbox, queue' = queue
  PROVE  /\ Len(socket) \in Nat
         /\ DOMAIN socket' = DOMAIN socket \cup {Len(socket) + 1}
         /\ \A i \in DOMAIN socket : i \in Int /\ i < Len(socket) + 1 /\ socket'[i] = socket[i]
         /\ socket'[Len(socket) + 1] = e
         /\ Told \subseteq Told'
         /\ e.type = "revoke" => e.device \in Told'
<1>1. /\ DOMAIN socket' = 1..(Len(socket) + 1) /\ DOMAIN socket = 1..Len(socket)
      /\ \A i \in 1..Len(socket) : socket'[i] = socket[i]
      /\ socket'[Len(socket) + 1] = e /\ Len(socket) \in Nat
  BY AppendFacts
<1>2. Removals(socket) \subseteq Removals(socket')
      /\ (e.type = "revoke" => e.device \in Removals(socket'))
  BY RemovalsAppend
<1>3. Removals(inbox') = Removals(inbox) /\ Removals(queue') = Removals(queue)
  OBVIOUS
<1>4. Told' = Removals(inbox') \cup Removals(socket') \cup Removals(queue')
  BY DEF Told, Removals
<1> QED BY <1>1, <1>2, <1>3, <1>4 DEF Told

(* A change of the registry: those away from it stay covered, and the       *)
(* roster that is broadcast is the latest one.                              *)
LEMMA ChangeCaughtUp ==
  ASSUME TypeOK, Wires, TypeOK', CaughtUp, Broadcast, UNCHANGED engine,
         connected' = connected, queue' = queue,
         \A p \in Peer : Gone(p)' => Gone(p)
  PROVE  CaughtUp'
<1> DEFINE e == Presence(members', exposing')
<1>1. UNCHANGED <<inbox, applying, devices, keyed, offering, peerKeys, ratchets, mixed>>
  BY DEF engine, table
<1>2. \A p : p \in Known' <=> p \in Known
  BY <1>1 DEF Known
<1>3. OneCall'
  BY <1>1 DEF CaughtUp, OneCall
<1>4. CASE ~connected
  <2>1. socket' = socket /\ socket = <<>>
    BY <1>4 DEF Broadcast, Wires
  <2>2. Told' = Told
    BY <1>1, <2>1 DEF Told, Removals
  <2>3. Informed'
    BY <1>4 DEF Informed
  <2>4. Traced'
    BY <1>1, <1>2, <2>1, <2>2 DEF CaughtUp, Traced
  <2> QED BY <1>3, <2>3, <2>4 DEF CaughtUp
<1>5. CASE connected
  <2>1. socket' = Append(socket, e) /\ e \in Presences \cup Routed
    BY <1>5 DEF Broadcast, Presence, Presences, TypeOK
  <2> HIDE DEF e
  <2>2. /\ DOMAIN socket' = DOMAIN socket \cup {Len(socket) + 1}
        /\ \A i \in DOMAIN socket : i \in Int /\ i < Len(socket) + 1 /\ socket'[i] = socket[i]
        /\ socket'[Len(socket) + 1] = e /\ Told \subseteq Told' /\ Len(socket) \in Nat
    <3>1. socket \in Seq(Presences \cup Routed)
      BY DEF Wires
    <3> QED BY <1>1, <2>1, <3>1, Behind
  <2>3. Informed'
    <3>1. \A j \in DOMAIN socket' : ~(j > Len(socket) + 1)
      BY <2>2
    <3> QED BY <2>2, <3>1 DEF Informed, NoRosterAfter, e, Presence
  <2>4. ASSUME ~mixed', NEW p \in Peer, Gone(p)'
        PROVE  /\ p \in Known' => p \in Told'
               /\ \A i \in DOMAIN socket' :
                    socket'[i].type = "presence" /\ p \in socket'[i].roster =>
                      \E j \in DOMAIN socket' :
                        j > i /\ socket'[j].type = "revoke" /\ socket'[j].device = p
    <3>1. /\ p \in Known => p \in Told
          /\ \A i \in DOMAIN socket : socket[i].type = "presence" /\ p \in socket[i].roster =>
               \E j \in DOMAIN socket : j > i /\ socket[j].type = "revoke" /\ socket[j].device = p
      BY <1>1, <2>4 DEF CaughtUp, Traced
    <3>2. p \notin e.roster
      BY <2>4 DEF Gone, e, Presence
    <3> QED BY <1>2, <2>2, <3>1, <3>2
  <2>5. Traced'
    BY <2>4 DEF Traced
  <2> QED BY <1>3, <2>3, <2>5 DEF CaughtUp
<1> QED BY <1>4, <1>5

(* The same while the relay routes a message m.                             *)
LEMMA RouteCaughtUp ==
  ASSUME TypeOK, Wires, CaughtUp, UNCHANGED engine, UNCHANGED registry,
         connected' = connected, NEW m \in Routed, Route(m),
         \A p \in Peer : Gone(p)' =>
           Gone(p) \/ (m.type = "revoke" /\ m.device = p)
  PROVE  CaughtUp'
<1>1. UNCHANGED <<inbox, applying, devices, keyed, offering, peerKeys, ratchets, mixed,
                  members, exposing>>
  BY DEF engine, table, registry
<1>2. \A p : p \in Known' <=> p \in Known
  BY <1>1 DEF Known
<1>3. OneCall'
  BY <1>1 DEF CaughtUp, OneCall
<1>4. m.type # "presence"
  BY Messages
<1>5. CASE ~connected
  <2>1. socket' = socket /\ socket = <<>> /\ queue' = Append(queue, m)
    BY <1>5 DEF Route, Wires
  <2>2. Removals(queue) \subseteq Removals(queue')
        /\ (m.type = "revoke" => m.device \in Removals(queue'))
    BY <2>1, RemovalsAppend DEF Wires
  <2>3. Told' = Removals(inbox') \cup Removals(socket') \cup Removals(queue')
    BY DEF Told, Removals
  <2>4. Told \subseteq Told' /\ (m.type = "revoke" => m.device \in Told')
    BY <1>1, <2>1, <2>2, <2>3 DEF Told
  <2>5. Informed'
    BY <1>5 DEF Informed
  <2>6. Traced'
    BY <1>1, <1>2, <2>1, <2>4 DEF CaughtUp, Traced
  <2> QED BY <1>3, <2>5, <2>6 DEF CaughtUp
<1>6. CASE connected
  <2>1. socket' = Append(socket, m) /\ queue' = queue /\ m \in Presences \cup Routed
    BY <1>6 DEF Route
  <2>2. /\ DOMAIN socket' = DOMAIN socket \cup {Len(socket) + 1}
        /\ \A i \in DOMAIN socket : i \in Int /\ i < Len(socket) + 1 /\ socket'[i] = socket[i]
        /\ socket'[Len(socket) + 1] = m /\ Told \subseteq Told' /\ Len(socket) \in Nat
        /\ m.type = "revoke" => m.device \in Told'
    <3>1. socket \in Seq(Presences \cup Routed)
      BY DEF Wires
    <3> QED BY <1>1, <2>1, <3>1, Behind
  <2>3. Informed'
    <3>1. ASSUME NEW i, NoRosterAfter(i)
          PROVE  NoRosterAfter(i)'
      BY <1>4, <2>2, <3>1 DEF NoRosterAfter
    <3>2. CASE \E i \in DOMAIN socket :
                 socket[i] = Presence(members, exposing) /\ NoRosterAfter(i)
      BY <1>1, <2>2, <3>1, <3>2 DEF Informed, Presence
    <3>3. CASE NoRosterAfter(0)
      <4>1. NoRosterAfter(0)'
        BY <3>1, <3>3
      <4> QED BY <1>1, <3>2, <4>1 DEF CaughtUp, Informed
    <3> QED BY <1>1, <1>6, <3>2, <3>3 DEF CaughtUp, Informed
  <2>4. ASSUME ~mixed', NEW p \in Peer, Gone(p)'
        PROVE  /\ p \in Known' => p \in Told'
               /\ \A i \in DOMAIN socket' :
                    socket'[i].type = "presence" /\ p \in socket'[i].roster =>
                      \E j \in DOMAIN socket' :
                        j > i /\ socket'[j].type = "revoke" /\ socket'[j].device = p
    <3>1. CASE Gone(p)
      <4>1. /\ p \in Known => p \in Told
            /\ \A i \in DOMAIN socket : socket[i].type = "presence" /\ p \in socket[i].roster =>
                 \E j \in DOMAIN socket : j > i /\ socket[j].type = "revoke" /\ socket[j].device = p
        BY <1>1, <2>4, <3>1 DEF CaughtUp, Traced
      <4> QED BY <1>2, <1>4, <2>2, <4>1
    <3>2. CASE m.type = "revoke" /\ m.device = p
      <4>1. ASSUME NEW i \in DOMAIN socket', socket'[i].type = "presence"
            PROVE  Len(socket) + 1 > i
        BY <1>4, <2>2, <4>1
      <4> QED BY <2>2, <3>2, <4>1
    <3> QED BY <2>4, <3>1, <3>2
  <2>5. Traced'
    BY <2>4 DEF Traced
  <2> QED BY <1>3, <2>3, <2>5 DEF CaughtUp
<1> QED BY <1>5, <1>6

(* The steps of the registry and of the relay.                              *)
LEMMA RelayCaughtUp ==
  ASSUME TypeOK, Wires, TypeOK', CaughtUp, NEW q \in Peer,
         Join(q) \/ Revoke(q) \/ TellRevoked(q) \/ Send(q)
           \/ SetCapabilities(q) \/ AgentStarts(q)
  PROVE  CaughtUp'
<1>1. CASE Join(q) \/ Revoke(q) \/ SetCapabilities(q) \/ AgentStarts(q)
  <2>1. /\ Broadcast /\ UNCHANGED <<engine, connected, queue, dropped>>
        /\ \/ members \subseteq members' /\ untold' = untold
           \/ members' = members \ {q} /\ untold' = untold \cup {q}
    BY <1>1 DEF Join, Revoke, SetCapabilities, AgentStarts, Advertise
  <2>2. \A p \in Peer : Gone(p)' => Gone(p)
    BY <2>1 DEF Gone
  <2> QED BY <2>1, <2>2, ChangeCaughtUp
<1>2. CASE TellRevoked(q)
  <2>1. /\ Removal(q) \in Routed /\ Removal(q).type = "revoke" /\ Removal(q).device = q
        /\ Route(Removal(q)) /\ UNCHANGED <<engine, registry, connected, dropped>>
        /\ untold' = untold \ {q}
    BY <1>2, OwnerIsPeer DEF TellRevoked, Removal, Routed
  <2>2. \A p \in Peer : Gone(p)' => Gone(p) \/ p = q
    BY <2>1 DEF Gone, registry
  <2> QED BY <2>1, <2>2, RouteCaughtUp
<1>3. CASE Send(q)
  <2>1. /\ Envelope(q) \in Routed
        /\ Route(Envelope(q)) /\ UNCHANGED <<engine, registry, connected, dropped, untold>>
    BY <1>3 DEF Send, Envelope, Routed
  <2>2. \A p \in Peer : Gone(p)' => Gone(p)
    BY <2>1 DEF Gone, registry
  <2> QED BY <2>1, <2>2, RouteCaughtUp
<1> QED BY <1>1, <1>2, <1>3

(* A login brings what was queued, and behind it the roster.                *)
LEMMA LoginCaughtUp ==
  ASSUME TypeOK, Wires, CaughtUp, Login
  PROVE  CaughtUp'
<1> PICK e : e = Presence(members, exposing)
  OBVIOUS
<1>1. /\ UNCHANGED <<inbox, applying, devices, keyed, offering, peerKeys, ratchets, mixed,
                     members, exposing, untold, dropped>>
      /\ socket' = Append(queue, e) /\ queue' = <<>> /\ socket = <<>>
  BY DEF Login, engine, table, registry, Wires
<1>2. \A p : (p \in Known' <=> p \in Known) /\ (Gone(p)' <=> Gone(p))
  BY <1>1 DEF Known, Gone
<1>3. OneCall'
  BY <1>1 DEF CaughtUp, OneCall
<1>4. queue \in Seq(Presences \cup Routed) /\ e \in Presences \cup Routed
  BY DEF Wires, TypeOK, Presence, Presences
<1>5. /\ Len(queue) \in Nat
      /\ DOMAIN socket' = 1..(Len(queue) + 1) /\ DOMAIN queue = 1..Len(queue)
      /\ \A i \in 1..Len(queue) : socket'[i] = queue[i]
      /\ socket'[Len(queue) + 1] = e
      /\ Removals(queue) \subseteq Removals(socket')
  BY <1>1, <1>4, AppendFacts, RemovalsAppend
<1>6. Informed'
  <2>1. \A j \in DOMAIN socket' : ~(j > Len(queue) + 1)
    BY <1>5
  <2>2. Len(queue) + 1 \in DOMAIN socket'
    BY <1>5
  <2> QED BY <1>1, <1>5, <2>1, <2>2 DEF Informed, NoRosterAfter, Presence
<1>7. Told \subseteq Told'
  <2>1. Removals(socket) = {}
    <3>1. DOMAIN socket = {}
      BY <1>1
    <3> QED BY <3>1 DEF Removals
  <2>2. Told' = Removals(inbox') \cup Removals(socket') \cup Removals(queue')
    BY DEF Told, Removals
  <2> QED BY <1>1, <1>5, <2>1, <2>2 DEF Told
<1>8. ASSUME ~mixed', NEW p \in Peer, Gone(p)'
      PROVE  /\ p \in Known' => p \in Told'
             /\ \A i \in DOMAIN socket' : ~(socket'[i].type = "presence" /\ p \in socket'[i].roster)
  <2>1. p \in Known => p \in Told
    BY <1>1, <1>2, <1>8 DEF CaughtUp, Traced
  <2>2. p \notin e.roster
    BY <1>2, <1>8 DEF Gone, Presence
  <2>3. \A i \in 1..Len(queue) : socket'[i].type # "presence"
    <3>1. \A i \in 1..Len(queue) : queue[i] \in Routed
      BY DEF Wires
    <3> QED BY <1>5, <3>1, Messages
  <2>4. \A i \in DOMAIN socket' : i \in 1..Len(queue) \/ i = Len(queue) + 1
    BY <1>5
  <2> QED BY <1>2, <1>5, <1>7, <2>1, <2>2, <2>3, <2>4
<1>9. Traced'
  BY <1>8 DEF Traced
<1> QED BY <1>3, <1>6, <1>9 DEF CaughtUp

(* What a lost connection or a reload takes away is recorded.               *)
LEMMA LossCaughtUp ==
  ASSUME TypeOK, Wires, CaughtUp, Disconnect \/ Reload
  PROVE  CaughtUp'
<1>1. /\ UNCHANGED <<queue, devices, keyed, offering, ratchets, mixed, members, exposing, untold>>
      /\ peerKeys' \subseteq peerKeys
      /\ ~connected' /\ socket' = <<>>
      /\ \/ /\ inbox' = inbox /\ applying' = applying
            /\ dropped' = dropped \cup Removals(socket)
         \/ /\ inbox' = <<>> /\ applying' = <<>>
            /\ dropped' = dropped \cup Removals(socket) \cup Removals(inbox)
  BY DEF Disconnect, Reload, engine, table, registry
<1>2. Informed'
  BY <1>1 DEF Informed
<1>3. OneCall'
  BY <1>1 DEF CaughtUp, OneCall
<1>4. \A p : p \in Known' => p \in Known
  <2>1. \A p : p \in Known' <=> \/ p \in peerKeys' \/ p \in ratchets' \/ p \in devices'
                                \/ \E i \in DOMAIN applying' : p \in applying'[i].roster
    BY DEF Known
  <2>2. \A p : (\E i \in DOMAIN applying' : p \in applying'[i].roster) =>
               \E i \in DOMAIN applying : p \in applying[i].roster
    BY <1>1
  <2> QED BY <1>1, <2>1, <2>2, KnownParts
<1>5. ASSUME ~mixed', NEW p \in Peer, Gone(p)'
      PROVE  /\ p \in Known' => p \in Told'
             /\ DOMAIN socket' = {}
  <2>1. Gone(p) /\ p \notin Removals(socket) /\ (inbox' = inbox \/ p \notin Removals(inbox))
    BY <1>1, <1>5 DEF Gone
  <2>2. p \in Known => p \in Told
    BY <1>1, <1>5, <2>1 DEF CaughtUp, Traced
  <2>3. Told' = Removals(inbox') \cup Removals(socket') \cup Removals(queue')
    BY DEF Told, Removals
  <2> QED BY <1>1, <1>4, <2>1, <2>2, <2>3 DEF Told
<1>6. Traced'
  BY <1>5 DEF Traced
<1> QED BY <1>2, <1>3, <1>6 DEF CaughtUp

(* The first message of the socket is read.                                 *)
LEMMA ReceiveCaughtUp ==
  ASSUME TypeOK, Wires, CaughtUp, Receive
  PROVE  CaughtUp'
<1> PICK m : m = Head(socket)
  OBVIOUS
<1> PICK call : call = [m EXCEPT !.type = "put"]
  OBVIOUS
<1>1. /\ UNCHANGED <<connected, queue, devices, keyed, offering, peerKeys, ratchets,
                     members, exposing, untold, dropped>>
      /\ socket # <<>> /\ socket' = Tail(socket) /\ (mixed => mixed')
      /\ m.type = "presence" => /\ applying' = Append(applying, call) /\ inbox' = inbox
                                /\ mixed' = (mixed \/ applying # <<>>)
      /\ m.type # "presence" => inbox' = Append(inbox, m) /\ applying' = applying
  BY DEF Receive, table, registry
<1>2. socket \in Seq(Presences \cup Routed) /\ applying \in Seq(Calls)
      /\ inbox \in Seq(Routed)
  BY DEF Wires
<1>3. /\ m \in Presences \cup Routed /\ m = socket[1] /\ 1 \in DOMAIN socket
      /\ Len(socket) \in Nat /\ DOMAIN socket = 1..Len(socket)
      /\ DOMAIN socket' = 1..(Len(socket) - 1)
      /\ \A i \in 1..(Len(socket) - 1) : socket'[i] = socket[i + 1]
  BY <1>1, <1>2, TailFacts
<1>4. \A i \in DOMAIN socket : i = 1 \/ (i - 1 \in DOMAIN socket' /\ socket'[i - 1] = socket[i])
  BY <1>3
<1>5. \A i \in DOMAIN socket' : i \in Int /\ i + 1 \in DOMAIN socket /\ socket'[i] = socket[i + 1]
  BY <1>3
<1>6. \A p : Gone(p)' <=> Gone(p)
  BY <1>1 DEF Gone
<1>7. \A i \in DOMAIN socket : i \in Int
  BY <1>3
<1>8. ASSUME NEW i \in Int, NoRosterAfter(i + 1)
      PROVE  NoRosterAfter(i)'
  BY <1>5, <1>8 DEF NoRosterAfter
<1>9. ASSUME NEW i \in DOMAIN socket, i # 1, socket[i] = Presence(members, exposing),
             NoRosterAfter(i)
      PROVE  Informed'
  <2>1. i - 1 \in DOMAIN socket' /\ socket'[i - 1] = Presence(members, exposing) /\ i - 1 \in Int
    BY <1>4, <1>7, <1>9
  <2>2. NoRosterAfter(i - 1)'
    <3>1. (i - 1) + 1 = i
      BY <1>7
    <3> QED BY <1>8, <1>9, <2>1, <3>1
  <2> QED BY <1>1, <2>1, <2>2 DEF Informed, Presence
<1>10. ASSUME ~mixed', NEW p \in Peer, Gone(p)
       PROVE  \A i \in DOMAIN socket' :
                socket'[i].type = "presence" /\ p \in socket'[i].roster =>
                  \E j \in DOMAIN socket' :
                    j > i /\ socket'[j].type = "revoke" /\ socket'[j].device = p
  <2> SUFFICES ASSUME NEW i \in DOMAIN socket',
                      socket'[i].type = "presence", p \in socket'[i].roster
               PROVE  \E j \in DOMAIN socket' :
                        j > i /\ socket'[j].type = "revoke" /\ socket'[j].device = p
    OBVIOUS
  <2>1. PICK j \in DOMAIN socket : j > i + 1 /\ socket[j].type = "revoke" /\ socket[j].device = p
    BY <1>1, <1>5, <1>10 DEF CaughtUp, Traced
  <2>2. i \in Int /\ i >= 1 /\ j \in Int
    BY <1>3, <1>5, <1>7
  <2>3. j # 1 /\ j - 1 > i
    BY <2>1, <2>2
  <2> QED BY <1>4, <2>1, <2>3
<1>11. Told' = Removals(inbox') \cup Removals(socket') \cup Removals(queue')
  BY DEF Told, Removals
<1>12. \A p \in Removals(socket) :
         p \in Removals(socket') \/ (m.type = "revoke" /\ m.device = p)
  BY <1>1, <1>2, RemovalsTail
<1>13. CASE m.type = "presence"
  <2>1. m \in Presences /\ call \in Calls /\ call.roster = m.roster
        /\ call.exposing = m.exposing /\ call.type = "put"
    BY <1>3, <1>13, Messages DEF Presences, Calls
  <2>2. OneCall' /\ (~mixed' => /\ ~mixed /\ applying = <<>> /\ applying' # <<>>
                                /\ applying'[1] = call
                                /\ DOMAIN applying' = {1})
    <3>1. ~mixed' => ~mixed /\ applying = <<>>
      BY <1>1, <1>13
    <3>2. applying' = Append(applying, call)
      BY <1>1, <1>13
    <3>3. ASSUME applying = <<>>
          PROVE  /\ Len(applying') <= 1 /\ applying' # <<>>
                 /\ applying'[1] = call /\ DOMAIN applying' = {1}
      <4> PICK one : one = <<call>>
        OBVIOUS
      <4>1. applying' = one
        BY <3>2, <3>3
      <4>2. Len(one) <= 1 /\ one[1] = call /\ DOMAIN one = {1} /\ one # <<>>
        OBVIOUS
      <4> QED BY ONLY <4>1, <4>2
    <3>4. ~mixed' => Len(applying') <= 1
      BY <3>1, <3>3
    <3>5. OneCall'
      BY ONLY <3>4 DEF OneCall
    <3> QED BY <3>1, <3>3, <3>5
  <2>3. ~NoRosterAfter(0)
    BY <1>3, <1>13 DEF NoRosterAfter
  <2>4. Informed'
    <3> SUFFICES ASSUME connected, ~mixed' PROVE Informed'
      BY <1>1 DEF Informed
    <3>1. PICK i \in DOMAIN socket : socket[i] = Presence(members, exposing) /\ NoRosterAfter(i)
      BY <2>2, <2>3 DEF CaughtUp, Informed
    <3>2. CASE i = 1
      <4>1. NoRosterAfter(0)'
        <5>1. NoRosterAfter(0 + 1)
          BY <3>1, <3>2
        <5> QED BY <1>8, <5>1
      <4>2. call.roster = members /\ call.exposing = exposing
        BY <1>3, <2>1, <3>1, <3>2 DEF Presence
      <4> QED BY <1>1, <2>1, <2>2, <4>1, <4>2 DEF Informed
    <3> QED BY <1>9, <3>1, <3>2
  <2>5. ASSUME ~mixed', NEW p \in Peer, Gone(p)', p \in Known'
        PROVE  p \in Told'
    <3>1. \/ p \in peerKeys \/ p \in ratchets \/ p \in devices
          \/ p \in call.roster
      <4>1. \/ p \in peerKeys' \/ p \in ratchets' \/ p \in devices'
            \/ \E i \in DOMAIN applying' : p \in applying'[i].roster
        BY <2>5 DEF Known
      <4> QED BY <1>1, <2>2, <2>5, <4>1
    <3>2. CASE p \in call.roster
      <4>1. PICK j \in DOMAIN socket : j > 1 /\ socket[j].type = "revoke" /\ socket[j].device = p
        BY <1>3, <1>6, <1>13, <2>1, <2>2, <2>5, <3>2 DEF CaughtUp, Traced
      <4>2. j - 1 \in DOMAIN socket' /\ socket'[j - 1] = socket[j]
        BY <1>4, <1>7, <4>1
      <4>3. p \in Removals(socket')
        BY <4>1, <4>2 DEF Removals
      <4> QED BY <1>11, <4>3
    <3>3. CASE p \notin call.roster
      <4>1. p \in Known
        BY <3>1, <3>3, KnownParts
      <4>2. p \in Told
        BY <1>6, <2>2, <2>5, <4>1 DEF CaughtUp, Traced
      <4> QED BY <1>1, <1>11, <1>12, <1>13, <4>2 DEF Told
    <3> QED BY <3>2, <3>3
  <2>6. Traced'
    BY <1>6, <1>10, <2>5 DEF Traced
  <2> QED BY <2>2, <2>4, <2>6 DEF CaughtUp
<1>14. CASE m.type # "presence"
  <2>1. m \in Routed
    BY <1>3, <1>14, Messages
  <2>2. inbox' = Append(inbox, m) /\ applying' = applying /\ mixed' = mixed
    BY <1>14 DEF Receive
  <2>3. OneCall'
    BY <2>2 DEF CaughtUp, OneCall
  <2>4. Informed'
    <3>1. CASE \E i \in DOMAIN socket :
                 socket[i] = Presence(members, exposing) /\ NoRosterAfter(i)
      <4>1. PICK i \in DOMAIN socket : socket[i] = Presence(members, exposing) /\ NoRosterAfter(i)
        BY <3>1
      <4>2. i # 1
        BY <1>3, <1>14, <4>1 DEF Presence
      <4> QED BY <1>9, <4>1, <4>2
    <3>2. CASE NoRosterAfter(0)
      <4>1. NoRosterAfter(0 + 1)
        BY <1>7, <3>2 DEF NoRosterAfter
      <4>2. NoRosterAfter(0)'
        BY <1>8, <4>1
      <4> QED BY <1>1, <1>9, <2>2, <3>1, <4>2 DEF CaughtUp, Informed
    <3> QED BY <1>1, <2>2, <3>1, <3>2 DEF CaughtUp, Informed
  <2>5. Told \subseteq Told'
    <3>1. Removals(inbox) \subseteq Removals(inbox')
          /\ (m.type = "revoke" => m.device \in Removals(inbox'))
      BY <1>2, <2>1, <2>2, RemovalsAppend
    <3> QED BY <1>1, <1>11, <1>12, <3>1 DEF Told
  <2>6. \A p : p \in Known' <=> p \in Known
    BY <1>1, <2>2 DEF Known
  <2>7. Traced'
    BY <1>6, <1>10, <2>2, <2>5, <2>6 DEF CaughtUp, Traced
  <2> QED BY <2>3, <2>4, <2>7 DEF CaughtUp
<1> QED BY <1>13, <1>14

(* Of the one call in progress, its two writes.                             *)
LEMMA WriteCaughtUp ==
  ASSUME TypeOK, Wires, CaughtUp, PutRows \/ Prune
  PROVE  CaughtUp'
<1>1. /\ UNCHANGED <<members, exposing, connected, socket, queue, untold, dropped,
                     inbox, peerKeys, ratchets, mixed>>
  BY DEF PutRows, Prune, relay, registry
<1>2. applying \in Seq(Calls) /\ Len(applying) \in Nat /\ DOMAIN applying = 1..Len(applying)
  BY DEF Wires
<1>3. PICK i \in DOMAIN applying :
        \/ /\ applying[i].type = "put"
           /\ devices' = Rows(applying[i].roster)
           /\ keyed' = keyed \cup (applying[i].roster \cap devices')
           /\ offering' = (offering \ applying[i].roster) \cup (applying[i].exposing \cap devices')
           /\ applying' = [applying EXCEPT ![i].type = "prune"]
        \/ /\ applying[i].type = "prune"
           /\ devices' = Kept(applying[i].roster)
           /\ keyed' = keyed \cap devices' /\ offering' = offering \cap devices'
           /\ applying' = Without(applying, i)
  BY DEF PutRows, Prune
<1>4. applying[i] \in Calls /\ i \in Int
  BY <1>2
<1>5. ~mixed => i = 1 /\ Len(applying) = 1 /\ applying # <<>>
  BY <1>2 DEF CaughtUp, OneCall
<1>6. \A p : (Gone(p)' <=> Gone(p)) /\ (p \in Told' <=> p \in Told)
  BY <1>1 DEF Gone, Told, Removals
<1>7. \A p : NoRosterAfter(p)' <=> NoRosterAfter(p)
  BY <1>1 DEF NoRosterAfter
<1>8. CASE applying' = [applying EXCEPT ![i].type = "prune"] /\ applying[i].type = "put"
  <2>1. /\ devices' = devices \cup applying[i].roster
        /\ keyed' = keyed \cup applying[i].roster
        /\ offering' = (offering \ applying[i].roster) \cup (applying[i].exposing \cap devices')
    BY <1>3, <1>8 DEF Rows
  <2>2. /\ DOMAIN applying' = DOMAIN applying /\ Len(applying') = Len(applying)
        /\ \A j \in DOMAIN applying : applying'[j].roster = applying[j].roster
        /\ applying'[i].type = "prune" /\ applying'[i].exposing = applying[i].exposing
    <3>1. applying' = [applying EXCEPT ![i] = [applying[i] EXCEPT !.type = "prune"]]
      BY <1>8
    <3>2. [applying[i] EXCEPT !.type = "prune"] \in Calls
      BY <1>4 DEF Calls
    <3>3. /\ [applying[i] EXCEPT !.type = "prune"].roster = applying[i].roster
          /\ [applying[i] EXCEPT !.type = "prune"].exposing = applying[i].exposing
          /\ [applying[i] EXCEPT !.type = "prune"].type = "prune"
      BY <1>4 DEF Calls
    <3> QED BY <1>2, <3>1, <3>2, <3>3
  <2>3. OneCall'
    BY <1>1, <2>2 DEF CaughtUp, OneCall
  <2>4. Informed'
    <3> SUFFICES ASSUME connected, ~mixed PROVE Informed'
      BY <1>1 DEF Informed
    <3>1. CASE /\ NoRosterAfter(0)
               /\ applying[1].roster = members /\ applying[1].exposing = exposing
      <4>1. applying' # <<>>
        BY <1>5, <2>2
      <4>2. /\ applying'[1].roster = members /\ applying'[1].exposing = exposing
            /\ members \subseteq keyed' /\ offering' \cap members = exposing
        BY <1>5, <2>1, <2>2, <3>1 DEF TypeOK
      <4> QED BY <1>1, <1>7, <3>1, <4>1, <4>2 DEF Informed
    <3> QED BY <1>1, <1>5, <1>7, <3>1 DEF CaughtUp, Informed, Presence
  <2>5. \A p : p \in Known' => p \in Known
    BY <1>1, <2>1, <2>2 DEF Known
  <2>6. Traced'
    BY <1>1, <1>6, <2>5 DEF CaughtUp, Traced
  <2> QED BY <2>3, <2>4, <2>6 DEF CaughtUp
<1>9. CASE applying' = Without(applying, i) /\ applying[i].type = "prune"
  <2>1. /\ devices' = devices \cap applying[i].roster
        /\ keyed' = keyed \cap devices' /\ offering' = offering \cap devices'
    BY <1>3, <1>9 DEF Kept
  <2>2. /\ applying' \in Seq(Calls) /\ Len(applying') = Len(applying) - 1
        /\ \A j \in DOMAIN applying' : \E k \in DOMAIN applying : applying'[j] = applying[k]
    <3>1. /\ Without(applying, i) \in Seq(Calls) /\ Len(Without(applying, i)) = Len(applying) - 1
          /\ \A j \in DOMAIN Without(applying, i) :
               \E k \in DOMAIN applying : Without(applying, i)[j] = applying[k]
      BY <1>2, WithoutFacts, ZenonT(30)
    <3> QED BY <1>9, <3>1
  <2>3. OneCall' /\ (~mixed => applying' = <<>>)
    BY <1>1, <1>2, <1>5, <2>2 DEF CaughtUp, OneCall
  <2>4. Informed'
    <3> SUFFICES ASSUME connected, ~mixed PROVE Informed'
      BY <1>1 DEF Informed
    <3>1. CASE /\ NoRosterAfter(0)
               /\ applying[1].roster = members /\ applying[1].exposing = exposing
               /\ members \subseteq keyed /\ offering \cap members = exposing
      <4>1. devices' = members /\ keyed' = members /\ offering' = exposing
        BY <1>5, <2>1, <3>1 DEF TypeOK
      <4> QED BY <1>1, <1>7, <2>3, <3>1, <4>1 DEF Informed
    <3> QED BY <1>1, <1>5, <1>7, <1>9, <3>1 DEF CaughtUp, Informed, Presence
  <2>5. \A p : p \in Known' => p \in Known
    BY <1>1, <2>1, <2>2 DEF Known
  <2>6. Traced'
    BY <1>1, <1>6, <2>5 DEF CaughtUp, Traced
  <2> QED BY <2>3, <2>4, <2>6 DEF CaughtUp
<1> QED BY <1>3, <1>8, <1>9

(* An envelope brings back no keys that a removal has not still to clear.   *)
LEMMA HandleCaughtUp ==
  ASSUME TypeOK, Wires, CaughtUp, Handle
  PROVE  CaughtUp'
<1> PICK m : m = Head(inbox)
  OBVIOUS
<1>1. /\ UNCHANGED <<members, exposing, connected, socket, queue, untold, applying>>
      /\ inbox' = Tail(inbox) /\ inbox # <<>>
      /\ \/ GivenUp(m)
         \/ m.type = "envelope" /\ Opened(m.from)
         \/ m.type = "revoke" /\ Forget(m.from, m.device)
  BY DEF Handle, registry
<1>2. m \in Routed /\ m.from \in Peer /\ (m.type = "revoke" => m.device \in Peer /\ m.from = Owner)
  BY <1>1, TailFacts, Messages DEF Wires
<1>3. \A p : p \in Removals(inbox) =>
        p \in Removals(inbox') \/ (m.type = "revoke" /\ m.device = p)
  BY <1>1, RemovalsTail DEF Wires
<1>4. \A p : p \in Told => p \in Told' \/ (m.type = "revoke" /\ m.device = p)
  <2>1. Told' = Removals(inbox') \cup Removals(socket') \cup Removals(queue')
    BY DEF Told, Removals
  <2> QED BY <1>1, <1>3, <2>1 DEF Told
<1>5. \A p : NoRosterAfter(p)' <=> NoRosterAfter(p)
  BY <1>1 DEF NoRosterAfter
<1>6. \A p : p \in Known' <=> \/ p \in peerKeys' \/ p \in ratchets' \/ p \in devices'
                              \/ \E i \in DOMAIN applying : p \in applying[i].roster
  BY <1>1 DEF Known
<1>7. CASE GivenUp(m)
  <2>1. /\ UNCHANGED <<devices, keyed, offering, ratchets, mixed>>
        /\ dropped' = dropped \cup Removals(<<m>>)
        /\ peerKeys' \subseteq peerKeys \cup {p \in {m.from} : KeyFor(p)}
    BY <1>7 DEF GivenUp, table
  <2>2. m.type = "revoke" => m.device \in Removals(<<m>>)
    <3>1. DOMAIN <<m>> = {1} /\ <<m>>[1] = m
      OBVIOUS
    <3> QED BY <3>1 DEF Removals
  <2>3. \A p : p \in Known' => p \in Known
    BY <1>6, <2>1, KnownParts DEF KeyFor
  <2>4. \A p : Gone(p)' => Gone(p) /\ ~(m.type = "revoke" /\ m.device = p)
    BY <1>1, <2>1, <2>2 DEF Gone
  <2>5. OneCall' /\ Informed'
    BY <1>1, <1>5, <2>1 DEF CaughtUp, OneCall, Informed, Presence
  <2>6. Traced'
    BY <1>1, <1>4, <2>1, <2>3, <2>4 DEF CaughtUp, Traced
  <2> QED BY <2>5, <2>6 DEF CaughtUp
<1>8. CASE m.type = "envelope" /\ Opened(m.from)
  <2>1. /\ UNCHANGED <<devices, keyed, offering, mixed, dropped>>
        /\ KeyFor(m.from)
        /\ peerKeys' = peerKeys \cup {m.from} /\ ratchets' = ratchets \cup {m.from}
    BY <1>8 DEF Opened, table
  <2>2. m.from \in Known
    BY <2>1, KnownParts DEF KeyFor
  <2>3. \A p : p \in Known' => p \in Known
    BY <1>6, <2>1, <2>2, KnownParts
  <2>4. \A p : Gone(p)' => Gone(p)
    BY <1>1, <2>1 DEF Gone
  <2>5. OneCall' /\ Informed'
    BY <1>1, <1>5, <2>1 DEF CaughtUp, OneCall, Informed, Presence
  <2>6. Traced'
    BY <1>1, <1>4, <1>8, <2>1, <2>3, <2>4 DEF CaughtUp, Traced
  <2> QED BY <2>5, <2>6 DEF CaughtUp
<1>9. CASE m.type = "revoke" /\ Forget(m.from, m.device)
  <2>1. /\ dropped' = dropped /\ m.from = Owner /\ devices' = devices \ {m.device}
        /\ keyed' = keyed \ {m.device} /\ offering' = offering \ {m.device}
        /\ peerKeys' = (peerKeys \cup {Owner}) \ {m.device}
        /\ ratchets' = (ratchets \cup {Owner}) \ {m.device}
        /\ mixed' = (mixed \/ m.device \in members \/ applying # <<>>)
    BY <1>2, <1>9 DEF Forget, KeysWithout
  <2>2. OneCall'
    BY <1>1, <2>1 DEF CaughtUp, OneCall
  <2>3. Informed'
    <3> SUFFICES ASSUME connected, ~mixed' PROVE Informed'
      BY <1>1 DEF Informed
    <3>1. ~mixed /\ m.device \notin members /\ applying = <<>>
      BY <2>1
    <3>2. CASE \E i \in DOMAIN socket :
                 socket[i] = Presence(members, exposing) /\ NoRosterAfter(i)
      BY <1>1, <1>5, <3>2 DEF Informed, Presence
    <3>3. CASE NoRosterAfter(0) /\ devices = members /\ keyed = members /\ offering = exposing
      <4>1. devices' = members /\ keyed' = members /\ offering' = exposing
        BY <2>1, <3>1, <3>3 DEF TypeOK
      <4> QED BY <1>1, <1>5, <3>1, <3>3, <4>1 DEF Informed
    <3> QED BY <3>1, <3>2, <3>3 DEF CaughtUp, Informed
  <2>4. ASSUME ~mixed', NEW p \in Peer, Gone(p)', p \in Known'
        PROVE  p \in Told'
    <3>1. ~mixed /\ applying = <<>> /\ DOMAIN applying = {}
      <4>1. ~mixed /\ applying = <<>>
        BY <2>1, <2>4
      <4>2. DOMAIN applying = {}
        BY ONLY <4>1
      <4> QED BY <4>1, <4>2
    <3>2. Gone(p) /\ p # Owner
      BY <1>1, <2>1, <2>4 DEF Gone, TypeOK
    <3>3. p # m.device /\ p \in Known
      BY <1>6, <2>1, <2>4, <3>1, <3>2, KnownParts
    <3>4. p \in Told
      BY <3>1, <3>2, <3>3 DEF CaughtUp, Traced
    <3> QED BY <1>4, <3>3, <3>4
  <2>5. ~mixed' => ~mixed
    BY <2>1
  <2>6. \A p : Gone(p)' => Gone(p)
    BY <1>1, <2>1 DEF Gone
  <2>7. Traced'
    BY <1>1, <2>4, <2>5, <2>6 DEF CaughtUp, Traced
  <2> QED BY <2>2, <2>3, <2>7 DEF CaughtUp
<1> QED BY <1>1, <1>7, <1>8, <1>9

(* The invariant holds.                                                     *)
THEOREM CaughtUpAlways == Spec => []CaughtUp
<1>1. Init => CaughtUp
  <2> SUFFICES ASSUME Init PROVE CaughtUp
    OBVIOUS
  <2>1. /\ members = {Owner} /\ connected = FALSE /\ mixed = FALSE
        /\ socket = <<>> /\ applying = <<>> /\ devices \in {{Owner}, {}}
        /\ peerKeys = {} /\ ratchets = {}
    BY DEF Init
  <2>2. DOMAIN socket = {} /\ DOMAIN applying = {} /\ Len(applying) = 0
    BY <2>1
  <2>3. \A p : p \in Known => p \in members
    BY <2>1, <2>2, KnownParts
  <2> QED BY <2>1, <2>2, <2>3 DEF CaughtUp, Informed, OneCall, Traced, Gone
<1>2. TypeOK /\ Wires /\ TypeOK' /\ CaughtUp /\ [Next]_vars => CaughtUp'
  <2> SUFFICES ASSUME TypeOK, Wires, TypeOK', CaughtUp, [Next]_vars
               PROVE  CaughtUp'
    OBVIOUS
  <2>1. CASE UNCHANGED vars
    BY <2>1 DEF vars, relay, registry, engine, table, CaughtUp, Informed, OneCall, Traced,
                Presence, NoRosterAfter, Gone, Known, Told, Removals
  <2> QED BY <2>1, RelayCaughtUp, LoginCaughtUp, LossCaughtUp, ReceiveCaughtUp, WriteCaughtUp,
             HandleCaughtUp DEF Next
<1> QED BY <1>1, <1>2, TypeCorrect, PTL DEF Spec
----------------------------------------------------------------------------
(* The properties.                                                          *)

(* When every roster has been applied, the table of a connected member has  *)
(* exactly the members of the workspace, each with its keys and with what   *)
(* it advertises, however joins, revocations, losses of the connection and  *)
(* the two writes of applyPresence interleaved (and unless two rosters were *)
(* applied at once).                                                        *)
THEOREM TableIsCurrent == Spec => []TableIsRoster
<1>1. Wires /\ CaughtUp => TableIsRoster
  <2> SUFFICES ASSUME CaughtUp, UpToDate
               PROVE  devices = members /\ keyed = members /\ offering = exposing
    BY DEF TableIsRoster
  <2>1. DOMAIN socket = {} /\ applying = <<>>
    BY DEF UpToDate
  <2> QED BY <2>1 DEF CaughtUp, Informed, UpToDate
<1> QED BY <1>1, CaughtUpAlways, TypeCorrect, PTL

(* A member that has caught up holds the signature key and the session of   *)
(* no removed device, unless it was never told or the message was lost or   *)
(* could not be opened: no envelope of the removed device that was on its   *)
(* way can bring them back.                                                 *)
THEOREM RemovedAreForgotten == Spec => []RevokedIsForgotten
<1>1. TypeOK /\ Wires /\ CaughtUp => RevokedIsForgotten
  <2> SUFFICES ASSUME TypeOK, Wires, CaughtUp, UpToDate, NEW p \in peerKeys \cup ratchets
               PROVE  p \in members \cup untold \cup dropped
    BY DEF RevokedIsForgotten
  <2>1. p \in Peer /\ p \in Known
    BY KnownParts DEF TypeOK
  <2>2. inbox = <<>> /\ socket = <<>> /\ queue = <<>> /\ ~mixed
    BY DEF UpToDate, Wires
  <2>3. DOMAIN inbox = {} /\ DOMAIN socket = {} /\ DOMAIN queue = {}
    BY <2>2
  <2>4. p \notin Told
    BY <2>3 DEF Told, Removals
  <2> QED BY <2>1, <2>2, <2>4 DEF CaughtUp, Traced, Gone
<1> QED BY <1>1, CaughtUpAlways, TypeCorrect, PTL

(* No step of a connected member gives up the envelope of a sender that is  *)
(* still listed, unless a roster with that sender is on its way or being    *)
(* written, or two rosters were applied at once.                            *)
THEOREM UnknownAreUnlisted == Spec => UnknownOnlyUnlisted
<1> DEFINE Excused(p) ==
      \/ p \notin members \/ mixed \/ ~connected
      \/ \E i \in DOMAIN applying : p \in applying[i].roster
      \/ \E i \in DOMAIN socket :
           socket[i].type = "presence" /\ p \in socket[i].roster
<1>1. TypeOK /\ Wires /\ CaughtUp /\ [Next]_vars => [\A p \in unknown' \ unknown : Excused(p)]_vars
  <2> SUFFICES ASSUME TypeOK, Wires, CaughtUp, Next, NEW p \in unknown' \ unknown,
                      connected, ~mixed, p \in members
               PROVE  Excused(p)
    OBVIOUS
  <2>1. unknown' # unknown
    OBVIOUS
  <2>2. Handle
    BY <2>1 DEF Next, Join, Revoke, TellRevoked, Send, SetCapabilities, AgentStarts, Advertise,
                Login, Disconnect, Receive, PutRows, Prune, Reload, engine
  <2> PICK m : m = Head(inbox)
    OBVIOUS
  <2>3. GivenUp(m)
    BY <2>1, <2>2 DEF Handle, Opened, Forget
  <2>4. p = m.from /\ ~(p \in devices /\ p \in keyed)
    BY <2>3 DEF GivenUp, KeyFor, SessionFor
  <2>5. CASE \E i \in DOMAIN socket :
               socket[i] = Presence(members, exposing) /\ NoRosterAfter(i)
    BY <2>5 DEF Presence
  <2>6. CASE applying # <<>> /\ applying[1].roster = members
    <3>1. 1 \in DOMAIN applying
      BY <2>6 DEF Wires
    <3> QED BY <2>6, <3>1
  <2>7. CASE keyed = members
    BY <2>4, <2>7 DEF TypeOK
  <2> QED BY <2>5, <2>6, <2>7 DEF CaughtUp, Informed
<1> QED BY <1>1, CaughtUpAlways, TypeCorrect, PTL DEF Spec, UnknownOnlyUnlisted
=============================================================================
