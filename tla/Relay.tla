------------------------------- MODULE Relay -------------------------------
(***************************************************************************)
(* The relay server for one workspace (apps/server/src/relay.ts) with the  *)
(* membership routes that act on it (workspaces.ts, registry.ts): sockets, *)
(* authentication, routing, the store-and-forward queues, presence and     *)
(* revocation.                                                             *)
(*                                                                         *)
(* Handlers run to their first await without interruption.  The one await  *)
(* is the signature check of "auth": what was read before it (membership,  *)
(* the socket being open) may be stale when it ends.  A socket that is not *)
(* open takes what is sent on it without an error, and loses it.           *)
(*                                                                         *)
(* Envelopes are numbered in the order the relay routes them; payload and  *)
(* sender are left out, since routing reads only the recipient.            *)
(***************************************************************************)
EXTENDS Integers, Sequences

CONSTANTS
  Device, Owner,     (* devices, and the one that owns the workspace         *)
  Socket,            (* every socket that is ever opened                     *)
  None,              (* no device, no socket or no roster                    *)
  MaxQueue,          (* MAX_QUEUE_PER_DEVICE                                 *)
  Expiring,          (* numbers of the envelopes that carry an expiry time   *)
  MaxEnvelopes       (* bound: envelopes routed                              *)

ASSUME OwnerIsDevice == Owner \in Device
ASSUME NoneIsNothing == None \notin Device /\ None \notin Socket
ASSUME NumbersAreNat == MaxQueue \in Nat /\ MaxEnvelopes \in Nat

VARIABLES
  registered,   \* devices in the registry
  expired,      \* the workspace's expiry time has passed
  ready,        \* ready[s]: readyState of s, and whether it can still speak
  claim,        \* claim[s]: the device whose signature is being checked
  auth,         \* auth[s]: state.deviceId of s
  connections,  \* connections[d]: the socket d is reached on
  queues,       \* queues[d]: envelopes held for d
  roster,       \* roster[s]: the last presence sent on s
  late,         \* the expiry time of the expiring envelopes has passed
  routed,       \* how many envelopes were routed
  handed,       \* history: handed[d], envelopes taken for d with its socket
                \* open, and sent on it unless they are dropped
  dropped       \* history: envelopes given up as the documents say

vars == <<registered, expired, ready, claim, auth, connections, queues, roster,
          late, routed, handed, dropped>>

(* "new": not opened yet; "kicked": closed by the relay, messages that were *)
(* under way still come in; "closing": gone, the close event is still due.  *)
ReadyState == {"new", "open", "kicked", "closing", "closed"}

Online(conn, rdy, d) == conn[d] # None /\ rdy[conn[d]] = "open"
IsOnline(d) == Online(connections, ready, d)

Presence(reg, conn, rdy) ==
  [members |-> reg, online |-> {d \in reg : Online(conn, rdy, d)}]

Elements(q) == {q[i] : i \in DOMAIN q}

(* Every member that is online gets the roster.                             *)
MissesNewcomer(reg, conn, rdy) ==     \* mutant: the last to appear is left out
  roster' = [s \in Socket |->
    IF \E d \in reg : conn[d] = s /\ rdy[s] = "open" /\ IsOnline(d)
    THEN Presence(reg, conn, rdy) ELSE roster[s]]
BroadcastPresence(reg, conn, rdy) ==
  roster' = [s \in Socket |->
    IF \E d \in reg : conn[d] = s /\ rdy[s] = "open"
    THEN Presence(reg, conn, rdy) ELSE roster[s]]

Init ==
  /\ registered = {Owner} /\ expired = FALSE
  /\ ready = [s \in Socket |-> "new"]
  /\ claim = [s \in Socket |-> None]
  /\ auth = [s \in Socket |-> None]
  /\ connections = [d \in Device |-> None]
  /\ queues = [d \in Device |-> <<>>]
  /\ roster = [s \in Socket |-> None]
  /\ late = FALSE /\ routed = 0
  /\ handed = [d \in Device |-> <<>>]
  /\ dropped = {}

----------------------------------------------------------------------------
(* A client dials: the socket opens and the challenge goes out.             *)
Open(s) ==
  /\ ready[s] = "new"
  /\ ready' = [ready EXCEPT ![s] = "open"]
  /\ UNCHANGED <<registered, expired, claim, auth, connections, queues, roster,
                 late, routed, handed, dropped>>

(* "auth" up to the await: a device signs the one challenge of its socket.  *)
Auth(s, d) ==
  /\ ready[s] = "open" /\ claim[s] = None /\ auth[s] = None
  /\ ~expired /\ d \in registered
  /\ claim' = [claim EXCEPT ![s] = d]
  /\ UNCHANGED <<registered, expired, ready, auth, connections, queues, roster,
                 late, routed, handed, dropped>>

Stale(n) == late /\ n \in Expiring

KeepQueue(d) == queues                          \* mutant: sent, not taken
TakeQueue(d) == [queues EXCEPT ![d] = <<>>]

Backwards(q) == [i \in DOMAIN q |-> q[Len(q) + 1 - i]]     \* mutant: a stack
Drained(q) == q

(* The signature is good: the socket becomes the device's connection, and   *)
(* the queue is taken and sent on it, whatever became of it meanwhile.      *)
Authenticated(s) ==
  /\ claim[s] # None
  /\ LET d    == claim[s]
         conn == [connections EXCEPT ![d] = s]
     IN  /\ claim' = [claim EXCEPT ![s] = None]
         /\ auth' = [auth EXCEPT ![s] = d]
         /\ connections' = conn
         /\ queues' = TakeQueue(d)
         /\ handed' = [handed EXCEPT ![d] =
              IF ready[s] = "open" THEN @ \o Drained(queues[d]) ELSE @]
         /\ dropped' = dropped \cup {n \in Elements(queues[d]) : Stale(n)}
         /\ BroadcastPresence(registered, conn, ready)
  /\ UNCHANGED <<registered, expired, ready, late, routed>>

(* routeOrQueue for envelope number n.                                      *)
QueueUnbounded(n, d) ==                               \* mutant: no limit
  /\ IF IsOnline(d)
     THEN handed' = [handed EXCEPT ![d] = Append(@, n)] /\ UNCHANGED queues
     ELSE queues' = [queues EXCEPT ![d] = Append(@, n)] /\ UNCHANGED handed
  /\ UNCHANGED dropped
RouteOrQueue(n, d) ==
  \/ /\ IsOnline(d)
     /\ handed' = [handed EXCEPT ![d] = Append(@, n)]
     /\ UNCHANGED <<queues, dropped>>
  \/ /\ ~IsOnline(d) /\ Len(queues[d]) < MaxQueue
     /\ queues' = [queues EXCEPT ![d] = Append(@, n)]
     /\ UNCHANGED <<handed, dropped>>
  \/ /\ ~IsOnline(d) /\ Len(queues[d]) >= MaxQueue
     /\ dropped' = dropped \cup {n}
     /\ UNCHANGED <<queues, handed>>

(* "envelope", and "forward" of an envelope carried for somebody else: they *)
(* differ in the check of the sender only.  The recipient need not be in    *)
(* the registry.                                                            *)
Envelope(s, d) ==
  /\ ready[s] \in {"open", "kicked"} /\ auth[s] # None
  /\ routed < MaxEnvelopes
  /\ routed' = routed + 1
  /\ RouteOrQueue(routed + 1, d)
  /\ UNCHANGED <<registered, expired, ready, claim, auth, connections, roster,
                 late>>

(* The client closes its socket, or the network takes it.                   *)
Drop(s) ==
  /\ ready[s] = "open"
  /\ ready' = [ready EXCEPT ![s] = "closing"]
  /\ UNCHANGED <<registered, expired, claim, auth, connections, queues, roster,
                 late, routed, handed, dropped>>

(* The connections left when s closes.                                      *)
CloseAny(s) ==                     \* mutant: deletes a newer connection too
  [connections EXCEPT ![auth[s]] = None]
CloseSame(s) ==
  [connections EXCEPT ![auth[s]] = IF @ = s THEN None ELSE @]

(* The close event.                                                         *)
Closed(s) ==
  /\ ready[s] \in {"closing", "kicked"}
  /\ ready' = [ready EXCEPT ![s] = "closed"]
  /\ IF auth[s] = None
     THEN UNCHANGED <<connections, roster>>
     ELSE /\ connections' = CloseSame(s)
          /\ BroadcastPresence(registered, connections', ready')
  /\ UNCHANGED <<registered, expired, claim, auth, queues, late, routed, handed,
                 dropped>>

----------------------------------------------------------------------------
(* The join route, once the pairing token is accepted.                      *)
Join(d) ==
  /\ ~expired
  /\ registered' = registered \cup {d}
  /\ BroadcastPresence(registered', connections, ready)
  /\ UNCHANGED <<expired, ready, claim, auth, connections, queues, late, routed,
                 handed, dropped>>

AnyMember == registered                       \* mutant: the owner as well
Revocable == registered \ {Owner}

(* The revoke route: removeDevice, disconnectDevice, broadcastPresence.     *)
Revoke(d) ==
  /\ d \in Revocable
  /\ registered' = registered \ {d}
  /\ dropped' = dropped \cup Elements(queues[d])
  /\ queues' = [queues EXCEPT ![d] = <<>>]
  /\ connections' = [connections EXCEPT ![d] = None]
  /\ ready' = [s \in Socket |->
                 IF s = connections[d] /\ ready[s] = "open" THEN "kicked"
                 ELSE ready[s]]
  /\ BroadcastPresence(registered', connections', ready')
  /\ UNCHANGED <<expired, claim, auth, late, routed, handed>>

WorkspaceExpires ==
  /\ ~expired /\ expired' = TRUE
  /\ UNCHANGED <<registered, ready, claim, auth, connections, queues, roster,
                 late, routed, handed, dropped>>

EnvelopesExpire ==
  /\ ~late /\ late' = TRUE
  /\ UNCHANGED <<registered, expired, ready, claim, auth, connections, queues,
                 roster, routed, handed, dropped>>

Next ==
  \/ \E s \in Socket :
       \/ Open(s) \/ Authenticated(s) \/ Drop(s) \/ Closed(s)
       \/ \E d \in Device : Auth(s, d) \/ Envelope(s, d)
  \/ \E d \in Device : Join(d) \/ Revoke(d)
  \/ WorkspaceExpires \/ EnvelopesExpire

Spec == Init /\ [][Next]_vars

----------------------------------------------------------------------------
TypeOK ==
  /\ registered \in SUBSET Device /\ Owner \in registered
  /\ expired \in BOOLEAN /\ late \in BOOLEAN
  /\ ready \in [Socket -> ReadyState]
  /\ claim \in [Socket -> Device \cup {None}]
  /\ auth \in [Socket -> Device \cup {None}]
  /\ connections \in [Device -> Socket \cup {None}]
  /\ queues \in [Device -> Seq(Nat)]
  /\ routed \in Nat
  /\ handed \in [Device -> Seq(Nat)]
  /\ dropped \in SUBSET Nat

(* MAX_QUEUE_PER_DEVICE bounds every queue, and a device that is online has *)
(* nothing waiting in its queue: routeOrQueue looks only at the connection, *)
(* so an envelope left in the queue would be overtaken by every later one.  *)
QueueBound == \A d \in Device : Len(queues[d]) <= MaxQueue
DrainedWhenOnline == \A d \in Device : IsOnline(d) => queues[d] = <<>>

(* What reaches a device over all its sockets, and then what is queued, is  *)
(* in the order the relay took it in, each envelope once.                   *)
Increasing(q) == \A i, j \in DOMAIN q : i < j => q[i] < q[j]
InOrder == \A d \in Device : Increasing(handed[d] \o queues[d])

(* A device is cut off only by the end of the very socket it is reached on: *)
(* the late close event of an older socket leaves the newer one alone, and  *)
(* nothing but a newer login or a revocation replaces it.                   *)
KeepsLiveSocket ==
  [][\A d \in Device :
       IsOnline(d) /\ ready'[connections[d]] = "open"
         => \/ connections'[d] = connections[d]
            \/ \E s \in Socket :
                 connections'[d] = s /\ auth[s] # d /\ auth'[s] = d]_vars

(* Unless a close event is still due, the last roster every member that is  *)
(* online was sent is the present one.                                      *)
Settled ==
  \A d \in registered : connections[d] # None => ready[connections[d]] # "closing"
RosterIsCurrent ==
  Settled => \A d \in registered :
    IsOnline(d) => roster[connections[d]] = Presence(registered, connections, ready)

(* The queue holds "ciphertext bundles for offline devices until they       *)
(* reconnect" (docs/Architecture.md:235): every envelope routed was handed  *)
(* to an open socket, is queued, or was dropped because the queue was full, *)
(* the envelope had expired or the device was revoked.                      *)
NothingIsLost ==
  \A n \in 1..routed :
    n \in dropped \/ \E d \in Device : n \in Elements(handed[d] \o queues[d])

(* "The relay immediately refuses that device's connections"                *)
(* (docs/Security.md:44): no device outside the registry is connected.      *)
MembersOnly == \A d \in Device : IsOnline(d) => d \in registered
=============================================================================
