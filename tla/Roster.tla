------------------------------- MODULE Roster -------------------------------
(***************************************************************************)
(* The table of devices of one member, Me, the keys it caches and the      *)
(* ratchet sessions it keeps, while others join, are revoked and change    *)
(* what they advertise: the rosters the relay broadcasts, the two database *)
(* writes of applyPresence with awaits between them, envelopes that can be *)
(* opened only once the keys of their sender are in the table, and the     *)
(* owner's REVOKE_DEVICE (packages/sync/src/engine.ts).                    *)
(*                                                                         *)
(* The relay sends on one socket in order; on a login it sends what it has *)
(* queued, and the roster after that.  Envelopes are handled one by one,   *)
(* applyPresence is not: its calls overlap.                                *)
(***************************************************************************)
EXTENDS Integers, Sequences, FiniteSets

CONSTANTS
  Peer, Owner,     (* the other devices, and the one that may revoke        *)
  Versatile,       (* the peers that have something to advertise            *)
  MaxChanges,      (* bound: joins, removals, losses of the connection, ...  *)
  MaxEnvelopes     (* bound: envelopes routed to Me                         *)

ASSUME OwnerIsPeer == Owner \in Peer /\ Versatile \subseteq Peer
ASSUME BoundsAreNat == MaxChanges \in Nat /\ MaxEnvelopes \in Nat

VARIABLES
  members,    \* the peers in the registry
  exposing,   \* those of them that advertise a capability
  connected,  \* Me is logged in at the relay
  socket,     \* what is on its way to Me
  queue,      \* what the relay holds for Me
  inbox,      \* incomingQueue: received and not handled yet
  applying,   \* the calls of applyPresence in progress, in order
  devices,    \* the peers in the table of devices
  keyed,      \* those of them whose row has an encryption key
  offering,   \* those of them whose row has the capability
  peerKeys,   \* the peers whose signature key is in memory
  ratchets,   \* the peers with a session, in memory and in its table
  untold,     \* peers removed whose REVOKE_DEVICE is still to be sent
  unknown,    \* history: the peers whose envelope was given up
  dropped,    \* history: the peers whose removal was on its way and was lost
  mixed,      \* history: two rosters were applied at once, or a removal was
              \* applied to a peer that had joined again
  changes, envelopes

registry == <<members, exposing>>
relay    == <<registry, connected, socket, queue, untold, dropped>>
table    == <<devices, keyed, offering>>
engine   == <<inbox, applying, table, peerKeys, ratchets, unknown, mixed>>
vars     == <<relay, engine, changes, envelopes>>

Presence(m, x) == [type |-> "presence", roster |-> m, exposing |-> x]
Envelope(p) == [type |-> "envelope", from |-> p]
Removal(p)  == [type |-> "revoke", from |-> Owner, device |-> p]

(* Me joined last.  The table of a page holds the roster of the join answer *)
(* without the encryption keys, the table of an agent holds nothing.        *)
Init ==
  /\ members = {Owner} /\ exposing = {} /\ connected = FALSE
  /\ socket = <<>> /\ queue = <<>>
  /\ inbox = <<>> /\ applying = <<>>
  /\ devices \in {{Owner}, {}} /\ keyed = {} /\ offering = {}
  /\ peerKeys = {} /\ ratchets = {}
  /\ untold = {} /\ unknown = {} /\ dropped = {} /\ mixed = FALSE
  /\ changes = 0 /\ envelopes = 0

Change == changes < MaxChanges /\ changes' = changes + 1

----------------------------------------------------------------------------
(* The relay                                                                *)

Broadcast == socket' = IF connected THEN Append(socket, Presence(members', exposing')) ELSE socket

Route(m) ==
  IF connected THEN socket' = Append(socket, m) /\ UNCHANGED queue
               ELSE queue' = Append(queue, m) /\ UNCHANGED socket

(* What a device advertises from the start: an agent its terminal, a page   *)
(* that was in a workspace before what it had then.                         *)
Brought(p) == {p} \cap Versatile

Join(p) ==
  /\ p \notin members /\ Change
  /\ members' = members \cup {p}
  /\ exposing' \in {exposing, exposing \cup Brought(p)}
  /\ Broadcast
  /\ UNCHANGED <<connected, queue, untold, dropped, engine, envelopes>>

(* removeDevice: the owner cannot remove itself.                            *)
Removable == members \ {Owner}

(* The revoke route, after which the owner's engine tells the others.       *)
Revoke(p) ==
  /\ p \in Removable /\ Change
  /\ members' = members \ {p} /\ exposing' = exposing \ {p}
  /\ untold' = untold \cup {p}
  /\ Broadcast
  /\ UNCHANGED <<connected, queue, dropped, engine, envelopes>>

(* The capabilities route.                                                  *)
Advertise(p, x) ==
  /\ p \in members \cap Versatile /\ Change
  /\ exposing' = x /\ members' = members
  /\ Broadcast
  /\ UNCHANGED <<connected, queue, untold, dropped, engine, envelopes>>

Toggled(p) == IF p \in exposing THEN exposing \ {p} ELSE exposing \cup {p}
SetCapabilities(p) == Advertise(p, Toggled(p))

(* An agent advertises its terminal anew each time it is started.           *)
AgentStarts(p) == Advertise(p, exposing \cup {p})

TellRevoked(p) ==
  /\ p \in untold
  /\ untold' = untold \ {p}
  /\ Route(Removal(p))
  /\ UNCHANGED <<registry, connected, dropped, engine, changes, envelopes>>

Send(p) ==
  /\ p \in members /\ envelopes < MaxEnvelopes
  /\ envelopes' = envelopes + 1
  /\ Route(Envelope(p))
  /\ UNCHANGED <<registry, connected, untold, dropped, engine, changes>>

Login ==
  /\ ~connected /\ connected' = TRUE
  /\ socket' = Append(queue, Presence(members, exposing)) /\ queue' = <<>>
  /\ UNCHANGED <<registry, untold, dropped, engine, changes, envelopes>>

Removals(seq) == {seq[i].device : i \in {j \in DOMAIN seq : seq[j].type = "revoke"}}

Disconnect ==
  /\ connected /\ Change
  /\ connected' = FALSE /\ socket' = <<>>
  /\ dropped' = dropped \cup Removals(socket)
  /\ UNCHANGED <<registry, queue, untold, engine, envelopes>>

----------------------------------------------------------------------------
(* The engine                                                               *)

Receive ==
  /\ socket # <<>> /\ socket' = Tail(socket)
  /\ LET m == Head(socket)
     IN  IF m.type = "presence"
         THEN /\ applying' = Append(applying, [m EXCEPT !.type = "put"])
              /\ mixed' = (mixed \/ applying # <<>>)
              /\ UNCHANGED inbox
         ELSE inbox' = Append(inbox, m) /\ UNCHANGED <<applying, mixed>>
  /\ UNCHANGED <<registry, connected, queue, untold, dropped, table, peerKeys, ratchets,
                 unknown, changes, envelopes>>

KnownRows(r) == devices                    \* mutant: rows are only updated
Rows(r) == devices \cup r

(* bulkPut: the database takes the writes of the calls in their order.      *)
PutRows ==
  \E i \in DOMAIN applying :
    /\ applying[i].type = "put"
    /\ \A j \in 1..(i - 1) : applying[j].type # "put"
    /\ devices' = Rows(applying[i].roster)
    /\ keyed' = keyed \cup (applying[i].roster \cap devices')
    /\ offering' = (offering \ applying[i].roster) \cup (applying[i].exposing \cap devices')
    /\ applying' = [applying EXCEPT ![i].type = "prune"]
    /\ UNCHANGED <<relay, inbox, peerKeys, ratchets, unknown, mixed, changes, envelopes>>

Without(seq, i) == [j \in 1..(Len(seq) - 1) |-> IF j < i THEN seq[j] ELSE seq[j + 1]]

KeepsOld(r) == devices                       \* mutant: nothing is deleted
Kept(r) == devices \cap r

(* "The roster is authoritative": after its events are recorded, which may  *)
(* take a later call less time, the other rows go.                          *)
Prune ==
  \E i \in DOMAIN applying :
    /\ applying[i].type = "prune"
    /\ devices' = Kept(applying[i].roster)
    /\ keyed' = keyed \cap devices' /\ offering' = offering \cap devices'
    /\ applying' = Without(applying, i)
    /\ UNCHANGED <<relay, inbox, peerKeys, ratchets, unknown, mixed, changes, envelopes>>

KeyFor(p) == p \in peerKeys \/ p \in devices
SessionFor(p) == p \in ratchets \/ p \in keyed

KeysKept(keys, p) == keys                   \* mutant: the cache is kept
KeysWithout(keys, p) == keys \ {p}

(* handleIncoming: an unknown sender is an error, and so is one without an  *)
(* encryption key to start a session with; the envelope is gone.            *)
GivenUp(m) ==
  /\ ~(KeyFor(m.from) /\ SessionFor(m.from))
  /\ peerKeys' = IF KeyFor(m.from) THEN peerKeys \cup {m.from} ELSE peerKeys
  /\ unknown' = unknown \cup {m.from}
  /\ dropped' = dropped \cup Removals(<<m>>)
  /\ UNCHANGED <<table, ratchets, mixed>>

Opened(p) ==
  /\ KeyFor(p) /\ SessionFor(p)
  /\ peerKeys' = peerKeys \cup {p} /\ ratchets' = ratchets \cup {p}
  /\ UNCHANGED <<table, unknown, mixed, dropped>>

(* REVOKE_DEVICE of the owner.                                              *)
Forget(from, p) ==
  /\ KeyFor(from) /\ SessionFor(from)
  /\ devices' = devices \ {p} /\ keyed' = keyed \ {p} /\ offering' = offering \ {p}
  /\ peerKeys' = KeysWithout(peerKeys \cup {from}, p)
  /\ ratchets' = KeysWithout(ratchets \cup {from}, p)
  /\ mixed' = (mixed \/ p \in members \/ applying # <<>>)
  /\ UNCHANGED <<unknown, dropped>>

Handle ==
  /\ inbox # <<>> /\ inbox' = Tail(inbox)
  /\ LET m == Head(inbox)
     IN  \/ GivenUp(m)
         \/ m.type = "envelope" /\ Opened(m.from)
         \/ m.type = "revoke" /\ Forget(m.from, m.device)
  /\ UNCHANGED <<registry, connected, socket, queue, untold, applying, changes, envelopes>>

(* The page is reloaded: what was received and not handled is lost.         *)
Reload ==
  /\ Change
  /\ connected' = FALSE /\ socket' = <<>>
  /\ dropped' = dropped \cup Removals(socket) \cup Removals(inbox)
  /\ inbox' = <<>> /\ applying' = <<>> /\ peerKeys' = {}
  /\ UNCHANGED <<registry, queue, untold, table, ratchets, unknown, mixed, envelopes>>

Next ==
  \/ \E p \in Peer : Join(p) \/ Revoke(p) \/ TellRevoked(p) \/ Send(p)
                      \/ SetCapabilities(p) \/ AgentStarts(p)
  \/ Login \/ Disconnect \/ Receive \/ PutRows \/ Prune \/ Handle \/ Reload

Spec == Init /\ [][Next]_vars

----------------------------------------------------------------------------
TypeOK ==
  /\ members \subseteq Peer /\ exposing \subseteq members /\ Owner \in members
  /\ devices \subseteq Peer /\ keyed \subseteq devices /\ offering \subseteq devices
  /\ peerKeys \subseteq Peer /\ ratchets \subseteq Peer
  /\ untold \subseteq Peer /\ dropped \subseteq Peer /\ unknown \subseteq Peer
  /\ connected \in BOOLEAN /\ mixed \in BOOLEAN
  /\ \A i \in DOMAIN applying :
       applying[i].roster \subseteq Peer /\ applying[i].type \in {"put", "prune"}

UpToDate == connected /\ ~mixed /\ socket = <<>> /\ inbox = <<>> /\ applying = <<>>

(* When every roster has been applied, the table of a connected member has  *)
(* the members of the workspace, neither more nor fewer, each with its keys *)
(* and with what it advertises now; unless two rosters were applied at      *)
(* once: the older one may then delete the row of a device that the newer   *)
(* one has just added.                                                      *)
TableIsRoster ==
  UpToDate => devices = members /\ keyed = members /\ offering = exposing

(* An envelope is given up for a sender without keys only if the sender is  *)
(* no longer a member, or a roster that will list it is on its way or being *)
(* written (as on every login, which brings the envelopes first), or was    *)
(* lost with the connection: a member that is connected and up to date      *)
(* never throws away what another member sends.                             *)
UnknownOnlyUnlisted ==
  [][\A p \in unknown' \ unknown :
       \/ p \notin members \/ mixed \/ ~connected
       \/ \E i \in DOMAIN applying : p \in applying[i].roster
       \/ \E i \in DOMAIN socket :
            socket[i].type = "presence" /\ p \in socket[i].roster]_vars

(* A member that has caught up holds the keys and the session of no removed *)
(* device, unless it was never told, the message was lost, or could not be  *)
(* opened: an envelope handled late does not bring them back.               *)
RevokedIsForgotten ==
  UpToDate => peerKeys \cup ratchets \subseteq members \cup untold \cup dropped
=============================================================================
