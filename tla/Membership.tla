----------------------------- MODULE Membership -----------------------------
(***************************************************************************)
(* A device that joins a workspace, leaves it, is removed from it and      *)
(* pairs again: the page and its engines of RelayClient together with what *)
(* the database keeps of each membership (apps/web/src/lib/app.ts and      *)
(* App.tsx) and with the ratchet session it shares with one peer.          *)
(*                                                                         *)
(* A session is reduced to how many round trips it has seen: both ends     *)
(* start from the identity keys (0) and can read each other as long as     *)
(* they are equally far.  Ratchet has what this leaves out.                *)
(***************************************************************************)
EXTENDS RelayClient, Sequences

CONSTANTS
  MaxTalk,    (* bound: round trips with the peer                           *)
  MaxJoins    (* bound: memberships                                         *)

VARIABLES
  joins,      \* the membership the page is in, or was in last
  built,      \* the engines in the order they were built, and for which membership
  handling,   \* the engines in the middle of handling an envelope of the peer
  mem,        \* mem[e]: the session in the memory of e
  row,        \* the session in the ratchets table (0: no row)
  peer,       \* the session at the peer
  rows,       \* the memberships with rows in the tables that leaving clears
  cleared,    \* the leave in progress has cleared the tables
  removed,    \* history: the peer, as owner, removed the device
  overtaken   \* history: a session was saved behind the back of a later engine

database == <<row, rows, cleared>>
talk     == <<handling, mem, peer>>
past     == <<joins, built, removed, overtaken>>
mvars    == <<vars, database, talk, past>>

MInit ==
  /\ Init
  /\ joins = 1 /\ built = <<>> /\ handling = {}
  /\ mem = [e \in Engine |-> 0] /\ row = 0 /\ peer = 0
  /\ rows = {1} /\ cleared = FALSE
  /\ removed = FALSE /\ overtaken = FALSE

Loaded(e) == phase[e] \notin {"unbuilt", "starting"}
MembershipOf(e) == (CHOOSE b \in {built[i] : i \in DOMAIN built} : b.engine = e).of
Later(f, e) == \E i, j \in DOMAIN built : i < j /\ built[i].engine = e /\ built[j].engine = f

----------------------------------------------------------------------------
(* The steps of RelayClient with what they do to the database.              *)

MMount(e) ==
  /\ Mount(e)
  /\ built' = Append(built, [engine |-> e, of |-> joins])
  /\ UNCHANGED <<database, talk, joins, removed, overtaken>>

(* start() takes over the sessions that are saved.                          *)
MOpen(e) ==
  /\ Open(e)
  /\ mem' = [mem EXCEPT ![e] = row]
  /\ UNCHANGED <<database, handling, peer, past>>

ClearsAll == 0          \* mutant: the sessions are workspace-scoped state too
SessionKept == row

(* leaveWorkspace: the engine is still running.                             *)
Clear ==
  /\ leaving # "no" /\ ~cleared
  /\ cleared' = TRUE /\ rows' = {} /\ row' = SessionKept
  /\ UNCHANGED <<vars, talk, past>>

MLanded ==
  /\ cleared /\ Landed
  /\ cleared' = FALSE
  /\ UNCHANGED <<row, rows, talk, past>>

(* A code or a link is redeemed, also in a workspace: then the engine is    *)
(* replaced, and nothing is cleared.                                        *)
Join ==
  /\ joins < MaxJoins /\ joins' = joins + 1 /\ leaving = "no"
  /\ wsState' = TRUE /\ mounted' = None /\ member' = TRUE
  /\ IF mounted = None THEN UNCHANGED <<sweeping, early, wire, net>>
     ELSE Stop(mounted)
  /\ rows' = rows \cup {joins'}
  /\ UNCHANGED <<leaving, phase, owner, signing, losses, row, cleared, talk,
                 built, removed, overtaken>>

(* The owner removes the device and forgets its session.                    *)
Removed ==
  /\ ShutOut
  /\ peer' = 0 /\ removed' = TRUE
  /\ UNCHANGED <<database, handling, mem, joins, built, overtaken>>

Expired == ShutOut /\ UNCHANGED <<database, talk, past>>

(* An envelope of the peer arrives that the session opens (any other is     *)
(* thrown away), and is handled across awaits.                              *)
Handle(e) ==
  /\ e \notin handling /\ mem[e] = peer /\ peer < MaxTalk
  /\ \E s \in Socket : owner[s] = e /\ net[s] = "live"
  /\ handling' = handling \cup {e}
  /\ UNCHANGED <<vars, database, mem, peer, past>>

(* The session is saved, what came is stored and the peer has its receipt,  *)
(* whether or not the engine was stopped meanwhile.                         *)
Handled(e) ==
  /\ e \in handling /\ handling' = handling \ {e}
  /\ mem' = [mem EXCEPT ![e] = @ + 1]
  /\ row' = mem[e] + 1
  /\ peer' = IF peer = mem[e] THEN peer + 1 ELSE peer
  /\ rows' = rows \cup {MembershipOf(e)}
  /\ overtaken' = (overtaken \/ \E f \in Engine : Loaded(f) /\ Later(f, e))
  /\ UNCHANGED <<vars, cleared, joins, built, removed>>

Unaffected ==
  \/ \E e \in Engine : Redial(e)
  \/ \E s \in Socket : Events(s) \/ Lose(s)
  \/ Unmount \/ Leave

MNext ==
  \/ \E e \in Engine : MMount(e) \/ MOpen(e) \/ Handle(e) \/ Handled(e)
  \/ Clear \/ MLanded \/ Join \/ Removed \/ Expired
  \/ Unaffected /\ UNCHANGED <<database, talk, past>>

MSpec == MInit /\ [][MNext]_mvars

----------------------------------------------------------------------------
(* A device that its peer never removed can go on talking to it, however    *)
(* often it reloads, leaves and pairs again: the engine in force is as far  *)
(* as the peer.  The exception is an engine that was replaced while it      *)
(* handled an envelope: the next one may have read the session before.      *)
StillTalks ==
  \A e \in Engine :
    mounted = e /\ Loaded(e) /\ ~removed /\ ~overtaken => mem[e] = peer

(* "Local workspace data was cleaned up": a device that is in no workspace  *)
(* has nothing of one in these tables.                                      *)
LeftIsClean == ~wsState /\ handling = {} => rows = {}

(* "Clear all workspace-scoped state (used on leave, revocation, or         *)
(* workspace expiry)": a device that pairs again starts afresh, and its     *)
(* owner reads it.                                                          *)
ReadmittedTalks ==
  \A e \in Engine :
    mounted = e /\ Loaded(e) /\ member /\ ~overtaken => mem[e] = peer

(* "Envelopes must be processed one at a time": each from the session that  *)
(* the one before has saved, also when the page replaces its engine.        *)
TalksAcrossEngines ==
  \A e \in Engine : mounted = e /\ Loaded(e) /\ ~removed => mem[e] = peer
=============================================================================
