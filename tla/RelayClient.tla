---------------------------- MODULE RelayClient ----------------------------
(***************************************************************************)
(* One page of the web application and its connections to the relay: the   *)
(* effect of App.tsx that builds an engine for the workspace and stops it  *)
(* again, start and stop of the engine, and the transport under it         *)
(* (packages/transport/src/websocket.ts) with its sockets, its challenge   *)
(* signed across an await, and its reconnects.                             *)
(*                                                                         *)
(* The relay is reduced to its answer to "auth" (Relay has the rest); the  *)
(* length of the retry delay is left out.                                  *)
(***************************************************************************)
EXTENDS Integers

CONSTANTS
  Engine,       (* the engines the page ever builds                         *)
  Socket,       (* WebSocket objects; one is used again once it is closed   *)
  None,
  SlowSigning,  (* whether a signature may take longer than a retry delay   *)
  MaxLosses     (* bound: connections the network takes or never makes      *)

ASSUME NoneIsNeither == None \notin Engine \cup Socket
ASSUME BoundIsNat == MaxLosses \in Nat /\ SlowSigning \in BOOLEAN

VARIABLES
  wsState,   \* the page is in the workspace
  leaving,   \* resetToLanding in progress, and what for
  mounted,   \* the engine of the effect that is in force
  phase,     \* phase[e]: where start() of e stands
  sweeping,  \* sweeping[e]: the interval of periodicSweep runs
  early,     \* history: the engines stopped before they had dialled
  wire,      \* wire[e]: the fields of e's transport
  owner,     \* owner[s]: the engine whose transport dialled s last
  net,       \* net[s]: how far s is
  signing,   \* the sockets whose challenge is being signed
  member,    \* the relay lets the device in
  losses     \* how often the network failed

app    == <<wsState, leaving, mounted>>
engine == <<phase, sweeping, early>>
link   == <<wire, owner, net, signing>>
world  == <<member, losses>>
vars   == <<app, engine, link, world>>

Up == {"open", "claimed", "granted", "refused", "live"}    \* readyState OPEN

Init ==
  /\ wsState = TRUE /\ leaving = "no" /\ mounted = None
  /\ phase = [e \in Engine |-> "unbuilt"]
  /\ sweeping = [e \in Engine |-> FALSE]
  /\ early = {}
  /\ wire = [e \in Engine |-> [socket |-> None, status |-> "idle",
                               manuallyClosed |-> FALSE, retryTimer |-> FALSE]]
  /\ owner = [s \in Socket |-> None]
  /\ net = [s \in Socket |-> "unused"]
  /\ signing = {}
  /\ member = TRUE /\ losses = 0

Unused == {s \in Socket : net[s] = "unused" /\ s \notin signing}

(* A new socket for e, whose transport is w otherwise.                      *)
Dial(e, w) ==
  /\ Unused # {}
  /\ LET s == CHOOSE s \in Unused : TRUE
     IN  /\ wire' = [wire EXCEPT ![e] =
                       [w EXCEPT !.socket = s, !.status = "connecting"]]
         /\ owner' = [owner EXCEPT ![s] = e]
         /\ net' = [net EXCEPT ![s] = "dialling"]

----------------------------------------------------------------------------
(* App.tsx                                                                  *)

(* The effect builds an engine and starts it.                               *)
Mount(e) ==
  /\ wsState /\ mounted = None /\ phase[e] = "unbuilt"
  /\ mounted' = e
  /\ phase' = [phase EXCEPT ![e] = "starting"]
  /\ UNCHANGED <<wsState, leaving, sweeping, early, link, world>>

KeepsRetrying(w) == [w EXCEPT !.socket = None, !.status = "idle"]   \* mutant
Disconnected(w) ==
  [w EXCEPT !.manuallyClosed = TRUE, !.retryTimer = FALSE, !.socket = None,
            !.status = "idle"]

(* stop(): the interval and the transport, however far start() is.          *)
Stop(e) ==
  /\ sweeping' = [sweeping EXCEPT ![e] = FALSE]
  /\ early' = IF phase[e] = "starting" THEN early \cup {e} ELSE early
  /\ wire' = [wire EXCEPT ![e] = Disconnected(@)]
  /\ net' = [s \in Socket |-> IF s = wire[e].socket THEN "closing" ELSE net[s]]

(* The cleanup of the effect: the identity changed, and the effect will run *)
(* again.                                                                   *)
Unmount ==
  /\ mounted # None
  /\ Stop(mounted)
  /\ mounted' = None
  /\ UNCHANGED <<wsState, leaving, phase, owner, signing, world>>

(* resetToLanding awaits leaveWorkspace, and only then drops the workspace, *)
(* upon which the effect is cleaned up.                                     *)
Leave ==
  /\ wsState /\ mounted # None /\ leaving = "no"
  /\ leaving' = "asked"
  /\ UNCHANGED <<wsState, mounted, engine, link, world>>

Landed ==
  /\ leaving # "no"
  /\ wsState' = FALSE /\ leaving' = "no" /\ mounted' = None
  /\ IF mounted = None THEN UNCHANGED <<sweeping, early, wire, net>>
     ELSE Stop(mounted)
  /\ UNCHANGED <<phase, owner, signing, world>>

----------------------------------------------------------------------------
(* The engine and its transport                                             *)

(* start() has read the database and comes to open().                       *)
Open(e) ==
  /\ phase[e] = "starting"
  /\ phase' = [phase EXCEPT ![e] = "opening"]
  /\ Dial(e, [wire[e] EXCEPT !.manuallyClosed = FALSE])
  /\ UNCHANGED <<app, sweeping, early, signing, world>>

(* The relay takes the connection and sends its challenge.                  *)
Challenge(s) ==
  /\ net[s] = "dialling"
  /\ net' = [net EXCEPT ![s] = "open"]
  /\ signing' = signing \cup {s}
  /\ UNCHANGED <<app, engine, wire, owner, world>>

(* The signature made for s is the answer to the challenge of t.            *)
FirstNonce(t, s) ==                   \* mutant: the first challenge is kept
  t = s /\ phase[owner[s]] = "opening"
Answers(t, s) == t = s

(* The signature is ready: "auth" goes out on the socket of the moment.     *)
Signed(s) ==
  /\ s \in signing
  /\ signing' = signing \ {s}
  /\ LET t == wire[owner[s]].socket
     IN  net' = IF t = None THEN net
                ELSE IF net[t] \notin Up THEN net
                ELSE [net EXCEPT ![t] =
                        IF Answers(t, s) /\ member THEN "claimed" ELSE "refused"]
  /\ UNCHANGED <<app, engine, wire, owner, world>>

(* The relay has checked the signature of the member.                       *)
Verified(s) ==
  /\ net[s] = "claimed"
  /\ net' = [net EXCEPT ![s] = "granted"]
  /\ UNCHANGED <<app, engine, wire, owner, signing, world>>

NeverResolved(e) == UNCHANGED <<phase, sweeping>>                 \* mutant
Resolved(e) ==
  IF phase[e] = "opening"
  THEN /\ phase' = [phase EXCEPT ![e] = "started"]
       /\ sweeping' = [sweeping EXCEPT ![e] = TRUE]
  ELSE UNCHANGED <<phase, sweeping>>

(* authOk: open() returns, if it is the first, and start() ends.            *)
AuthOk(s) ==
  /\ net[s] = "granted"
  /\ net' = [net EXCEPT ![s] = "live"]
  /\ wire' = [wire EXCEPT ![owner[s]].status = "connected"]
  /\ Resolved(owner[s])
  /\ UNCHANGED <<app, early, owner, signing, world>>

Refused(w) == [w EXCEPT !.manuallyClosed = TRUE, !.status = "error"]

Failed(e) ==
  phase' = IF phase[e] = "opening" THEN [phase EXCEPT ![e] = "failed"] ELSE phase

ToldAtFirst(e) == mounted = e /\ phase[e] = "opening"     \* mutant: by start()
Told(e) == mounted = e

(* authError: no more retries, and the page is told.                        *)
AuthError(s) ==
  /\ net[s] = "refused"
  /\ net' = [net EXCEPT ![s] = "closing"]
  /\ wire' = [wire EXCEPT ![owner[s]] = Refused(@)]
  /\ Failed(owner[s])
  /\ leaving' = IF leaving = "no" /\ Told(owner[s]) THEN "refused" ELSE leaving
  /\ UNCHANGED <<wsState, mounted, sweeping, early, owner, signing, world>>

(* The network takes the connection, or never makes it.                     *)
Lose(s) ==
  /\ net[s] \in Up \cup {"dialling"} /\ losses < MaxLosses
  /\ net' = [net EXCEPT ![s] = "closing"]
  /\ losses' = losses + 1
  /\ UNCHANGED <<app, engine, wire, owner, signing, member>>

KeepsStatus(w) ==                                                 \* mutant
  [w EXCEPT !.socket = None, !.retryTimer = @ \/ ~w.manuallyClosed]
GivesUp(w) ==                             \* mutant: a first dial is not retried
  [w EXCEPT !.socket = None,
            !.status = IF @ = "error" THEN @ ELSE "disconnected",
            !.retryTimer = @ \/ (~w.manuallyClosed /\ w.status = "connected")]
AfterClose(w) ==
  [w EXCEPT !.socket = None,
            !.status = IF @ = "error" THEN @ ELSE "disconnected",
            !.retryTimer = @ \/ ~w.manuallyClosed]

(* onclose                                                                  *)
Closed(s) ==
  /\ net[s] = "closing"
  /\ net' = [net EXCEPT ![s] = "unused"]
  /\ wire' = [wire EXCEPT ![owner[s]] = AfterClose(@)]
  /\ Failed(owner[s])
  /\ UNCHANGED <<app, sweeping, early, owner, signing, world>>

(* The retry timer.                                                         *)
Redial(e) ==
  /\ wire[e].retryTimer
  /\ SlowSigning \/ signing = {}
  /\ IF wire[e].manuallyClosed
     THEN /\ wire' = [wire EXCEPT ![e].retryTimer = FALSE]
          /\ UNCHANGED <<owner, net>>
     ELSE Dial(e, [wire[e] EXCEPT !.retryTimer = FALSE])
  /\ UNCHANGED <<app, engine, signing, world>>

(* The device is revoked, or the workspace expires: its socket is closed.   *)
ShutOut ==
  /\ member /\ member' = FALSE
  /\ net' = [s \in Socket |-> IF net[s] \in {"granted", "live"} THEN "closing"
                              ELSE net[s]]
  /\ UNCHANGED <<app, engine, wire, owner, signing, losses>>

Steps(e) == Mount(e) \/ Open(e) \/ Redial(e)
Events(s) ==
  Challenge(s) \/ Signed(s) \/ Verified(s) \/ AuthOk(s) \/ AuthError(s) \/ Closed(s)

Next ==
  \/ \E e \in Engine : Steps(e)
  \/ \E s \in Socket : Events(s) \/ Lose(s)
  \/ Unmount \/ Leave \/ Landed \/ ShutOut

Spec == Init /\ [][Next]_vars

(* Timers fire, promises settle, events are delivered and React runs its    *)
(* effects.  Nothing makes the network fail or the user act.                *)
FairSpec ==
  /\ Spec
  /\ \A e \in Engine : WF_vars(Steps(e))
  /\ \A s \in Socket : WF_vars(Events(s))
  /\ WF_vars(Landed)

----------------------------------------------------------------------------
Status == {"idle", "connecting", "connected", "disconnected", "error"}

(* The last conjunct: what open() promised is settled once it connects.     *)
TypeOK ==
  /\ wsState \in BOOLEAN /\ leaving \in {"no", "asked", "refused"}
  /\ mounted \in Engine \cup {None}
  /\ phase \in [Engine -> {"unbuilt", "starting", "opening", "started", "failed"}]
  /\ sweeping \in [Engine -> BOOLEAN]
  /\ early \in SUBSET Engine
  /\ wire \in [Engine -> [socket : Socket \cup {None}, status : Status,
                          manuallyClosed : BOOLEAN, retryTimer : BOOLEAN]]
  /\ owner \in [Socket -> Engine \cup {None}]
  /\ net \in [Socket -> {"unused", "dialling", "closing"} \cup Up]
  /\ signing \in SUBSET Socket
  /\ member \in BOOLEAN /\ losses \in 0..MaxLosses
  /\ \A e \in Engine : wire[e].status = "connected" => phase[e] # "opening"

(* Once the page has let go of an engine, nothing of it runs on: no timer,  *)
(* no open connection, no sweep.  The exception is an engine stopped while  *)
(* start() still read the database: open() then undoes the stop.            *)
StopIsFinal ==
  \A e \in Engine \ early :
    phase[e] # "unbuilt" /\ mounted # e
      => /\ ~sweeping[e] /\ ~wire[e].retryTimer
         /\ \A s \in Socket : owner[s] = e => net[s] \in {"closing", "unused"}

(* A transport that says it is connected has its socket, and the relay let  *)
(* that very socket in: what the engine sends then is not refused.          *)
ConnectedIsUsable ==
  \A e \in Engine : wire[e].status = "connected" =>
    /\ wire[e].socket # None
    /\ owner[wire[e].socket] = e
    /\ net[wire[e].socket] \in {"live", "closing"}

(* The local workspace is thrown away only if the user asked for it or the  *)
(* relay no longer lets the device in: no mishap of the connection, such as *)
(* an answer to the challenge of another socket, wipes a member's data.     *)
MemberStays == leaving = "refused" => ~member

(* Whatever the network does, a page in the workspace is connected again,   *)
(* unless it leaves or is shut out.                                         *)
Reconnects ==
  \A e \in Engine :
    mounted = e ~> mounted # e \/ wire[e].status = "connected" \/ ~member

(* A refusal ends with the engine stopped and the page out of the           *)
(* workspace, whatever else was going on.                                   *)
RefusalLands ==
  \A e \in Engine :
    mounted = e /\ wire[e].status = "error" ~> mounted # e
=============================================================================
