---------------------------- MODULE ClientProofs ----------------------------
(***************************************************************************)
(* Proofs about what runs in a page: its transports and its text editor.   *)
(*                                                                         *)
(* The relay's transport (RelayClient): for any engines and sockets,       *)
(* however often the network fails, an engine that was stopped stays       *)
(* stopped, and where a signature is ready before the next retry no mishap *)
(* of the connection throws the workspace away.  The direct one (WebRtc):  *)
(* for any number of offers and faults, a page takes an answer for the     *)
(* offer it was made for.  The local one (LanSession): for any number of   *)
(* requests and lost ports, an envelope taken for sent was written, and an *)
(* open listener is shown, unless replies were mixed up.  The text editor  *)
(* (TextEdit): for any devices and edits, what was announced is saved, a   *)
(* row shows its document, and devices at rest agree.                      *)
(***************************************************************************)
EXTENDS RelayClient, WebRtc, LanSession, TextEdit, TLAPS

-----------------------------------------------------------------------------
(* RelayClient: each engine has one socket at a time.                       *)

InUse(s) == net[s] # "unused"

(* Sockets in use belong to an engine, and no two of them to the same one.  *)
Owned ==
  /\ \A s \in Socket : InUse(s) \/ s \in signing => owner[s] \in Engine
  /\ \A s, t \in Socket : InUse(s) /\ InUse(t) /\ owner[s] = owner[t] => s = t

(* A socket that is not closing is the one its transport holds, and what a  *)
(* transport holds is a socket of its own.                                  *)
Held ==
  /\ \A s \in Socket : net[s] \in {"dialling"} \cup Up => wire[owner[s]].socket = s
  /\ \A e \in Engine : \A s \in Socket :
       wire[e].socket = s => owner[s] = e /\ InUse(s)

(* An engine that has not dialled yet, or is to dial again, has none.       *)
Undialled(e) == phase[e] \in {"unbuilt", "starting"}
Idle ==
  \A e \in Engine :
    /\ Undialled(e) \/ wire[e].retryTimer =>
         \A s \in Socket : owner[s] = e => ~InUse(s)
    /\ Undialled(e) =>
         ~wire[e].retryTimer /\ ~sweeping[e] /\ \A s \in signing : owner[s] # e

Wired == TypeOK /\ Owned /\ Held /\ Idle

(* An engine the page let go of after it had dialled never retries.         *)
Settled ==
  \A e \in Engine \ early :
    phase[e] # "unbuilt" /\ mounted # e =>
      wire[e].manuallyClosed /\ phase[e] # "starting"

Stopped == Wired /\ Settled /\ StopIsFinal

(* It holds before an engine is built.                                     *)
LEMMA WiredAtFirst == Init => Stopped
<1> SUFFICES ASSUME Init PROVE Stopped
  OBVIOUS
<1>1. TypeOK
  BY BoundIsNat DEF Init, TypeOK, Up, Status
<1>2. Owned /\ Held /\ Idle
  BY NoneIsNeither DEF Init, Owned, Held, Idle, InUse, Undialled, Up
<1>3. Settled /\ StopIsFinal
  BY DEF Init, Settled, StopIsFinal
<1> QED BY <1>1, <1>2, <1>3 DEF Stopped, Wired

(* A transport dials: its engine had no socket, and its retry timer is over.*)
LEMMA DialKeepsWires ==
  ASSUME Wired, NEW e \in Engine, NEW s \in Socket, NEW w,
         w \in [socket : Socket \cup {None}, status : Status,
                manuallyClosed : BOOLEAN, retryTimer : BOOLEAN],
         net[s] = "unused", s \notin signing, ~w.retryTimer,
         phase'[e] \notin {"unbuilt", "starting"},
         phase[e] = "starting" \/ wire[e].retryTimer,
         wire' = [wire EXCEPT ![e] = [w EXCEPT !.socket = s, !.status = "connecting"]],
         owner' = [owner EXCEPT ![s] = e],
         net' = [net EXCEPT ![s] = "dialling"],
         \A d \in Engine \ {e} : phase'[d] = phase[d],
         UNCHANGED <<sweeping, signing>>
  PROVE  Owned' /\ Held' /\ Idle'
<1>1. TypeOK /\ Owned /\ Held /\ Idle
  BY DEF Wired
<1>2. \A t \in Socket : owner[t] = e => ~InUse(t)
  BY <1>1 DEF Idle, Undialled
<1>3. /\ wire'[e].socket = s /\ ~wire'[e].retryTimer
      /\ \A d \in Engine \ {e} : wire'[d] = wire[d]
  BY <1>1 DEF TypeOK
<1>4. /\ owner'[s] = e /\ InUse(s)' /\ net'[s] = "dialling"
      /\ \A t \in Socket \ {s} : owner'[t] = owner[t] /\ net'[t] = net[t]
  BY <1>1 DEF TypeOK, InUse
<1>5. Owned'
  BY <1>1, <1>2, <1>4 DEF Owned, InUse
<1>6. Held'
  <2>1. ASSUME NEW t \in Socket, net'[t] \in {"dialling"} \cup Up
        PROVE  wire'[owner'[t]].socket = t
    <3>1. CASE t = s
      BY <3>1, <1>3, <1>4
    <3>2. CASE t # s
      <4>1. InUse(t) /\ net[t] \in {"dialling"} \cup Up
        BY <3>2, <1>4, <2>1 DEF InUse, Up
      <4>2. owner[t] \in Engine \ {e} /\ wire[owner[t]].socket = t
        BY <4>1, <1>1, <1>2 DEF Owned, Held
      <4> QED BY <3>2, <4>2, <1>3, <1>4
    <3> QED BY <3>1, <3>2
  <2>2. ASSUME NEW d \in Engine, NEW t \in Socket, wire'[d].socket = t
        PROVE  owner'[t] = d /\ InUse(t)'
    <3>1. CASE d = e
      BY <3>1, <2>2, <1>3, <1>4
    <3>2. CASE d # e
      BY <3>2, <2>2, <1>1, <1>3, <1>4 DEF Held, InUse
    <3> QED BY <3>1, <3>2
  <2> QED BY <2>1, <2>2 DEF Held
<1>7. Idle'
  BY <1>1, <1>3, <1>4 DEF Idle, Undialled, InUse
<1> QED BY <1>5, <1>6, <1>7
(* A step in which sockets only get closer to being closed, or further up,  *)
(* and transports let go of nothing, keeps the sockets where they are.      *)
LEMMA AdvanceKeepsWires ==
  ASSUME Wired, UNCHANGED owner,
         signing' \subseteq signing \cup {s \in Socket : InUse(s)},
         \A s \in Socket : InUse(s)' <=> InUse(s),
         \A s \in Socket : net'[s] \in {"dialling"} \cup Up =>
                             net[s] \in {"dialling"} \cup Up,
         \A e \in Engine : wire'[e].socket = wire[e].socket,
         \A e \in Engine : wire'[e].retryTimer => wire[e].retryTimer,
         \A e \in Engine : Undialled(e)' => Undialled(e),
         \A e \in Engine : Undialled(e)' => ~sweeping'[e]
  PROVE  Owned' /\ Held' /\ Idle'
<1>1. Owned /\ Held /\ Idle
  BY DEF Wired
<1>2. Owned'
  BY <1>1 DEF Owned, InUse
<1>3. Held'
  BY <1>1 DEF Held, Owned, InUse, Up
<1>4. Idle'
  BY <1>1 DEF Idle
<1> QED BY <1>2, <1>3, <1>4

(* stop(): the one socket of the engine is closed, and nothing brings its   *)
(* transport back.                                                          *)
LEMMA StopKeepsWires ==
  ASSUME Wired, NEW e \in Engine, Stop(e), UNCHANGED <<phase, owner, signing>>
  PROVE  /\ Owned' /\ Held' /\ Idle'
         /\ wire' \in [Engine -> [socket : Socket \cup {None}, status : Status,
                                  manuallyClosed : BOOLEAN, retryTimer : BOOLEAN]]
         /\ sweeping' \in [Engine -> BOOLEAN] /\ early' \in SUBSET Engine
         /\ net' \in [Socket -> {"unused", "dialling", "closing"} \cup Up]
         /\ \A d \in Engine : wire'[d].status = "connected" => wire[d].status = "connected"
         /\ ~sweeping'[e] /\ ~wire'[e].retryTimer /\ wire'[e].manuallyClosed
         /\ \A s \in Socket : owner[s] = e => net'[s] \in {"closing", "unused"}
         /\ \A d \in Engine \ {e} : wire'[d] = wire[d] /\ sweeping'[d] = sweeping[d]
         /\ \A s \in Socket : net'[s] # net[s] => net'[s] = "closing"
         /\ early \subseteq early' /\ (phase[e] = "starting" => e \in early')
<1>1. TypeOK /\ Owned /\ Held /\ Idle
  BY DEF Wired
<1>2. /\ wire'[e] = [wire[e] EXCEPT !.manuallyClosed = TRUE, !.retryTimer = FALSE,
                                    !.socket = None, !.status = "idle"]
      /\ \A d \in Engine \ {e} : wire'[d] = wire[d]
  BY <1>1 DEF Stop, Disconnected, TypeOK
<1>3. /\ wire[e] \in [socket : Socket \cup {None}, status : Status,
                      manuallyClosed : BOOLEAN, retryTimer : BOOLEAN]
      /\ wire' = [wire EXCEPT ![e] = wire'[e]]
  BY <1>1, <1>2 DEF Stop, TypeOK
<1>4. /\ wire'[e] \in [socket : Socket \cup {None}, status : Status,
                       manuallyClosed : BOOLEAN, retryTimer : BOOLEAN]
      /\ wire'[e].socket = None /\ wire'[e].status = "idle"
      /\ ~wire'[e].retryTimer /\ wire'[e].manuallyClosed
  BY <1>2, <1>3 DEF Status
<1>5. \A s \in Socket : net'[s] = IF s = wire[e].socket THEN "closing" ELSE net[s]
  BY DEF Stop
<1>6. \A s \in Socket : InUse(s)' <=> InUse(s)
  BY <1>1, <1>5 DEF Held, InUse
<1>7. ASSUME NEW s \in Socket, owner[s] = e
      PROVE  net'[s] \in {"closing", "unused"}
  BY <1>1, <1>5, <1>7 DEF Held, TypeOK
<1>8. Owned'
  BY <1>1, <1>6 DEF Owned
<1>9. Held'
  <2>1. ASSUME NEW s \in Socket, net'[s] \in {"dialling"} \cup Up
        PROVE  wire'[owner'[s]].socket = s
    <3>1. net[s] = net'[s] /\ owner[s] # e
      BY <2>1, <1>5, <1>7 DEF Up
    <3>2. owner[s] \in Engine /\ wire[owner[s]].socket = s
      BY <3>1, <2>1, <1>1 DEF Held, Owned, InUse, Up
    <3> QED BY <3>1, <3>2, <1>2
  <2>2. ASSUME NEW d \in Engine, NEW s \in Socket, wire'[d].socket = s
        PROVE  owner'[s] = d /\ InUse(s)'
    BY <2>2, <1>1, <1>2, <1>4, <1>6, NoneIsNeither DEF Held
  <2> QED BY <2>1, <2>2 DEF Held
<1>10. Idle'
  BY <1>1, <1>2, <1>4, <1>6 DEF Idle, Undialled, Stop, TypeOK
<1>11. wire' \in [Engine -> [socket : Socket \cup {None}, status : Status,
                             manuallyClosed : BOOLEAN, retryTimer : BOOLEAN]]
  BY <1>1, <1>3, <1>4 DEF TypeOK
<1>12. /\ sweeping' \in [Engine -> BOOLEAN] /\ early' \in SUBSET Engine
       /\ net' \in [Socket -> {"unused", "dialling", "closing"} \cup Up]
       /\ ~sweeping'[e] /\ \A d \in Engine \ {e} : sweeping'[d] = sweeping[d]
       /\ early \subseteq early' /\ (phase[e] = "starting" => e \in early')
  BY <1>1 DEF Stop, TypeOK
<1> QED BY <1>2, <1>4, <1>5, <1>7, <1>8, <1>9, <1>10, <1>11, <1>12

-----------------------------------------------------------------------------
(* The steps of the page.                                                   *)

(* The effect of App.tsx builds an engine.                                 *)
LEMMA MountKeepsStopped ==
  ASSUME Stopped, NEW e \in Engine, Mount(e)
  PROVE  Stopped'
<1>1. TypeOK /\ Owned /\ Held /\ Idle /\ Settled /\ StopIsFinal
  BY DEF Stopped, Wired
<1>2. TypeOK'
  BY <1>1 DEF Mount, link, world, TypeOK
<1>3. phase'[e] = "starting" /\ phase[e] = "unbuilt" /\ mounted' = e /\ mounted = None
      /\ \A d \in Engine \ {e} : phase'[d] = phase[d]
  BY <1>1 DEF Mount, TypeOK
<1>4. Owned' /\ Held' /\ Idle'
  BY <1>1, <1>3 DEF Mount, link, Owned, Held, Idle, InUse, Undialled
<1>5. Settled' /\ StopIsFinal'
  BY <1>1, <1>3, NoneIsNeither DEF Mount, link, Settled, StopIsFinal
<1> QED BY <1>2, <1>4, <1>5 DEF Stopped, Wired

(* The engine in force is stopped, by Unmount or by Landed.                 *)
LEMMA StopKeepsStopped ==
  ASSUME Stopped, mounted \in Engine, Stop(mounted), mounted' = None,
         wsState' \in BOOLEAN, leaving' \in {"no", "asked", "refused"},
         UNCHANGED <<phase, owner, signing, world>>
  PROVE  Stopped'
<1>1. TypeOK /\ Owned /\ Held /\ Idle /\ Settled /\ StopIsFinal /\ Wired
  BY DEF Stopped, Wired
<1>2. /\ Owned' /\ Held' /\ Idle'
      /\ wire' \in [Engine -> [socket : Socket \cup {None}, status : Status,
                               manuallyClosed : BOOLEAN, retryTimer : BOOLEAN]]
      /\ sweeping' \in [Engine -> BOOLEAN] /\ early' \in SUBSET Engine
      /\ net' \in [Socket -> {"unused", "dialling", "closing"} \cup Up]
      /\ \A d \in Engine : wire'[d].status = "connected" => wire[d].status = "connected"
      /\ ~sweeping'[mounted] /\ ~wire'[mounted].retryTimer /\ wire'[mounted].manuallyClosed
      /\ \A s \in Socket : owner[s] = mounted => net'[s] \in {"closing", "unused"}
      /\ \A d \in Engine \ {mounted} : wire'[d] = wire[d] /\ sweeping'[d] = sweeping[d]
      /\ \A s \in Socket : net'[s] # net[s] => net'[s] = "closing"
      /\ early \subseteq early' /\ (phase[mounted] = "starting" => mounted \in early')
  BY <1>1, StopKeepsWires
<1>3. TypeOK'
  BY <1>1, <1>2 DEF TypeOK, world
<1>4. ASSUME NEW d \in Engine \ early', phase[d] # "unbuilt"
      PROVE  /\ wire'[d].manuallyClosed /\ phase[d] # "starting"
             /\ ~sweeping'[d] /\ ~wire'[d].retryTimer
             /\ \A s \in Socket : owner[s] = d => net'[s] \in {"closing", "unused"}
  <2>1. CASE d = mounted
    BY <2>1, <1>2
  <2>2. CASE d # mounted
    BY <2>2, <1>1, <1>2, <1>4 DEF Settled, StopIsFinal
  <2> QED BY <2>1, <2>2
<1>5. Settled' /\ StopIsFinal'
  BY <1>4 DEF Settled, StopIsFinal
<1> QED BY <1>2, <1>3, <1>5 DEF Stopped, Wired

(* The page lets go of an engine, or leaves.                               *)
LEMMA PageKeepsStopped ==
  ASSUME Stopped, Unmount \/ Leave \/ Landed
  PROVE  Stopped'
<1>1. TypeOK /\ Owned /\ Held /\ Idle /\ Settled /\ StopIsFinal
  BY DEF Stopped, Wired
<1>2. CASE Unmount
  BY <1>1, <1>2, StopKeepsStopped DEF Unmount, TypeOK
<1>3. CASE Leave
  <2>1. TypeOK'
    BY <1>1, <1>3 DEF Leave, engine, link, world, TypeOK
  <2>2. Owned' /\ Held' /\ Idle' /\ Settled' /\ StopIsFinal'
    BY <1>1, <1>3 DEF Leave, engine, link, Owned, Held, Idle, InUse, Undialled,
                      Settled, StopIsFinal
  <2> QED BY <2>1, <2>2 DEF Stopped, Wired
<1>4. CASE Landed /\ mounted # None
  BY <1>1, <1>4, StopKeepsStopped DEF Landed, TypeOK
<1>5. CASE Landed /\ mounted = None
  <2>1. TypeOK'
    BY <1>1, <1>5 DEF Landed, world, TypeOK
  <2>2. Owned' /\ Held' /\ Idle' /\ Settled' /\ StopIsFinal'
    BY <1>1, <1>5 DEF Landed, Owned, Held, Idle, InUse, Undialled,
                      Settled, StopIsFinal
  <2> QED BY <2>1, <2>2 DEF Stopped, Wired
<1> QED BY <1>2, <1>3, <1>4, <1>5
-----------------------------------------------------------------------------
(* The steps of the engine, its transport and the network.                  *)

Transport == [socket : Socket \cup {None}, status : Status,
              manuallyClosed : BOOLEAN, retryTimer : BOOLEAN]

(* Steps that put no engine into service and no closed socket into use.     *)
LEMMA QuietKeepsStopped ==
  ASSUME Stopped, TypeOK', Owned', Held', Idle',
         UNCHANGED <<mounted, early, owner>>,
         \A e \in Engine : phase'[e] = phase[e]
                           \/ (phase[e] = "opening" /\ phase'[e] \in {"started", "failed"}),
         \A e \in Engine : sweeping'[e] = sweeping[e]
                           \/ \E s \in Socket : owner[s] = e /\ net[s] \in Up,
         \A e \in Engine : wire[e].manuallyClosed =>
                             wire'[e].manuallyClosed /\ wire'[e].retryTimer = wire[e].retryTimer,
         \A s \in Socket : net'[s] \in {"closing", "unused"} \/ net[s] \in {"dialling"} \cup Up
  PROVE  Stopped'
<1>1. Wired /\ Settled /\ StopIsFinal
  BY DEF Stopped
<1>2. Settled'
  BY <1>1 DEF Settled
<1>3. StopIsFinal'
  <2> SUFFICES ASSUME NEW e \in Engine \ early, phase'[e] # "unbuilt", mounted # e
               PROVE  /\ ~sweeping'[e] /\ ~wire'[e].retryTimer
                      /\ \A s \in Socket : owner[s] = e => net'[s] \in {"closing", "unused"}
    BY DEF StopIsFinal
  <2>1. phase[e] # "unbuilt"
    OBVIOUS
  <2>2. /\ ~sweeping[e] /\ ~wire[e].retryTimer /\ wire[e].manuallyClosed
        /\ \A s \in Socket : owner[s] = e => net[s] \in {"closing", "unused"}
    BY <1>1, <2>1 DEF StopIsFinal, Settled
  <2> QED BY <2>2 DEF Up
<1> QED BY <1>2, <1>3 DEF Stopped, Wired

(* A transport that dials is one whose engine is in force, or is excepted.  *)
LEMMA DialKeepsStopped ==
  ASSUME Stopped, NEW e \in Engine, Open(e) \/ Redial(e)
  PROVE  Stopped'
<1>1. Wired /\ TypeOK /\ Owned /\ Held /\ Idle /\ Settled /\ StopIsFinal
  BY DEF Stopped, Wired
<1>2. CASE Open(e)
  <2> DEFINE w == [wire[e] EXCEPT !.manuallyClosed = FALSE]
  <2>1. w \in Transport /\ ~w.retryTimer /\ phase[e] = "starting"
    <3>1. phase[e] = "starting"
      BY <1>2 DEF Open
    <3>2. wire[e] \in Transport /\ ~wire[e].retryTimer
      BY <1>1, <3>1 DEF TypeOK, Idle, Undialled, Transport
    <3> QED BY <3>1, <3>2 DEF Transport
  <2>2. PICK s \in Socket :
           /\ net[s] = "unused" /\ s \notin signing
           /\ wire' = [wire EXCEPT ![e] = [w EXCEPT !.socket = s, !.status = "connecting"]]
           /\ owner' = [owner EXCEPT ![s] = e]
           /\ net' = [net EXCEPT ![s] = "dialling"]
    BY <1>2 DEF Open, Dial, Unused
  <2>3. /\ phase'[e] = "opening" /\ \A d \in Engine \ {e} : phase'[d] = phase[d]
        /\ phase' \in [Engine -> {"unbuilt", "starting", "opening", "started", "failed"}]
        /\ UNCHANGED <<app, sweeping, early, signing, world>>
    BY <1>1, <1>2 DEF Open, TypeOK
  <2>4. [w EXCEPT !.socket = s, !.status = "connecting"] \in Transport
    BY <2>1 DEF Transport, Status
  <2>5. wire' \in [Engine -> Transport]
    BY <1>1, <2>2, <2>4 DEF TypeOK, Transport
  <2>6. /\ wire'[e].status = "connecting"
        /\ \A d \in Engine \ {e} : wire'[d] = wire[d]
        /\ \A t \in Socket \ {s} : owner'[t] = owner[t] /\ net'[t] = net[t]
        /\ owner'[s] = e
    BY <1>1, <2>1, <2>2 DEF TypeOK, Transport
  <2>7. TypeOK'
    BY <1>1, <2>2, <2>3, <2>5, <2>6 DEF TypeOK, app, world, Transport
  <2>8. Owned' /\ Held' /\ Idle'
    BY <1>1, <2>1, <2>2, <2>3, DialKeepsWires DEF Transport
  <2>9. Settled' /\ StopIsFinal'
    BY <1>1, <2>1, <2>3, <2>6 DEF Settled, StopIsFinal, app
  <2> QED BY <2>7, <2>8, <2>9 DEF Stopped, Wired
<1>3. CASE Redial(e) /\ ~wire[e].manuallyClosed
  <2> DEFINE w == [wire[e] EXCEPT !.retryTimer = FALSE]
  <2>1. w \in Transport /\ ~w.retryTimer /\ wire[e].retryTimer
    BY <1>1, <1>3 DEF Redial, TypeOK, Transport
  <2>2. PICK s \in Socket :
           /\ net[s] = "unused" /\ s \notin signing
           /\ wire' = [wire EXCEPT ![e] = [w EXCEPT !.socket = s, !.status = "connecting"]]
           /\ owner' = [owner EXCEPT ![s] = e]
           /\ net' = [net EXCEPT ![s] = "dialling"]
    BY <1>3 DEF Redial, Dial, Unused
  <2>3. UNCHANGED <<app, engine, signing, world>> /\ ~Undialled(e)
    BY <1>1, <2>1, <1>3 DEF Redial, Idle
  <2>4. [w EXCEPT !.socket = s, !.status = "connecting"] \in Transport
    BY <2>1 DEF Transport, Status
  <2>5. wire' \in [Engine -> Transport]
    BY <1>1, <2>2, <2>4 DEF TypeOK, Transport
  <2>6. /\ wire'[e].status = "connecting"
        /\ \A d \in Engine \ {e} : wire'[d] = wire[d]
        /\ \A t \in Socket \ {s} : owner'[t] = owner[t] /\ net'[t] = net[t]
        /\ owner'[s] = e
    BY <1>1, <2>1, <2>2 DEF TypeOK, Transport
  <2>7. TypeOK'
    BY <1>1, <2>2, <2>3, <2>5, <2>6 DEF TypeOK, app, engine, world, Transport
  <2>8. Owned' /\ Held' /\ Idle'
    BY <1>1, <2>1, <2>2, <2>3, DialKeepsWires DEF Transport, engine, Undialled
  <2>9. Settled' /\ StopIsFinal'
    BY <1>1, <2>1, <2>3, <2>6 DEF Settled, StopIsFinal, app, engine
  <2> QED BY <2>7, <2>8, <2>9 DEF Stopped, Wired
<1>4. CASE Redial(e) /\ wire[e].manuallyClosed
  <2>1. /\ wire' = [wire EXCEPT ![e].retryTimer = FALSE] /\ wire[e].retryTimer
        /\ UNCHANGED <<owner, net, app, engine, signing, world>>
    BY <1>4 DEF Redial
  <2>2. TypeOK'
    BY <1>1, <2>1 DEF TypeOK, app, engine, world
  <2>3. /\ \A d \in Engine : wire'[d].socket = wire[d].socket
        /\ \A d \in Engine : wire'[d].retryTimer => wire[d].retryTimer
        /\ \A d \in Engine : wire'[d].manuallyClosed = wire[d].manuallyClosed
    BY <1>1, <2>1 DEF TypeOK
  <2>4. Owned' /\ Held' /\ Idle'
    BY <1>1, <2>1, <2>3 DEF Owned, Held, Idle, InUse, Undialled, engine
  <2>5. Settled' /\ StopIsFinal'
    BY <1>1, <2>1, <2>3 DEF Settled, StopIsFinal, app, engine
  <2> QED BY <2>2, <2>4, <2>5 DEF Stopped, Wired
<1> QED BY <1>2, <1>3, <1>4 DEF Open, Redial
(* The relay and the network answer, and the signatures go out.             *)
LEMMA AnswersKeepStopped ==
  ASSUME Stopped, NEW s, s \in Socket \/ ShutOut,
         Challenge(s) \/ Signed(s) \/ Verified(s) \/ Lose(s) \/ ShutOut
  PROVE  Stopped'
<1>1. Wired /\ TypeOK /\ Owned /\ Held /\ Idle
  BY DEF Stopped, Wired
<1>2. UNCHANGED <<wsState, leaving, mounted, phase, sweeping, early, wire, owner>>
  BY DEF Challenge, Signed, Verified, Lose, ShutOut, app, engine, link
<1>3. /\ net' \in [Socket -> {"unused", "dialling", "closing"} \cup Up]
      /\ \A t \in Socket :
           \/ net'[t] = net[t]
           \/ /\ net'[t] \in {"closing"} \cup Up
              /\ net[t] \in {"dialling"} \cup Up
  <2>1. CASE Challenge(s) \/ Verified(s) \/ Lose(s)
    BY <1>1, <2>1 DEF Challenge, Verified, Lose, TypeOK, Up
  <2>2. CASE Signed(s)
    <3> PICK t : t = wire[owner[s]].socket
      OBVIOUS
    <3>1. \/ net' = net
          \/ net[t] \in Up /\ \E x \in {"claimed", "refused"} :
                                 net' = [net EXCEPT ![t] = x]
      BY <2>2 DEF Signed
    <3> QED BY <1>1, <3>1 DEF TypeOK, Up
  <2>3. CASE ShutOut
    BY <1>1, <2>3 DEF ShutOut, TypeOK, Up
  <2> QED BY <2>1, <2>2, <2>3
<1>4. signing' \subseteq signing \cup {t \in Socket : InUse(t)} /\ signing' \in SUBSET Socket
  <2>1. \/ signing' \subseteq signing
        \/ (s \in Socket /\ InUse(s) /\ signing' = signing \cup {s})
    BY DEF Challenge, Signed, Verified, Lose, ShutOut, InUse
  <2>2. signing \subseteq Socket
    BY <1>1 DEF TypeOK
  <2>3. CASE signing' \subseteq signing
    BY <2>2, <2>3
  <2>4. CASE s \in Socket /\ InUse(s) /\ signing' = signing \cup {s}
    BY <2>2, <2>4
  <2> QED BY <2>1, <2>3, <2>4
<1>5. member' \in BOOLEAN /\ losses' \in 0..MaxLosses
  <2>1. member' = member \/ member' = FALSE
    BY DEF Challenge, Signed, Verified, Lose, ShutOut, world
  <2>2. losses' = losses \/ (losses < MaxLosses /\ losses' = losses + 1)
    BY DEF Challenge, Signed, Verified, Lose, ShutOut, world
  <2>3. member \in BOOLEAN /\ losses \in 0..MaxLosses
    BY <1>1 DEF TypeOK
  <2>4. member' \in BOOLEAN
    BY <2>1, <2>3
  <2>5. losses' \in 0..MaxLosses
    BY <2>2, <2>3, BoundIsNat
  <2> QED BY <2>4, <2>5
<1>6. TypeOK'
  BY <1>1, <1>2, <1>3, <1>4, <1>5 DEF TypeOK
<1>7. \A t \in Socket : InUse(t)' <=> InUse(t)
  BY <1>3 DEF InUse, Up
<1>8. Owned' /\ Held' /\ Idle'
  BY <1>1, <1>2, <1>3, <1>4, <1>7, AdvanceKeepsWires DEF Undialled, Idle
<1>9. \A t \in Socket : net'[t] \in {"closing", "unused"} \/ net[t] \in {"dialling"} \cup Up
  BY <1>1, <1>3 DEF TypeOK
<1> QED BY <1>2, <1>6, <1>8, <1>9, QuietKeepsStopped DEF TypeOK

(* What the engine and its transport make of an answer.                     *)
LEMMA OutcomesKeepStopped ==
  ASSUME Stopped, NEW s \in Socket, AuthOk(s) \/ AuthError(s)
  PROVE  Stopped'
<1>1. Wired /\ TypeOK /\ Owned /\ Held /\ Idle
  BY DEF Stopped, Wired
<1> PICK e : e = owner[s]
  OBVIOUS
<1>2. e \in Engine /\ net[s] \in Up /\ InUse(s) /\ ~Undialled(e)
  BY <1>1 DEF AuthOk, AuthError, Owned, Idle, InUse, Up
<1>3. UNCHANGED <<wsState, mounted, early, owner, signing, world>>
  BY DEF AuthOk, AuthError, app, link
<1>4. /\ net' \in [Socket -> {"unused", "dialling", "closing"} \cup Up]
      /\ InUse(s)' /\ \A t \in Socket \ {s} : net'[t] = net[t]
  BY <1>1 DEF AuthOk, AuthError, TypeOK, InUse, Up
<1>5. /\ phase' \in [Engine -> {"unbuilt", "starting", "opening", "started", "failed"}]
      /\ \A d \in Engine \ {e} : phase'[d] = phase[d] /\ sweeping'[d] = sweeping[d]
      /\ phase'[e] = phase[e] \/ (phase[e] = "opening" /\ phase'[e] \in {"started", "failed"})
      /\ phase'[e] # "opening"
      /\ sweeping' \in [Engine -> BOOLEAN]
  <2>1. CASE AuthOk(s)
    <3>1. Resolved(e)
      BY <2>1 DEF AuthOk
    <3> QED BY <1>1, <1>2, <3>1 DEF Resolved, TypeOK
  <2>2. CASE AuthError(s)
    <3>1. Failed(e) /\ sweeping' = sweeping
      BY <2>2 DEF AuthError
    <3> QED BY <1>1, <1>2, <3>1 DEF Failed, TypeOK
  <2> QED BY <2>1, <2>2
<1>6. /\ wire' \in [Engine -> Transport]
      /\ \A d \in Engine : wire'[d].socket = wire[d].socket
                           /\ wire'[d].retryTimer = wire[d].retryTimer
                           /\ (wire[d].manuallyClosed => wire'[d].manuallyClosed)
      /\ \A d \in Engine \ {e} : wire'[d] = wire[d]
  <2>1. \/ wire' = [wire EXCEPT ![e].status = "connected"]
        \/ wire' = [wire EXCEPT ![e] = [wire[e] EXCEPT !.manuallyClosed = TRUE,
                                                      !.status = "error"]]
    BY DEF AuthOk, AuthError, Refused
  <2>2. wire[e] \in Transport /\ wire \in [Engine -> Transport]
    BY <1>1, <1>2 DEF TypeOK, Transport
  <2>3. CASE wire' = [wire EXCEPT ![e].status = "connected"]
    BY <1>2, <2>2, <2>3 DEF Transport, Status
  <2>4. CASE wire' = [wire EXCEPT ![e] = [wire[e] EXCEPT !.manuallyClosed = TRUE,
                                                       !.status = "error"]]
    BY <1>2, <2>2, <2>4 DEF Transport, Status
  <2> QED BY <2>1, <2>3, <2>4
<1>7. leaving' \in {"no", "asked", "refused"}
  BY <1>1 DEF AuthOk, AuthError, app, TypeOK
<1>8. TypeOK'
  BY <1>1, <1>3, <1>4, <1>5, <1>6, <1>7 DEF TypeOK, world, Transport
<1>9. \A t \in Socket : (InUse(t)' <=> InUse(t))
        /\ (net'[t] \in {"dialling"} \cup Up => net[t] \in {"dialling"} \cup Up)
  BY <1>2, <1>4 DEF InUse
<1>10. \A d \in Engine : (Undialled(d)' => Undialled(d) /\ ~sweeping'[d])
  BY <1>1, <1>2, <1>5 DEF Undialled, Idle
<1>11. Owned' /\ Held' /\ Idle'
  BY <1>1, <1>3, <1>6, <1>9, <1>10, AdvanceKeepsWires
<1> QED BY <1>1, <1>2, <1>3, <1>4, <1>5, <1>6, <1>8, <1>11, QuietKeepsStopped DEF TypeOK

(* onclose: the transport has no other socket, and waits to dial again.     *)
LEMMA ClosedKeepsStopped ==
  ASSUME Stopped, NEW s \in Socket, Closed(s)
  PROVE  Stopped'
<1>1. Wired /\ TypeOK /\ Owned /\ Held /\ Idle
  BY DEF Stopped, Wired
<1> PICK e : e = owner[s]
  OBVIOUS
<1>2. e \in Engine /\ net[s] = "closing" /\ InUse(s) /\ ~Undialled(e)
  BY <1>1 DEF Closed, Owned, Idle, InUse
<1>3. UNCHANGED <<wsState, leaving, mounted, sweeping, early, owner, signing, world>>
  BY DEF Closed, app
<1>4. /\ net' \in [Socket -> {"unused", "dialling", "closing"} \cup Up]
      /\ net'[s] = "unused" /\ \A t \in Socket \ {s} : net'[t] = net[t]
  BY <1>1 DEF Closed, TypeOK
<1>5. /\ phase' \in [Engine -> {"unbuilt", "starting", "opening", "started", "failed"}]
      /\ \A d \in Engine \ {e} : phase'[d] = phase[d]
      /\ phase'[e] = phase[e] \/ (phase[e] = "opening" /\ phase'[e] = "failed")
      /\ phase'[e] # "opening"
  <2>1. Failed(e)
    BY DEF Closed
  <2> QED BY <1>1, <1>2, <2>1 DEF Failed, TypeOK
<1>6. /\ wire' \in [Engine -> Transport] /\ wire'[e].socket = None
      /\ \A d \in Engine \ {e} : wire'[d] = wire[d]
      /\ wire[e].manuallyClosed => wire'[e].manuallyClosed
                                   /\ wire'[e].retryTimer = wire[e].retryTimer
  <2>1. wire' = [wire EXCEPT ![e] = AfterClose(wire[e])]
    BY DEF Closed
  <2>2. wire[e] \in Transport /\ wire \in [Engine -> Transport]
    BY <1>1, <1>2 DEF TypeOK, Transport
  <2> QED BY <1>2, <2>1, <2>2 DEF AfterClose, Transport, Status
<1>7. TypeOK'
  BY <1>1, <1>3, <1>4, <1>5, <1>6 DEF TypeOK, world, Transport
<1>8. \A t \in Socket : (InUse(t)' <=> InUse(t) /\ t # s) /\ (owner[t] = e => ~InUse(t)')
  BY <1>1, <1>2, <1>4 DEF InUse, Owned
<1>9. Owned' /\ Idle'
  BY <1>1, <1>2, <1>3, <1>5, <1>6, <1>8 DEF Owned, Idle, Undialled
<1>10. Held'
  BY <1>1, <1>3, <1>4, <1>6, <1>8, NoneIsNeither DEF Held, Owned, InUse, Up
<1>11. \A t \in Socket : net'[t] \in {"closing", "unused"} \/ net[t] \in {"dialling"} \cup Up
  BY <1>1, <1>4 DEF TypeOK
<1> QED BY <1>2, <1>3, <1>5, <1>6, <1>7, <1>9, <1>10, <1>11, QuietKeepsStopped
-----------------------------------------------------------------------------
(* The parts of the state stay well typed, and what was stopped stopped.    *)
LEMMA StoppedAlways == Spec => []Stopped
<1>1. ASSUME Stopped, [Next]_vars PROVE Stopped'
  <2>1. CASE \E e \in Engine : Steps(e)
    BY <1>1, <2>1, MountKeepsStopped, DialKeepsStopped DEF Steps
  <2>2. CASE \E s \in Socket : Events(s) \/ Lose(s)
    BY <1>1, <2>2, AnswersKeepStopped, OutcomesKeepStopped, ClosedKeepsStopped DEF Events
  <2>3. CASE Unmount \/ Leave \/ Landed
    BY <1>1, <2>3, PageKeepsStopped
  <2>4. CASE ShutOut
    <3>1. PICK s : s = None
      OBVIOUS
    <3> QED BY <1>1, <2>4, AnswersKeepStopped
  <2>5. CASE UNCHANGED vars
    <3>1. UNCHANGED <<wsState, leaving, mounted, phase, sweeping, early, wire, owner, net,
                      signing, member, losses>>
      BY <2>5 DEF vars, app, engine, link, world
    <3> QED BY <1>1, <3>1 DEF Stopped, Wired, TypeOK, Owned, Held, Idle, Settled,
               StopIsFinal, Undialled, InUse
  <2> QED BY <1>1, <2>1, <2>2, <2>3, <2>4, <2>5 DEF Next
<1> QED BY <1>1, WiredAtFirst, PTL DEF Spec

(* Every state of the page, its engines and its sockets is well typed, for  *)
(* any number of them; a transport that connects has settled open().        *)
THEOREM TypeCorrect == Spec => []TypeOK
<1>1. Stopped => TypeOK
  BY DEF Stopped, Wired
<1> QED BY <1>1, StoppedAlways, PTL

(* An engine that the page has let go of has no timer, no sweep and no open *)
(* connection, unless it was stopped while start() read the database.       *)
THEOREM EnginesStayStopped == Spec => []StopIsFinal
<1>1. Stopped => StopIsFinal
  BY DEF Stopped
<1> QED BY <1>1, StoppedAlways, PTL

-----------------------------------------------------------------------------
(* Where a signature is ready before the next retry, it is for the socket   *)
(* in use, or for none; so a member is never refused.                       *)
Prompt ==
  /\ \A s \in signing : /\ wire[owner[s]].socket \in {None, s}
                        /\ net[s] \in {"open", "closing", "unused"}
  /\ \A s \in Socket : net[s] = "refused" => ~member
  /\ MemberStays

(* What says it is connected has the socket that the relay let in.          *)
Usable ==
  \A e \in Engine : wire[e].status = "connected" =>
    /\ wire[e].socket # None
    /\ net[wire[e].socket] \in {"live", "closing"}

Welcome == Prompt /\ Usable

(* A transport dials.                                                      *)
LEMMA DialKeepsWelcome ==
  ASSUME ~SlowSigning, Stopped, Welcome, NEW e \in Engine, Open(e) \/ Redial(e)
  PROVE  Welcome'
<1>1. TypeOK /\ Owned /\ Held /\ Idle
  BY DEF Stopped, Wired
<1>2. Prompt /\ Usable
  BY DEF Welcome
<1>3. UNCHANGED <<leaving, member, signing>>
  BY DEF Open, Redial, app, world
<1>4. \A s \in signing : owner[s] # e \/ wire'[e].socket \in {None, s}
  <2>1. CASE Open(e)
    BY <1>1, <2>1 DEF Open, Idle, Undialled
  <2>2. CASE Redial(e)
    BY <2>2 DEF Redial
  <2> QED BY <2>1, <2>2
<1>5. CASE Redial(e) /\ wire[e].manuallyClosed
  <2>1. wire' = [wire EXCEPT ![e].retryTimer = FALSE] /\ UNCHANGED <<owner, net>>
    BY <1>5 DEF Redial
  <2>2. \A d \in Engine : wire'[d].socket = wire[d].socket /\ wire'[d].status = wire[d].status
    BY <1>1, <2>1 DEF TypeOK
  <2> QED BY <1>1, <1>2, <1>3, <2>1, <2>2 DEF Welcome, Prompt, Usable, MemberStays, Owned, TypeOK
<1>6. CASE Open(e) \/ ~wire[e].manuallyClosed
  <2>1. PICK s \in Socket :
          /\ net[s] = "unused" /\ s \notin signing
          /\ wire'[e].socket = s /\ wire'[e].status = "connecting"
          /\ \A d \in Engine \ {e} : wire'[d] = wire[d]
          /\ owner' = [owner EXCEPT ![s] = e]
          /\ net' = [net EXCEPT ![s] = "dialling"]
    <3>1. PICK w \in Transport : Dial(e, w)
      <4>1. CASE Open(e)
        BY <1>1, <4>1 DEF Open, TypeOK, Transport
      <4>2. CASE Redial(e)
        BY <1>1, <1>6, <4>2 DEF Redial, Open, TypeOK, Transport
      <4> QED BY <4>1, <4>2
    <3>2. PICK s : s = CHOOSE t \in Unused : TRUE
      OBVIOUS
    <3>3. /\ s \in Unused
          /\ wire' = [wire EXCEPT ![e] = [w EXCEPT !.socket = s, !.status = "connecting"]]
          /\ owner' = [owner EXCEPT ![s] = e]
          /\ net' = [net EXCEPT ![s] = "dialling"]
      BY <3>1, <3>2 DEF Dial
    <3> QED BY <1>1, <3>3 DEF Unused, TypeOK, Transport
  <2>2. /\ owner'[s] = e /\ net'[s] = "dialling"
        /\ \A t \in Socket \ {s} : owner'[t] = owner[t] /\ net'[t] = net[t]
    BY <1>1, <2>1 DEF TypeOK
  <2>3. Prompt'
    <3>1. ASSUME NEW t \in signing
          PROVE  /\ wire'[owner'[t]].socket \in {None, t}
                 /\ net'[t] \in {"open", "closing", "unused"}
      <4>1. t \in Socket /\ t # s /\ owner[t] \in Engine
        BY <1>1, <2>1 DEF TypeOK, Owned
      <4> QED BY <4>1, <1>2, <1>4, <2>1, <2>2 DEF Prompt
    <3>2. \A t \in Socket : net'[t] = "refused" => ~member
      BY <1>2, <2>2 DEF Prompt
    <3> QED BY <3>1, <3>2, <1>2, <1>3 DEF Prompt, MemberStays
  <2>4. Usable'
    <3> SUFFICES ASSUME NEW d \in Engine, wire'[d].status = "connected"
                 PROVE  wire'[d].socket # None /\ net'[wire'[d].socket] \in {"live", "closing"}
      BY DEF Usable
    <3>1. d # e /\ wire'[d] = wire[d]
      BY <2>1
    <3>2. wire[d].socket # None /\ net[wire[d].socket] \in {"live", "closing"}
          /\ wire[d].socket \in Socket
      BY <1>1, <1>2, <3>1 DEF Usable, TypeOK
    <3> QED BY <2>1, <2>2, <3>1, <3>2
  <2> QED BY <2>3, <2>4 DEF Welcome
<1> QED BY <1>5, <1>6
(* The page: what it stops loses its socket, and nobody is refused by it.   *)
LEMMA PageKeepsWelcome ==
  ASSUME Stopped, Welcome, (\E e \in Engine : Mount(e)) \/ Unmount \/ Leave \/ Landed
  PROVE  Welcome'
<1>1. TypeOK /\ Wired /\ Prompt /\ Usable
  BY DEF Stopped, Wired, Welcome
<1>2. UNCHANGED <<owner, signing, member>> /\ (leaving' = leaving \/ leaving' # "refused")
  BY DEF Mount, Unmount, Leave, Landed, link, world
<1>3. CASE UNCHANGED <<wire, net>>
  BY <1>1, <1>2, <1>3 DEF Welcome, Prompt, Usable, MemberStays
<1>4. CASE mounted \in Engine /\ Stop(mounted)
  <2>1. /\ wire'[mounted].socket = None /\ wire'[mounted].status = "idle"
        /\ \A d \in Engine \ {mounted} : wire'[d] = wire[d]
    BY <1>1, <1>4 DEF Stop, Disconnected, TypeOK
  <2>2. \A s \in Socket : net'[s] = net[s] \/ net'[s] = "closing"
    BY <1>4 DEF Stop
  <2>3. Prompt'
    BY <1>1, <1>2, <2>1, <2>2 DEF Prompt, MemberStays, Wired, Owned, TypeOK
  <2>4. Usable'
    BY <1>1, <2>1, <2>2 DEF Usable, TypeOK
  <2> QED BY <2>3, <2>4 DEF Welcome
<1> QED BY <1>1, <1>3, <1>4 DEF Mount, Unmount, Leave, Landed, engine, link, TypeOK

(* Steps that leave the transports alone, and their sockets too unless they *)
(* end or take the next step towards being let in.                          *)
LEMMA AnswersKeepWelcome ==
  ASSUME ~SlowSigning, Stopped, Welcome, NEW s, s \in Socket \/ ShutOut,
         Challenge(s) \/ Signed(s) \/ Verified(s) \/ Lose(s) \/ ShutOut
  PROVE  Welcome'
<1>1. TypeOK /\ Owned /\ Held /\ Prompt /\ Usable
  BY DEF Stopped, Wired, Welcome
<1>2. UNCHANGED <<leaving, wire, owner>>
  BY DEF Challenge, Signed, Verified, Lose, ShutOut, app, link
<1>3. CASE Challenge(s) /\ s \in Socket
  <2>1. /\ net[s] = "dialling" /\ signing' = signing \cup {s} /\ member' = member
        /\ net'[s] = "open" /\ \A t \in Socket \ {s} : net'[t] = net[t]
    BY <1>1, <1>3 DEF Challenge, TypeOK, world
  <2>2. wire[owner[s]].socket = s
    BY <1>1, <1>3, <2>1 DEF Held
  <2> QED BY <1>1, <1>2, <2>1, <2>2 DEF Welcome, Prompt, Usable, MemberStays, TypeOK
<1>4. CASE Signed(s) /\ s \in Socket
  <2> PICK t : t = wire[owner[s]].socket
    OBVIOUS
  <2>1. /\ s \in signing /\ signing' = signing \ {s} /\ member' = member
        /\ t \in {None, s} /\ net[s] \in {"open", "closing", "unused"}
    BY <1>1, <1>4 DEF Signed, Prompt, world
  <2>2. \A u \in Socket : \/ net'[u] = net[u]
                          \/ u = s /\ net[s] = "open"
                             /\ net'[s] = IF member THEN "claimed" ELSE "refused"
    BY <1>1, <1>4, <2>1, NoneIsNeither DEF Signed, Answers, TypeOK, Up
  <2> QED BY <1>1, <1>2, <2>1, <2>2 DEF Welcome, Prompt, Usable, MemberStays, TypeOK
<1>5. CASE Verified(s) /\ s \in Socket
  <2>1. /\ net[s] = "claimed" /\ UNCHANGED <<signing, member>>
        /\ net'[s] = "granted" /\ \A t \in Socket \ {s} : net'[t] = net[t]
    BY <1>1, <1>5 DEF Verified, TypeOK, world
  <2> QED BY <1>1, <1>2, <2>1 DEF Welcome, Prompt, Usable, MemberStays, TypeOK
<1>6. CASE (Lose(s) /\ s \in Socket) \/ ShutOut
  <2>1. /\ signing' = signing /\ (member' => member)
        /\ \A t \in Socket : net'[t] = net[t] \/ net'[t] = "closing"
    BY <1>1, <1>6 DEF Lose, ShutOut, TypeOK
  <2> QED BY <1>1, <1>2, <2>1 DEF Welcome, Prompt, Usable, MemberStays, TypeOK
<1> QED BY <1>3, <1>4, <1>5, <1>6

(* The relay lets the device in, refuses it, or the socket is gone.        *)
LEMMA OutcomesKeepWelcome ==
  ASSUME Stopped, Welcome, NEW s \in Socket, AuthOk(s) \/ AuthError(s) \/ Closed(s)
  PROVE  Welcome'
<1>1. TypeOK /\ Owned /\ Held /\ Prompt /\ Usable
  BY DEF Stopped, Wired, Welcome
<1> PICK e : e = owner[s]
  OBVIOUS
<1>2. e \in Engine /\ InUse(s)
  BY <1>1 DEF AuthOk, AuthError, Closed, Owned, InUse
<1>3. UNCHANGED <<owner, signing, member>>
  BY DEF AuthOk, AuthError, Closed, world
<1>4. /\ \A d \in Engine \ {e} : wire'[d] = wire[d]
      /\ \A t \in Socket \ {s} : net'[t] = net[t]
      /\ \A d \in Engine \ {e} : wire[d].socket # s
  <2>1. /\ \E w : wire' = [wire EXCEPT ![e] = w]
        /\ \E n : net' = [net EXCEPT ![s] = n]
    <3>1. CASE AuthOk(s)
      BY <3>1 DEF AuthOk
    <3>2. CASE AuthError(s) \/ Closed(s)
      BY <3>2 DEF AuthError, Closed
    <3> QED BY <3>1, <3>2
  <2>2. \A d \in Engine \ {e} : wire[d].socket # s
    BY <1>1 DEF Held
  <2> QED BY <1>1, <2>1, <2>2 DEF TypeOK
<1>5. CASE AuthOk(s)
  <2>1. /\ net[s] = "granted" /\ net'[s] = "live" /\ wire[e].socket = s
        /\ wire'[e].socket = s /\ leaving' = leaving
    BY <1>1, <1>2, <1>5 DEF AuthOk, TypeOK, Held, Up, app
  <2> QED BY SMTT(20), <1>1, <1>3, <1>4, <2>1, NoneIsNeither
          DEF Welcome, Prompt, Usable, MemberStays, TypeOK, Owned
<1>6. CASE AuthError(s)
  <2>1. /\ net[s] = "refused" /\ net'[s] = "closing"
        /\ wire'[e].socket = wire[e].socket /\ wire'[e].status = "error"
    BY <1>1, <1>2, <1>6 DEF AuthError, Refused, TypeOK
  <2>2. ~member
    BY <1>1, <2>1 DEF Prompt
  <2>3. \A d \in Engine : wire'[d].socket = wire[d].socket
    BY <1>4, <2>1
  <2>4. \A t \in Socket : net'[t] \in {net[t], "closing"}
    BY <1>4, <2>1
  <2>5. Prompt'
    BY SMTT(20), <1>1, <1>3, <2>2, <2>3, <2>4 DEF Welcome, Prompt, MemberStays, TypeOK, Owned
  <2>6. Usable'
    <3>1. \A d \in Engine : wire[d].socket \in Socket \cup {None}
      BY <1>1 DEF TypeOK, Transport
    <3>2. \A d \in Engine \ {e} : wire'[d].status = wire[d].status
      BY <1>4
    <3> QED BY <1>1, <2>1, <2>3, <2>4, <3>1, <3>2 DEF Usable
  <2> QED BY <2>5, <2>6 DEF Welcome
<1>7. CASE Closed(s)
  <2>1. /\ net'[s] = "unused" /\ leaving' = leaving
        /\ wire'[e].socket = None /\ wire'[e].status \in {"error", "disconnected"}
    BY <1>1, <1>2, <1>7 DEF Closed, AfterClose, TypeOK, app
  <2> QED BY <1>1, <1>3, <1>4, <2>1
          DEF Welcome, Prompt, Usable, MemberStays, TypeOK, Owned
<1> QED BY <1>5, <1>6, <1>7

(* It holds for ever.                                                      *)
LEMMA WelcomeAlways == ASSUME ~SlowSigning PROVE Spec => []Welcome
<1>1. Init => Welcome
  BY DEF Init, Welcome, Prompt, Usable, MemberStays
<1>2. ASSUME Stopped, Welcome, [Next]_vars PROVE Welcome'
  <2>1. CASE \E e \in Engine : Steps(e)
    BY <1>2, <2>1, PageKeepsWelcome, DialKeepsWelcome DEF Steps
  <2>2. CASE \E s \in Socket : Events(s) \/ Lose(s)
    BY <1>2, <2>2, AnswersKeepWelcome, OutcomesKeepWelcome DEF Events
  <2>3. CASE Unmount \/ Leave \/ Landed
    BY <1>2, <2>3, PageKeepsWelcome
  <2>4. CASE ShutOut
    <3>1. PICK s : s = None
      OBVIOUS
    <3> QED BY <1>2, <2>4, AnswersKeepWelcome
  <2>5. CASE UNCHANGED vars
    BY <1>2, <2>5 DEF vars, app, link, world, Welcome, Prompt, Usable, MemberStays
  <2> QED BY <1>2, <2>1, <2>2, <2>3, <2>4, <2>5 DEF Next
<1> QED BY <1>1, <1>2, StoppedAlways, PTL DEF Spec

(* A page starts to throw its workspace away only if the user asked for it  *)
(* or the relay no longer lets the device in, where a signature is ready    *)
(* before a retry: however sockets close, open and close again, no answer   *)
(* goes to the challenge of another socket.                                 *)
THEOREM MembersAreNotThrownOut == ASSUME ~SlowSigning PROVE Spec => []MemberStays
<1>1. Welcome => MemberStays
  BY DEF Welcome, Prompt
<1> QED BY <1>1, WelcomeAlways, PTL

(* A transport that says it is connected has its own socket, and the relay  *)
(* let that very one in.                                                    *)
THEOREM ConnectedHasItsSocket == ASSUME ~SlowSigning PROVE Spec => []ConnectedIsUsable
<1>1. Stopped /\ Welcome => ConnectedIsUsable
  BY DEF Stopped, Wired, Welcome, Usable, Held, TypeOK, ConnectedIsUsable
<1> QED BY <1>1, StoppedAlways, WelcomeAlways, PTL
-----------------------------------------------------------------------------
(* WebRtc: one offer is out at a time.                                      *)

Message == {"request", "offer", "answer", "ice"} \X Nat

(* A describes no connection and waits for no answer.                       *)
NotOffering == stage["A"] \in {"none", "stable"}

Dialled ==
  /\ pc \in [Page -> Nat] /\ offers \in Nat /\ making \subseteq Nat /\ undone \in BOOLEAN
  /\ stage \in [Page -> {"none", "making", "asked", "sent", "stable"}]
  /\ channel \in [Page -> {"none", "connecting", "open"}]
  /\ inbox \in [Page -> Seq(Message)]
  /\ channel["A"] # "connecting" => NotOffering
  /\ pc["A"] = 0 => stage["A"] = "none"

(* What A is still to hear of its offer: the offer on its way to B, B's     *)
(* handler at work on it, or the answer on its way back.                    *)
OffersOut == {i \in DOMAIN inbox["B"] : inbox["B"][i][1] = "offer"}
AnswersOut == {i \in DOMAIN inbox["A"] : inbox["A"][i][1] = "answer"}

(* Unless A has lost a connection whose offer was out, only its present     *)
(* offer is out, in one place, and only while A waits for the answer.       *)
OneOut ==
  /\ \A i \in OffersOut : /\ inbox["B"][i][2] = pc["A"] /\ stage["A"] = "sent"
                          /\ OffersOut = {i} /\ making = {} /\ AnswersOut = {}
  /\ \A n \in making : /\ n = pc["A"] /\ stage["A"] = "sent"
                       /\ OffersOut = {} /\ AnswersOut = {}
  /\ \A i \in AnswersOut : /\ inbox["A"][i][2] = pc["A"] /\ stage["A"] = "sent"
                           /\ OffersOut = {} /\ making = {} /\ AnswersOut = {i}

Matching == Dialled /\ (~undone => OneOut) /\ AnswerFitsOffer

(* Nothing is out while A does not wait for an answer.                      *)
LEMMA NothingOut ==
  ASSUME OneOut, stage["A"] # "sent"
  PROVE  OffersOut = {} /\ making = {} /\ AnswersOut = {}
BY DEF OneOut

(* A signal goes to the end of a queue.                                     *)
LEMMA Signalled ==
  ASSUME Dialled, NEW p \in Page, NEW m \in Message, Signal(p, m)
  PROVE  /\ inbox' \in [Page -> Seq(Message)]
         /\ \A q \in Page \ {p} : inbox'[q] = inbox[q]
         /\ DOMAIN inbox'[p] = DOMAIN inbox[p] \cup {Len(inbox[p]) + 1}
         /\ inbox'[p][Len(inbox[p]) + 1] = m /\ Len(inbox[p]) + 1 \notin DOMAIN inbox[p]
         /\ \A i \in DOMAIN inbox[p] : inbox'[p][i] = inbox[p][i]
<1> DEFINE q == inbox[p]
<1>1. q \in Seq(Message) /\ inbox' = [inbox EXCEPT ![p] = Append(q, m)]
  BY DEF Dialled, Signal
<1>2. /\ Append(q, m) \in Seq(Message)
      /\ DOMAIN Append(q, m) = DOMAIN q \cup {Len(q) + 1}
      /\ Append(q, m)[Len(q) + 1] = m /\ Len(q) + 1 \notin DOMAIN q
      /\ \A i \in DOMAIN q : Append(q, m)[i] = q[i]
  BY <1>1
<1> QED BY <1>1, <1>2 DEF Dialled

(* Requests and candidates leave what is out as it is.                      *)
LEMMA OtherSignals ==
  ASSUME Dialled, OneOut, NEW p \in Page, NEW m \in Message, Signal(p, m),
         m[1] \notin {"offer", "answer"},
         pc' = pc, stage' = stage, making' = making
  PROVE  OneOut'
<1>1. /\ \A q \in Page \ {p} : inbox'[q] = inbox[q]
      /\ DOMAIN inbox'[p] = DOMAIN inbox[p] \cup {Len(inbox[p]) + 1}
      /\ inbox'[p][Len(inbox[p]) + 1] = m
      /\ \A i \in DOMAIN inbox[p] : inbox'[p][i] = inbox[p][i]
  BY Signalled
<1>2. AnswersOut' = AnswersOut /\ \A i \in AnswersOut : inbox'["A"][i] = inbox["A"][i]
  BY <1>1 DEF AnswersOut, Page
<1>3. OffersOut' = OffersOut /\ \A i \in OffersOut : inbox'["B"][i] = inbox["B"][i]
  BY <1>1 DEF OffersOut, Page
<1> QED BY <1>2, <1>3 DEF OneOut

(* A message is taken from the front of a queue.                            *)
LEMMA Taken ==
  ASSUME NEW q \in Seq(Message), q # <<>>
  PROVE  /\ Tail(q) \in Seq(Message) /\ Head(q) = q[1] /\ 1 \in DOMAIN q
         /\ \A i \in DOMAIN Tail(q) : i + 1 \in DOMAIN q /\ i + 1 # 1 /\ Tail(q)[i] = q[i + 1]
OBVIOUS

(* What leaves an inbox was in it; the rest moves up.                       *)
LEMMA HeardSignals ==
  ASSUME Dialled, NEW p \in Page, inbox[p] # <<>>, Heard(p)
  PROVE  /\ inbox' \in [Page -> Seq(Message)]
         /\ \A q \in Page \ {p} : inbox'[q] = inbox[q]
         /\ 1 \in DOMAIN inbox[p] /\ Head(inbox[p]) = inbox[p][1]
         /\ inbox[p][1][2] \in Nat
         /\ \A i \in DOMAIN inbox'[p] : /\ i + 1 \in DOMAIN inbox[p] /\ i + 1 # 1
                                        /\ inbox'[p][i] = inbox[p][i + 1]
<1>1. inbox[p] \in Seq(Message)
  BY DEF Dialled
<1>2. inbox' = [inbox EXCEPT ![p] = Tail(inbox[p])] /\ inbox'[p] = Tail(inbox[p])
  BY DEF Heard, Dialled
<1>3. Tail(inbox[p]) \in Seq(Message)
  BY <1>1, Taken
<1>4. inbox' \in [Page -> Seq(Message)] /\ \A q \in Page \ {p} : inbox'[q] = inbox[q]
  BY <1>2, <1>3 DEF Dialled
<1>5. 1 \in DOMAIN inbox[p] /\ inbox[p][1] \in Message
  BY <1>1, Taken
<1>6. inbox[p][1][2] \in Nat
  BY <1>5 DEF Message
<1> QED BY <1>1, <1>2, <1>4, <1>5, <1>6, Taken

(* After a signal was lost or heard no more is out than before.             *)
LEMMA LessIsOut ==
  ASSUME OneOut, Dialled, pc'["A"] = pc["A"], stage'["A"] = stage["A"], making' \subseteq making,
         inbox' = inbox \/ \E p \in Page : inbox[p] # <<>> /\ Heard(p)
  PROVE  OneOut'
<1>1. CASE inbox' = inbox
  BY <1>1 DEF OneOut, OffersOut, AnswersOut
<1>2. ASSUME NEW p \in Page, inbox[p] # <<>>, Heard(p)
      PROVE  OneOut'
  <2> DEFINE a == IF p = "A" THEN 1 ELSE 0
             b == IF p = "B" THEN 1 ELSE 0
  <2>1. /\ \A q \in Page \ {p} : inbox'[q] = inbox[q]
        /\ \A i \in DOMAIN inbox'[p] : /\ i + 1 \in DOMAIN inbox[p]
                                       /\ inbox'[p][i] = inbox[p][i + 1]
        /\ inbox' \in [Page -> Seq(Message)]
    BY <1>2, HeardSignals
  <2>2. \A q \in Page : \A i \in DOMAIN inbox'[q] : i \in Int
    BY <2>1
  <2>3. \A i \in AnswersOut' : i \in Int /\ i + a \in AnswersOut
                               /\ inbox'["A"][i] = inbox["A"][i + a]
    BY <2>1, <2>2 DEF AnswersOut, Page
  <2>4. \A i \in OffersOut' : i \in Int /\ i + b \in OffersOut
                              /\ inbox'["B"][i] = inbox["B"][i + b]
    BY <2>1, <2>2 DEF OffersOut, Page
  <2>5. a \in Int /\ b \in Int
    OBVIOUS
  <2> HIDE DEF a, b
  <2>6. (AnswersOut = {} => AnswersOut' = {}) /\ (OffersOut = {} => OffersOut' = {})
    BY <2>3, <2>4
  <2>7. /\ \A i, j \in AnswersOut' : i = j
        /\ \A i, j \in OffersOut' : i = j
    BY <2>3, <2>4, <2>5 DEF OneOut
  <2> QED BY <2>3, <2>4, <2>6, <2>7 DEF OneOut
<1> QED BY <1>1, <1>2

(* No offer is out at first.                                               *)
LEMMA MatchingAtFirst == RtcInit => Matching
<1> SUFFICES ASSUME RtcInit PROVE Matching
  OBVIOUS
<1> DEFINE no == <<>>
<1>1. no \in Seq(Message) /\ inbox = [p \in Page |-> no]
  BY DEF RtcInit
<1> HIDE DEF no
<1>2. inbox \in [Page -> Seq(Message)]
  BY <1>1
<1>3. Dialled
  BY <1>2 DEF RtcInit, Page, NoOffer, Dialled, NotOffering
<1>4. OneOut
  BY DEF RtcInit, Page, NoOffer, OneOut, OffersOut, AnswersOut
<1>5. AnswerFitsOffer
  BY DEF RtcInit, NoOffer, AnswerFitsOffer
<1> QED BY <1>3, <1>4, <1>5 DEF Matching

(* A dials while it waits for no answer, so nothing is out.                 *)
LEMMA MakeOfferKeepsMatching ==
  ASSUME Dialled, ~undone => OneOut, NotOffering, NEW how \in {"making", "asked"}, MakeOffer(how),
         inbox' = inbox \/ \E p \in Page : inbox[p] # <<>> /\ Heard(p),
         UNCHANGED <<making, undone>>
  PROVE  Matching'
<1>1. /\ pc' = [pc EXCEPT !["A"] = offers + 1] /\ offers' = offers + 1
      /\ stage' = [stage EXCEPT !["A"] = how] /\ remote' = 0
      /\ channel' = [channel EXCEPT !["A"] = "connecting"]
  BY DEF MakeOffer, NoOffer
<1>2. inbox' \in [Page -> Seq(Message)]
  BY HeardSignals DEF Dialled
<1>3. Dialled'
  BY <1>1, <1>2 DEF Dialled, Page
<1>4. ~undone' => OneOut'
  <2> SUFFICES ASSUME ~undone PROVE OneOut'
    OBVIOUS
  <2>1. OffersOut = {} /\ making = {} /\ AnswersOut = {}
    BY NothingOut DEF NotOffering
  <2>2. OffersOut' = {} /\ AnswersOut' = {}
    <3>1. CASE inbox' = inbox
      BY <2>1, <3>1 DEF OffersOut, AnswersOut
    <3>2. ASSUME NEW p \in Page, inbox[p] # <<>>, Heard(p)
          PROVE  OffersOut' = {} /\ AnswersOut' = {}
      <4>1. /\ \A q \in Page \ {p} : inbox'[q] = inbox[q]
            /\ \A i \in DOMAIN inbox'[p] : /\ i + 1 \in DOMAIN inbox[p]
                                           /\ inbox'[p][i] = inbox[p][i + 1]
        BY <3>2, HeardSignals
      <4>2. OffersOut' = {}
        BY <2>1, <4>1 DEF OffersOut, Page
      <4>3. AnswersOut' = {}
        BY <2>1, <4>1 DEF AnswersOut, Page
      <4> QED BY <4>2, <4>3
    <3> QED BY <3>1, <3>2
  <2> QED BY <2>1, <2>2 DEF OneOut
<1>5. AnswerFitsOffer'
  BY <1>1 DEF AnswerFitsOffer, NoOffer
<1> QED BY <1>3, <1>4, <1>5 DEF Matching

(* A connection of A that ends was not waiting for an answer, or the offer  *)
(* that was out is remembered as undone.                                    *)
LEMMA EndsKeepMatching ==
  ASSUME Matching, NEW p \in Page, Teardown(p),
         p = "A" /\ ~undone' => stage["A"] # "sent",
         undone' \in BOOLEAN, undone => undone', making' \subseteq making,
         inbox' = inbox \/ \E q \in Page : inbox[q] # <<>> /\ Heard(q),
         UNCHANGED <<remote, offers>>
  PROVE  Matching'
<1>1. Dialled /\ (~undone => OneOut) /\ AnswerFitsOffer
  BY DEF Matching
<1>2. /\ pc' = [pc EXCEPT ![p] = 0] /\ stage' = [stage EXCEPT ![p] = "none"]
      /\ channel' = [channel EXCEPT ![p] = "none"]
  BY DEF Teardown, NoOffer
<1>3. inbox' \in [Page -> Seq(Message)]
  BY <1>1, HeardSignals DEF Dialled
<1>4. \/ p = "A" /\ pc'["A"] = 0 /\ stage'["A"] = "none"
      \/ p = "B" /\ pc'["A"] = pc["A"] /\ stage'["A"] = stage["A"] /\ channel'["A"] = channel["A"]
  BY <1>1, <1>2 DEF Dialled, Page
<1>5. Dialled'
  <2>1. channel'["A"] # "connecting" => NotOffering'
    BY <1>1, <1>4 DEF Dialled, NotOffering
  <2>2. pc' \in [Page -> Nat] /\ making' \subseteq Nat
        /\ stage' \in [Page -> {"none", "making", "asked", "sent", "stable"}]
        /\ channel' \in [Page -> {"none", "connecting", "open"}]
    BY <1>1, <1>2 DEF Dialled
  <2> QED BY <1>1, <1>3, <1>4, <2>1, <2>2 DEF Dialled
<1>6. ASSUME ~undone' PROVE OneOut'
  <2>1. OneOut
    BY <1>1, <1>6
  <2>2. CASE p = "A"
    <3>1. OffersOut = {} /\ making = {} /\ AnswersOut = {}
      BY <1>6, <2>1, <2>2, NothingOut
    <3>2. OneOut /\ pc["A"] = pc["A"]
      BY <2>1
    <3>3. OffersOut' = {} /\ AnswersOut' = {}
      <4>1. CASE inbox' = inbox
        BY <3>1, <4>1 DEF OffersOut, AnswersOut
      <4>2. ASSUME NEW q \in Page, inbox[q] # <<>>, Heard(q)
            PROVE  OffersOut' = {} /\ AnswersOut' = {}
        <5>1. /\ \A r \in Page \ {q} : inbox'[r] = inbox[r]
              /\ \A i \in DOMAIN inbox'[q] : /\ i + 1 \in DOMAIN inbox[q]
                                             /\ inbox'[q][i] = inbox[q][i + 1]
          BY <1>1, <4>2, HeardSignals
        <5>2. OffersOut' = {}
          BY <3>1, <5>1 DEF OffersOut, Page
        <5>3. AnswersOut' = {}
          BY <3>1, <5>1 DEF AnswersOut, Page
        <5> QED BY <5>2, <5>3
      <4> QED BY <4>1, <4>2
    <3> QED BY <3>1, <3>3 DEF OneOut
  <2>3. CASE p = "B"
    BY <1>1, <1>4, <2>1, <2>3, LessIsOut
  <2> QED BY <2>2, <2>3 DEF Page
<1>7. AnswerFitsOffer'
  BY <1>1, <1>4 DEF AnswerFitsOffer, NoOffer
<1> QED BY <1>5, <1>6, <1>7 DEF Matching

(* A signal is heard and nothing else happens that A's offer depends on.    *)
LEMMA HearingKeepsMatching ==
  ASSUME Matching, inbox' = inbox \/ \E p \in Page : inbox[p] # <<>> /\ Heard(p),
         UNCHANGED <<pc, stage, remote, channel, making, offers, undone>>
  PROVE  Matching'
<1>1. Dialled /\ (~undone => OneOut) /\ AnswerFitsOffer
  BY DEF Matching
<1>2. inbox' \in [Page -> Seq(Message)]
  BY <1>1, HeardSignals DEF Dialled
<1>3. Dialled'
  BY <1>1, <1>2 DEF Dialled, NotOffering
<1>4. ~undone' => OneOut'
  BY <1>1, LessIsOut
<1> QED BY <1>1, <1>3, <1>4 DEF Matching, AnswerFitsOffer

(* A dials only when no offer of its own is out.                            *)
LEMMA DialsKeepMatching ==
  ASSUME Matching, TrySendA \/ TrySendB \/ SendOffer \/ \E p \in Page : SendCandidate(p)
  PROVE  Matching'
<1>1. Dialled /\ (~undone => OneOut) /\ AnswerFitsOffer
  BY DEF Matching
<1>2. CASE TrySendA
  <2>1. inbox' = inbox /\ making' = making /\ undone' = undone /\ NotOffering
    BY <1>1, <1>2 DEF TrySendA, NoOffer, handlers, Dialled, NotOffering
  <2> QED BY <1>1, <1>2, <2>1, MakeOfferKeepsMatching DEF TrySendA
<1>3. CASE TrySendB \/ \E p \in Page : SendCandidate(p)
  <2>1. PICK p \in Page, m \in Message : Signal(p, m) /\ m[1] \in {"request", "ice"}
    <3>1. CASE TrySendB
      <4>1. <<"request", 0>> \in Message
        BY DEF Message
      <4> QED BY <3>1, <4>1 DEF TrySendB, Page, NoOffer
    <3>2. ASSUME NEW p \in Page, SendCandidate(p)
          PROVE  \E q \in Page, m \in Message : Signal(q, m) /\ m[1] \in {"request", "ice"}
      <4>1. <<"ice", pc[p]>> \in Message /\ Other(p) \in Page
        BY <1>1 DEF Message, Dialled, Other, Page
      <4> QED BY <3>2, <4>1 DEF SendCandidate
    <3> QED BY <1>3, <3>1, <3>2
  <2>2. UNCHANGED <<pc, stage, remote, channel, making, offers, undone>>
    BY <1>3 DEF TrySendB, SendCandidate, described, handlers
  <2>3. inbox' \in [Page -> Seq(Message)]
    BY <1>1, <2>1, Signalled
  <2>4. Dialled'
    BY <1>1, <2>2, <2>3 DEF Dialled, NotOffering
  <2>5. ~undone' => OneOut'
    BY <1>1, <2>1, <2>2, OtherSignals
  <2> QED BY <1>1, <2>2, <2>4, <2>5 DEF Matching, AnswerFitsOffer
<1>4. CASE SendOffer
  <2> PICK m : m = <<"offer", pc["A"]>>
    OBVIOUS
  <2>1. m \in Message /\ m[1] = "offer" /\ m[2] = pc["A"]
    BY <1>1 DEF Message, Dialled, Page
  <2>2. /\ Signal("B", m) /\ "B" \in Page
        /\ stage["A"] # "sent" /\ ~NotOffering /\ stage' = [stage EXCEPT !["A"] = "sent"]
        /\ UNCHANGED <<pc, remote, channel, making, offers, undone>>
    BY <1>4 DEF SendOffer, Describing, NotOffering, handlers, Page
  <2>3. /\ inbox' \in [Page -> Seq(Message)] /\ inbox'["A"] = inbox["A"]
        /\ DOMAIN inbox'["B"] = DOMAIN inbox["B"] \cup {Len(inbox["B"]) + 1}
        /\ inbox'["B"][Len(inbox["B"]) + 1] = m
        /\ \A i \in DOMAIN inbox["B"] : inbox'["B"][i] = inbox["B"][i]
    BY <1>1, <2>1, <2>2, Signalled DEF Page
  <2>4. stage'["A"] = "sent"
    BY <1>1, <2>2 DEF Dialled, Page
  <2>5. Dialled'
    BY <1>1, <2>2, <2>3, <2>4 DEF Dialled, NotOffering
  <2>6. ASSUME ~undone PROVE OneOut'
    <3>1. OffersOut = {} /\ making = {} /\ AnswersOut = {}
      BY <1>1, <2>2, <2>6, NothingOut
    <3>2. making' = {} /\ AnswersOut' = {}
      BY <2>2, <2>3, <3>1 DEF AnswersOut
    <3>3. OffersOut' = {Len(inbox["B"]) + 1}
      BY <2>1, <2>3, <3>1 DEF OffersOut
    <3> QED BY <2>1, <2>2, <2>3, <2>4, <3>2, <3>3 DEF OneOut
  <2> QED BY <1>1, <2>2, <2>5, <2>6 DEF Matching, AnswerFitsOffer
<1> QED BY <1>2, <1>3, <1>4

(* What the pages hear.                                                     *)
LEMMA HeardKeepsMatching ==
  ASSUME Matching, OnRequestOffer \/ OnOffer \/ OnAnswer \/ \E p \in Page : OnCandidate(p)
  PROVE  Matching'
<1>1. Dialled /\ (~undone => OneOut) /\ AnswerFitsOffer
  BY DEF Matching
<1>2. CASE OnRequestOffer
  <2>1. inbox["A"] # <<>> /\ Heard("A") /\ UNCHANGED <<making, undone>> /\ "A" \in Page
    BY <1>2 DEF OnRequestOffer, Next1, handlers, Page
  <2>2. CASE NotDialling
    <3>1. NotOffering /\ MakeOffer("asked")
      BY <1>1, <1>2, <2>2 DEF OnRequestOffer, NotDialling, Dialled
    <3> QED BY <1>1, <2>1, <3>1, MakeOfferKeepsMatching
  <2>3. CASE ~NotDialling
    BY <1>2, <2>1, <2>3, HearingKeepsMatching DEF OnRequestOffer, described
  <2> QED BY <2>2, <2>3
<1>3. CASE OnOffer
  <2> PICK n : n = Head(inbox["B"])[2]
    OBVIOUS
  <2>1. /\ inbox["B"] # <<>> /\ Heard("B") /\ UNCHANGED <<remote, offers, undone>>
        /\ Head(inbox["B"])[1] = "offer"
        /\ pc' = [pc EXCEPT !["B"] = n] /\ stage' = [stage EXCEPT !["B"] = "making"]
        /\ making' = making \cup {n} /\ channel' = [channel EXCEPT !["B"] = "none"]
    BY <1>3 DEF OnOffer, Next1
  <2>2. /\ inbox' \in [Page -> Seq(Message)] /\ inbox'["A"] = inbox["A"]
        /\ \A i \in DOMAIN inbox'["B"] : /\ i + 1 \in DOMAIN inbox["B"] /\ i + 1 # 1
                                         /\ inbox'["B"][i] = inbox["B"][i + 1]
        /\ 1 \in DOMAIN inbox["B"] /\ n = inbox["B"][1][2] /\ n \in Nat
        /\ inbox["B"][1][1] = "offer"
    BY <1>1, <2>1, HeardSignals DEF Page
  <2>3. pc'["A"] = pc["A"] /\ stage'["A"] = stage["A"] /\ channel'["A"] = channel["A"]
    BY <1>1, <2>1 DEF Dialled, Page
  <2>4. Dialled'
    BY <1>1, <2>1, <2>2, <2>3 DEF Dialled, NotOffering
  <2>5. ASSUME ~undone PROVE OneOut'
    <3>1. /\ 1 \in OffersOut /\ n = pc["A"] /\ stage["A"] = "sent"
          /\ OffersOut = {1} /\ making = {} /\ AnswersOut = {}
      BY <1>1, <2>2, <2>5 DEF OneOut, OffersOut
    <3>2. \A i \in OffersOut' : i + 1 \in OffersOut /\ i + 1 # 1
      BY <2>2 DEF OffersOut
    <3>3. OffersOut' = {} /\ AnswersOut' = {} /\ making' = {n}
      BY <2>1, <2>2, <3>1, <3>2 DEF AnswersOut
    <3> QED BY <2>3, <3>1, <3>3 DEF OneOut
  <2> QED BY <1>1, <2>1, <2>3, <2>4, <2>5 DEF Matching, AnswerFitsOffer
<1>4. CASE OnAnswer
  <2> PICK n : n = Head(inbox["A"])[2]
    OBVIOUS
  <2>1. /\ inbox["A"] # <<>> /\ Head(inbox["A"])[1] = "answer" /\ Heard("A") /\ "A" \in Page
        /\ UNCHANGED <<pc, channel, making, offers, undone>>
    BY <1>4 DEF OnAnswer, Next1, handlers, Page
  <2>2. /\ inbox' \in [Page -> Seq(Message)] /\ inbox'["B"] = inbox["B"]
        /\ 1 \in DOMAIN inbox["A"] /\ n = inbox["A"][1][2] /\ inbox["A"][1][1] = "answer"
        /\ \A i \in DOMAIN inbox'["A"] : /\ i + 1 \in DOMAIN inbox["A"] /\ i + 1 # 1
                                         /\ inbox'["A"][i] = inbox["A"][i + 1]
    BY <1>1, <2>1, HeardSignals DEF Page
  <2>3. CASE stage["A"] = "sent"
    <3>1. stage' = [stage EXCEPT !["A"] = "stable"] /\ remote' = n
      BY <1>4, <2>3 DEF OnAnswer
    <3>2. Dialled'
      BY <1>1, <2>1, <2>2, <2>3, <3>1 DEF Dialled, NotOffering, Page
    <3>3. ASSUME ~undone PROVE OneOut' /\ n = pc["A"]
      <4>1. /\ 1 \in AnswersOut /\ n = pc["A"]
            /\ OffersOut = {} /\ making = {} /\ AnswersOut = {1}
        BY <1>1, <2>2, <3>3 DEF OneOut, AnswersOut
      <4>2. \A i \in AnswersOut' : i + 1 \in AnswersOut /\ i + 1 # 1
        BY <2>2 DEF AnswersOut
      <4>3. OffersOut' = {} /\ making' = {} /\ AnswersOut' = {}
        BY <2>1, <2>2, <4>1, <4>2 DEF OffersOut
      <4> QED BY <4>1, <4>3 DEF OneOut
    <3> QED BY <2>1, <3>1, <3>2, <3>3 DEF Matching, AnswerFitsOffer
  <2>4. CASE stage["A"] # "sent"
    BY <1>4, <2>1, <2>4, HearingKeepsMatching DEF OnAnswer
  <2> QED BY <2>3, <2>4
<1>5. ASSUME NEW p \in Page, OnCandidate(p)
      PROVE  Matching'
  <2>1. inbox[p] # <<>> /\ Heard(p) /\ UNCHANGED <<making, offers>>
    BY <1>5 DEF OnCandidate, Next1
  <2>2. CASE UNCHANGED <<described, undone>>
    BY <2>1, <2>2, HearingKeepsMatching DEF described
  <2>3. CASE Teardown(p) /\ Undoes(p) /\ remote' = remote
    <3>1. undone' \in BOOLEAN /\ (undone => undone') /\ (p = "A" /\ ~undone' => stage["A"] # "sent")
      BY <1>1, <2>3 DEF Undoes, Dialled
    <3> QED BY <2>1, <2>3, <3>1, EndsKeepMatching
  <2> QED BY <1>5, <2>2, <2>3 DEF OnCandidate
<1> QED BY <1>2, <1>3, <1>4, <1>5

(* B's handler answers, or its connection is gone.                          *)
LEMMA AnswerKeepsMatching ==
  ASSUME Matching, NEW n \in making, SendAnswer(n) \/ AnswerUnsent(n)
  PROVE  Matching'
<1>1. Dialled /\ (~undone => OneOut) /\ AnswerFitsOffer /\ n \in Nat
  BY DEF Matching, Dialled
<1>2. making' = making \ {n} /\ UNCHANGED <<offers, undone, remote>>
  BY DEF SendAnswer, AnswerUnsent, AnswerOffer, described
<1>3. CASE Teardown("B") /\ inbox' = inbox
  BY <1>1, <1>2, <1>3, EndsKeepMatching DEF Page, Dialled
<1>4. CASE UNCHANGED <<described, inbox>>
  <2>1. Dialled'
    BY <1>1, <1>2, <1>4 DEF Dialled, NotOffering, described
  <2>2. ~undone' => OneOut'
    BY <1>1, <1>2, <1>4, LessIsOut DEF described
  <2> QED BY <1>1, <1>2, <1>4, <2>1, <2>2 DEF Matching, AnswerFitsOffer, described
<1>5. CASE AnswerOffer(n)
  <2> PICK m : m = <<"answer", n>>
    OBVIOUS
  <2>1. m \in Message /\ m[1] = "answer" /\ m[2] = n
    BY <1>1 DEF Message
  <2>2. Signal("A", m) /\ "A" \in Page /\ stage' = [stage EXCEPT !["B"] = "stable"]
        /\ UNCHANGED <<pc, channel>>
    BY <1>5 DEF AnswerOffer, Page
  <2>3. /\ inbox' \in [Page -> Seq(Message)] /\ inbox'["B"] = inbox["B"]
        /\ DOMAIN inbox'["A"] = DOMAIN inbox["A"] \cup {Len(inbox["A"]) + 1}
        /\ inbox'["A"][Len(inbox["A"]) + 1] = m
        /\ \A i \in DOMAIN inbox["A"] : inbox'["A"][i] = inbox["A"][i]
    BY <1>1, <2>1, <2>2, Signalled DEF Page
  <2>4. stage'["A"] = stage["A"]
    BY <1>1, <2>2 DEF Dialled, Page
  <2>5. Dialled'
    BY <1>1, <1>2, <2>2, <2>3, <2>4 DEF Dialled, NotOffering
  <2>6. ASSUME OneOut PROVE OneOut'
    <3>1. n = pc["A"] /\ stage["A"] = "sent" /\ OffersOut = {} /\ AnswersOut = {} /\ making = {n}
      BY <2>6 DEF OneOut
    <3>2. OffersOut' = {} /\ making' = {}
      BY <1>2, <2>3, <3>1 DEF OffersOut
    <3>3. AnswersOut' = {Len(inbox["A"]) + 1}
      BY <2>1, <2>3, <3>1 DEF AnswersOut
    <3> QED BY <2>1, <2>2, <2>3, <2>4, <3>1, <3>2, <3>3 DEF OneOut
  <2> QED BY <1>1, <1>2, <2>2, <2>5, <2>6 DEF Matching, AnswerFitsOffer
<1> QED BY <1>3, <1>4, <1>5 DEF SendAnswer, AnswerUnsent

(* The network, failures and a reload put no second offer in flight.        *)
LEMMA NetworkKeepsMatching ==
  ASSUME Matching, NEW p \in Page,
         \/ Establish \/ OfferFails \/ OfferUnsent \/ ChannelCloses(p)
         \/ PeerFailed(p) \/ Breaks(p) \/ LoseSignal(p) \/ ReloadPage(p)
  PROVE  Matching'
<1>1. Dialled /\ (~undone => OneOut) /\ AnswerFitsOffer
  BY DEF Matching
<1>2. CASE Establish \/ ChannelCloses(p)
  <2>1. /\ UNCHANGED <<pc, stage, remote, making, inbox, offers, undone>>
        /\ channel' \in [Page -> {"none", "connecting", "open"}]
        /\ channel'["A"] # "connecting" => NotOffering
    BY <1>1, <1>2 DEF Establish, Matched, ChannelCloses, handlers, Dialled, NotOffering, Page
  <2>2. Dialled'
    BY <1>1, <2>1 DEF Dialled, NotOffering
  <2> QED BY <1>1, <2>1, <2>2 DEF Matching, AnswerFitsOffer, OneOut, OffersOut, AnswersOut
<1>3. CASE PeerFailed(p) \/ Breaks(p)
  <2>1. /\ Teardown(p)
        /\ stage["A"] # "sent" \/ p # "A"
        /\ UNCHANGED <<remote, making, inbox, offers, undone>>
    BY <1>1, <1>3 DEF PeerFailed, OnFailed, Breaks, handlers, Dialled, NotOffering
  <2> QED BY <1>1, <2>1, EndsKeepMatching DEF Dialled
<1>4. CASE ReloadPage(p)
  <2>1. Teardown(p) /\ Undoes(p) /\ making' \subseteq making /\ UNCHANGED <<remote, inbox, offers>>
    BY <1>4 DEF ReloadPage
  <2>2. undone' \in BOOLEAN /\ (undone => undone') /\ (p = "A" /\ ~undone' => stage["A"] # "sent")
    BY <1>1, <2>1 DEF Undoes, Dialled
  <2> QED BY <2>1, <2>2, EndsKeepMatching
<1>5. CASE LoseSignal(p)
  BY <1>5, HearingKeepsMatching DEF LoseSignal, described, handlers
<1>6. CASE OfferFails
  <2>1. UNCHANGED <<making, inbox, offers, remote>>
    BY <1>6 DEF OfferFails, described
  <2>2. CASE UNCHANGED <<described, undone>>
    BY <2>1, <2>2, HearingKeepsMatching DEF described
  <2>3. CASE Teardown("A") /\ Undoes("A")
    <3>1. undone' \in BOOLEAN /\ (undone => undone') /\ (~undone' => stage["A"] # "sent")
      BY <1>1, <2>3 DEF Undoes, Dialled
    <3> QED BY <2>1, <2>3, <3>1, EndsKeepMatching DEF Page
  <2> QED BY <1>6, <2>2, <2>3 DEF OfferFails
<1>7. CASE OfferUnsent
  <2>1. UNCHANGED <<remote, making, inbox, offers, undone>> /\ stage["A"] # "sent"
    BY <1>7 DEF OfferUnsent, Describing, handlers
  <2>2. CASE Teardown("A")
    BY <1>1, <2>1, <2>2, EndsKeepMatching DEF Page, Dialled
  <2>3. CASE /\ stage["A"] = "making" /\ stage' = [stage EXCEPT !["A"] = "sent"]
             /\ UNCHANGED <<pc, channel>>
    <3>1. Dialled'
      BY <1>1, <2>1, <2>3 DEF Dialled, NotOffering, Page
    <3>2. ASSUME ~undone PROVE OneOut'
      <4>1. OffersOut = {} /\ making = {} /\ AnswersOut = {}
        BY <1>1, <2>1, <3>2, NothingOut
      <4>2. OffersOut' = {} /\ making' = {} /\ AnswersOut' = {}
        BY <2>1, <4>1 DEF OffersOut, AnswersOut
      <4> QED BY <4>2 DEF OneOut
    <3> QED BY <1>1, <2>1, <2>3, <3>1, <3>2 DEF Matching, AnswerFitsOffer
  <2> QED BY <1>7, <2>2, <2>3 DEF OfferUnsent
<1> QED BY <1>2, <1>3, <1>4, <1>5, <1>6, <1>7

(* A takes an answer for the offer it was made for: it never has two offers *)
(* out, whatever B asks for, however many signals and candidates are late   *)
(* or lost and however many connections fail, until it loses a connection   *)
(* whose offer is out (webrtc.ts, the request-offer and answer cases).      *)
THEOREM AnswersFit == RtcSpec => []AnswerFitsOffer
<1>1. ASSUME Matching, [RtcNext]_rtcVars PROVE Matching'
  <2>1. CASE RtcNext
    <3>1. CASE TrySendA \/ TrySendB \/ SendOffer \/ \E p \in Page : SendCandidate(p)
      BY <1>1, <3>1, DialsKeepMatching
    <3>2. CASE OnRequestOffer \/ OnOffer \/ OnAnswer \/ \E p \in Page : OnCandidate(p)
      BY <1>1, <3>2, HeardKeepsMatching
    <3>3. CASE \E n \in making : SendAnswer(n) \/ AnswerUnsent(n)
      BY <1>1, <3>3, AnswerKeepsMatching
    <3>4. CASE Establish \/ OfferFails \/ OfferUnsent
      BY <1>1, <3>4, NetworkKeepsMatching DEF Page
    <3>5. CASE \E p \in Page : \/ ChannelCloses(p) \/ PeerFailed(p) \/ Breaks(p)
                               \/ LoseSignal(p) \/ ReloadPage(p)
      BY <1>1, <3>5, NetworkKeepsMatching
    <3> QED BY <2>1, <3>1, <3>2, <3>3, <3>4, <3>5 DEF RtcNext
  <2>2. CASE UNCHANGED rtcVars
    BY <1>1, <2>2, HearingKeepsMatching DEF rtcVars, described, handlers
  <2> QED BY <1>1, <2>1, <2>2
<1>2. Matching => AnswerFitsOffer
  BY DEF Matching
<1> QED BY MatchingAtFirst, <1>1, <1>2, PTL DEF RtcSpec

-----------------------------------------------------------------------------
(* LanSession: the port carries one request and its reply at a time.        *)

Request == [kind : {"start", "stop", "renew", "poll", "mount", "restore", "send"}, id : Nat]
Outcome == {"pending", "dropped", "timeout", "error", "sent", "answered"}
Answer == [type : {"session", "sent", "stopped", "none", "connected", "disconnected"},
           id : Nat, up : BOOLEAN]

Numbered ==
  /\ issued \in Seq(Request) /\ result \in Seq(Outcome) /\ Len(result) = Len(issued)
  /\ panel \in Nat /\ queued \in Seq(Nat) /\ toHost \in Seq(Nat) /\ fromHost \in Seq(Answer)
  /\ active \in Nat /\ starting \in Nat
  /\ starting # 0 => toHost # <<>>
  /\ active = 0 \/ active \in DOMAIN issued
  /\ \A i \in DOMAIN queued : queued[i] \in DOMAIN issued
  /\ session \in [status : {"none", "listening", "connected", "gone"}, id : Nat]

IsReply(m) == m.type \notin {"connected", "disconnected"}
Replies == {i \in DOMAIN fromHost : IsReply(fromHost[i])}

(* A reply that says the envelope was sent comes from having written it.    *)
Vouched(m) ==
  m.type = "sent" /\ m.up => issued[active].kind = "send" /\ active \in written

(* Until a disconnection is taken for a reply, what is on the port is the   *)
(* request the extension waits for, or its reply, and never both.           *)
InTurn ==
  /\ active = 0 => toHost = <<>> /\ Replies = {}
  /\ toHost # <<>> => toHost = <<active>> /\ Replies = {}
  /\ \A i \in Replies : Replies = {i} /\ toHost = <<>> /\ Vouched(fromHost[i])

Served == Numbered /\ (~crossed => InTurn) /\ SentWasWritten

(* No request is made at first.                                            *)
LEMMA ServedAtFirst == LanInit => Served
<1> SUFFICES ASSUME LanInit PROVE Served
  OBVIOUS
<1>1. Numbered
  BY DEF LanInit, NoId, NoSession, Numbered
<1>2. InTurn /\ SentWasWritten
  BY DEF LanInit, NoId, InTurn, Replies, SentWasWritten
<1> QED BY <1>1, <1>2 DEF Served

(* What Append does.                                                       *)
LEMMA Appended ==
  ASSUME NEW S, NEW q \in Seq(S), NEW m \in S
  PROVE  /\ Append(q, m) \in Seq(S) /\ Len(Append(q, m)) = Len(q) + 1
         /\ DOMAIN Append(q, m) = DOMAIN q \cup {Len(q) + 1}
         /\ Append(q, m)[Len(q) + 1] = m /\ Len(q) + 1 \notin DOMAIN q
         /\ \A i \in DOMAIN q : Append(q, m)[i] = q[i]
OBVIOUS

(* What Tail does.                                                         *)
LEMMA Followed ==
  ASSUME NEW S, NEW q \in Seq(S), q # <<>>
  PROVE  /\ Tail(q) \in Seq(S) /\ Head(q) = q[1] /\ 1 \in DOMAIN q /\ Head(q) \in S
         /\ \A i \in DOMAIN Tail(q) : i + 1 \in DOMAIN q /\ i + 1 # 1 /\ Tail(q)[i] = q[i + 1]
OBVIOUS

(* A request is made: earlier results may be dropped, none becomes "sent".  *)
LEMMA IssueKeepsServed ==
  ASSUME Served, NEW k, NEW s, NEW rs, Issue(k, s, rs),
         [kind |-> k, id |-> s] \in Request, rs \in Seq(Outcome), Len(rs) = Len(result),
         \A n \in DOMAIN result : rs[n] = "sent" => result[n] = "sent",
         panel' \in Nat
  PROVE  Served'
<1>1. Numbered /\ (~crossed => InTurn) /\ SentWasWritten
  BY DEF Served
<1> PICK r : r = [kind |-> k, id |-> s]
  OBVIOUS
<1>2. /\ issued' = Append(issued, r) /\ result' = Append(rs, "pending")
      /\ queued' = Append(queued, Len(issued'))
      /\ UNCHANGED <<active, port, toHost, fromHost, session, starting, route,
                     written, crossed, hosts>>
  BY DEF Issue, pipes, agent, hist
<1>3. /\ issued \in Seq(Request) /\ queued \in Seq(Nat) /\ r \in Request
      /\ "pending" \in Outcome /\ Len(issued) \in Nat
  BY <1>1 DEF Numbered, Outcome
<1>4. /\ issued' \in Seq(Request) /\ Len(issued') = Len(issued) + 1
      /\ DOMAIN issued' = DOMAIN issued \cup {Len(issued) + 1}
      /\ \A i \in DOMAIN issued : issued'[i] = issued[i]
  BY <1>2, <1>3, Appended
<1>5. /\ result' \in Seq(Outcome) /\ Len(result') = Len(rs) + 1
      /\ result'[Len(rs) + 1] = "pending" /\ \A i \in DOMAIN rs : result'[i] = rs[i]
  BY <1>2, <1>3, Appended
<1>6. DOMAIN rs = DOMAIN issued /\ DOMAIN result = DOMAIN issued /\ Len(rs) = Len(issued)
  BY <1>1 DEF Numbered
<1>7. queued' \in Seq(Nat) /\ \A i \in DOMAIN queued' : queued'[i] \in DOMAIN issued'
  <2>1. Len(issued') \in Nat /\ Len(issued') \in DOMAIN issued'
    BY <1>3, <1>4
  <2>2. /\ queued' \in Seq(Nat) /\ DOMAIN queued' = DOMAIN queued \cup {Len(queued) + 1}
        /\ queued'[Len(queued) + 1] = Len(issued')
        /\ \A i \in DOMAIN queued : queued'[i] = queued[i]
    BY <1>2, <1>3, <2>1, Appended
  <2> QED BY <1>1, <1>4, <2>1, <2>2 DEF Numbered
<1>8. Numbered'
  BY <1>1, <1>2, <1>4, <1>5, <1>6, <1>7 DEF Numbered
<1>9. ~crossed' => InTurn'
  BY <1>1, <1>2, <1>4 DEF InTurn, Replies, Vouched, Numbered
<1>10. SentWasWritten'
  BY <1>1, <1>2, <1>4, <1>5, <1>6 DEF SentWasWritten
<1> QED BY <1>8, <1>9, <1>10 DEF Served

(* A request is resolved: it counts as sent on a reply that says so only.   *)
LEMMA ResolvedResults ==
  ASSUME Numbered, NEW n \in DOMAIN issued, NEW m \in Answer,
         NEW f \in {"error", "timeout"}, Resolve(n, m, f)
  PROVE  /\ result' \in Seq(Outcome) /\ Len(result') = Len(result)
         /\ panel' \in Nat /\ issued' = issued
         /\ \A k \in DOMAIN issued : result'[k] = "sent" =>
              result[k] = "sent" \/ (/\ k = n /\ issued[n].kind = "send"
                                     /\ m.type = "sent" /\ m.up)
<1>1. CASE ~Pending(n)
  BY <1>1 DEF Resolve, page, Numbered
<1>2. CASE Pending(n)
  <2>1. /\ issued' = issued
        /\ \E o \in Outcome :
             /\ result' = [result EXCEPT ![n] = o]
             /\ o = "sent" => issued[n].kind = "send" /\ m.type = "sent" /\ m.up
    BY <1>2 DEF Resolve, Outcome
  <2>2. panel' \in Nat
    BY <1>2 DEF Resolve, Shows, NoId, Numbered, Answer
  <2> QED BY <2>1, <2>2 DEF Numbered
<1> QED BY <1>1, <1>2
(* Steps of the page.                                                      *)
LEMMA PageKeepsServed ==
  ASSUME Served,
         \/ SendEnvelope \/ Activate \/ StopListener \/ NewCode
         \/ Poll \/ ReopenPanel \/ PageReload
  PROVE  Served'
<1>1. Numbered
  BY DEF Served
<1>2. ASSUME NEW k \in {"start", "stop", "renew", "poll", "mount", "restore", "send"},
             NEW s \in Nat, Issue(k, s, result), panel' = panel
      PROVE  Served'
  <2>1. [kind |-> k, id |-> s] \in Request
    BY DEF Request
  <2> QED BY <1>1, <1>2, <2>1, IssueKeepsServed DEF Numbered
<1>3. ASSUME NEW k \in {"mount", "restore"}, NEW rs, Issue(k, 0, rs), panel' = 0,
             \E P \in SUBSET DOMAIN result :
               rs = [n \in DOMAIN result |-> IF n \in P THEN "dropped" ELSE result[n]]
      PROVE  Served'
  <2>1. [kind |-> k, id |-> 0] \in Request
    BY DEF Request
  <2>2. /\ rs \in Seq(Outcome) /\ Len(rs) = Len(result)
        /\ \A n \in DOMAIN result : rs[n] = "sent" => result[n] = "sent"
    <3>1. PICK P \in SUBSET DOMAIN result :
            rs = [n \in DOMAIN result |-> IF n \in P THEN "dropped" ELSE result[n]]
      BY <1>3
    <3>2. result \in Seq(Outcome) /\ DOMAIN result = 1..Len(result) /\ Len(result) \in Nat
      BY <1>1 DEF Numbered
    <3>3. \A n \in DOMAIN result : result[n] \in Outcome /\ rs[n] \in Outcome
      BY <3>1, <3>2 DEF Outcome
    <3>4. rs \in [1..Len(result) -> Outcome]
      BY <3>1, <3>2, <3>3
    <3> QED BY <3>1, <3>2, <3>4
  <2> QED BY <1>3, <2>1, <2>2, IssueKeepsServed
<1>4. CASE SendEnvelope \/ Activate \/ StopListener \/ Poll
  BY <1>1, <1>2, <1>4 DEF SendEnvelope, Activate, StopListener, Poll,
                          NoId, Numbered
<1>5. CASE NewCode
  <2>1. \/ Issue("renew", panel, result) /\ panel' = panel
        \/ UNCHANGED <<issued, result, panel, ext, pipes, agent, hist>>
    BY <1>5 DEF NewCode
  <2>2. CASE UNCHANGED <<issued, result, panel, ext, pipes, agent, hist>>
    BY <2>2 DEF ext, pipes, agent, hist, Served, Numbered, InTurn, Replies,
                Vouched, SentWasWritten
  <2> QED BY <1>1, <1>2, <2>1, <2>2 DEF Numbered
<1>6. CASE ReopenPanel
  <2> PICK P : P = {n \in DOMAIN result : Pending(n) /\ OfPanel(n)}
    OBVIOUS
  <2>1. ResultsOnClose = [n \in DOMAIN result |-> IF n \in P THEN "dropped" ELSE result[n]]
    BY DEF ResultsOnClose
  <2> QED BY <1>3, <1>6, <2>1 DEF ReopenPanel, NoId
<1>7. CASE PageReload
  <2> PICK P : P = {n \in DOMAIN result : Pending(n)}
    OBVIOUS
  <2> PICK rs : rs = [n \in DOMAIN result |-> IF Pending(n) THEN "dropped" ELSE result[n]]
    OBVIOUS
  <2>1. rs = [n \in DOMAIN result |-> IF n \in P THEN "dropped" ELSE result[n]]
    OBVIOUS
  <2> QED BY <1>3, <1>7, <2>1 DEF PageReload, NoId
<1> QED BY <1>4, <1>5, <1>6, <1>7

(* A result that turns out "sent" on the reply in turn was written.         *)
LEMMA TimeoutKeepsServed ==
  ASSUME Served, NEW n \in DOMAIN issued, Timeout(n)
  PROVE  Served'
<1>1. Numbered /\ (~crossed => InTurn) /\ SentWasWritten
  BY DEF Served
<1>2. /\ Resolve(n, NoAnswer, "timeout")
      /\ UNCHANGED <<queued, active, port, toHost, fromHost, session, starting, route,
                     written, crossed, hosts>>
  BY DEF Timeout, ext, pipes, agent, hist
<1>3. NoAnswer \in Answer /\ NoAnswer.type = "none"
  BY DEF NoAnswer, Reply, NoId, Answer
<1>4. /\ result' \in Seq(Outcome) /\ Len(result') = Len(result)
      /\ panel' \in Nat /\ issued' = issued
      /\ \A k \in DOMAIN issued : result'[k] = "sent" => result[k] = "sent"
  BY <1>1, <1>2, <1>3, ResolvedResults
<1>5. Numbered'
  BY <1>1, <1>2, <1>4 DEF Numbered
<1>6. ~crossed' => InTurn'
  BY <1>1, <1>2, <1>4 DEF InTurn, Replies, Vouched
<1>7. SentWasWritten'
  BY <1>1, <1>2, <1>4 DEF SentWasWritten
<1> QED BY <1>5, <1>6, <1>7 DEF Served

(* The extension posts the next request, when none is open.                 *)
LEMMA PumpKeepsServed ==
  ASSUME Served, Pump
  PROVE  Served'
<1>1. Numbered /\ (~crossed => InTurn) /\ SentWasWritten
  BY DEF Served
<1>2. /\ active = 0 /\ queued # <<>> /\ active' = Head(queued) /\ queued' = Tail(queued)
      /\ toHost' = Append(toHost, Head(queued))
      /\ UNCHANGED <<issued, result, panel, fromHost, session, starting, written, crossed>>
  BY DEF Pump, page, agent, hist, NoId
<1>3. /\ Tail(queued) \in Seq(Nat) /\ Head(queued) = queued[1] /\ 1 \in DOMAIN queued
      /\ Head(queued) \in Nat
      /\ \A i \in DOMAIN Tail(queued) : /\ i + 1 \in DOMAIN queued
                                        /\ Tail(queued)[i] = queued[i + 1]
  BY <1>1, <1>2, Followed DEF Numbered
<1>4. toHost' \in Seq(Nat) /\ toHost' # <<>>
  BY <1>1, <1>2, <1>3, Appended DEF Numbered
<1>5. Numbered'
  BY <1>1, <1>2, <1>3, <1>4 DEF Numbered
<1>6. ASSUME ~crossed PROVE InTurn'
  <2>1. toHost = <<>> /\ Replies = {}
    BY <1>1, <1>2, <1>6 DEF InTurn
  <2>2. toHost' = <<active'>> /\ Replies' = {}
    BY <1>2, <1>3, <2>1 DEF Replies
  <2>3. active' # 0
    BY <1>1, <1>2, <1>3 DEF Numbered
  <2> QED BY <2>2, <2>3 DEF InTurn
<1>7. SentWasWritten'
  BY <1>1, <1>2 DEF SentWasWritten
<1> QED BY <1>2, <1>5, <1>6, <1>7 DEF Served

(* A message of the agent: an event, or what resolves the open request.     *)
LEMMA MessageKeepsServed ==
  ASSUME Served, OnMessage
  PROVE  Served'
<1>1. Numbered /\ (~crossed => InTurn) /\ SentWasWritten
  BY DEF Served
<1> PICK m : m = Head(fromHost)
  OBVIOUS
<1>2. /\ fromHost # <<>> /\ fromHost' = Tail(fromHost)
      /\ UNCHANGED <<queued, toHost, session, starting, written>>
  BY DEF OnMessage, agent
<1>3. /\ fromHost' \in Seq(Answer) /\ m = fromHost[1] /\ 1 \in DOMAIN fromHost /\ m \in Answer
      /\ \A i \in DOMAIN fromHost' : /\ i + 1 \in DOMAIN fromHost /\ i + 1 # 1
                                     /\ fromHost'[i] = fromHost[i + 1] /\ i \in Int
  BY <1>1, <1>2, Followed DEF Numbered
<1>4. \A i \in Replies' : i + 1 \in Replies /\ fromHost'[i] = fromHost[i + 1] /\ i + 1 # 1
                          /\ i \in Int
  BY <1>3 DEF Replies
<1>5. CASE UNCHANGED <<issued, result, panel, active, crossed>> /\ (IsReply(m) => active = 0)
  <2>1. Numbered'
    BY <1>1, <1>2, <1>3, <1>5 DEF Numbered
  <2>2. ASSUME ~crossed PROVE InTurn'
    <3>1. \A i, j \in Replies' : i = j
      BY <1>1, <1>4, <2>2 DEF InTurn
    <3>2. Replies = {} => Replies' = {}
      BY <1>4
    <3>3. \A i \in Replies' : (Vouched(fromHost[i]))'
      BY <1>1, <1>2, <1>4, <1>5, <2>2 DEF InTurn, Vouched
    <3> QED BY <1>1, <1>2, <1>4, <1>5, <2>2, <3>1, <3>2, <3>3 DEF InTurn
  <2>3. SentWasWritten'
    BY <1>1, <1>2, <1>5 DEF SentWasWritten
  <2> QED BY <1>5, <2>1, <2>2, <2>3 DEF Served
<1>6. CASE /\ m.type \notin Broadcast /\ active # 0 /\ active' = 0
           /\ Resolve(active, m, "error")
           /\ crossed' = (crossed \/ m.type = "disconnected")
  <2>1. active \in DOMAIN issued
    BY <1>1, <1>6 DEF Numbered
  <2>2. /\ result' \in Seq(Outcome) /\ Len(result') = Len(result)
        /\ panel' \in Nat /\ issued' = issued
        /\ \A k \in DOMAIN issued : result'[k] = "sent" =>
             result[k] = "sent" \/ (/\ k = active /\ issued[active].kind = "send"
                                    /\ m.type = "sent" /\ m.up)
    BY <1>1, <1>3, <1>6, <2>1, ResolvedResults
  <2>3. Numbered'
    BY <1>1, <1>2, <1>3, <1>6, <2>2 DEF Numbered
  <2>4. ASSUME ~crossed' PROVE InTurn' /\ ~crossed /\ Vouched(m)
    <3>1. ~crossed /\ m.type \notin {"connected", "disconnected"}
      BY <1>6, <2>4 DEF Broadcast
    <3>2. 1 \in Replies
      BY <1>3, <3>1 DEF Replies, IsReply
    <3>3. Replies = {1} /\ toHost = <<>> /\ Vouched(m)
      BY <1>1, <1>3, <3>1, <3>2 DEF InTurn
    <3>4. Replies' = {}
      BY <1>4, <3>3
    <3> QED BY <1>1, <1>2, <3>1, <3>3, <3>4 DEF InTurn
  <2>5. SentWasWritten'
    BY <1>1, <1>2, <2>2, <2>4 DEF SentWasWritten, Vouched
  <2> QED BY <2>3, <2>4, <2>5 DEF Served
<1> QED
  <2>1. m.type \in Broadcast => ~IsReply(m)
    BY <1>3 DEF Broadcast, IsReply, Answer
  <2>2. \/ m.type \in Broadcast /\ UNCHANGED <<issued, result, panel, active, crossed>>
        \/ active = 0 /\ UNCHANGED <<issued, result, panel, active, crossed>>
        \/ /\ m.type \notin Broadcast /\ active # 0 /\ active' = 0
           /\ Resolve(active, m, "error")
           /\ crossed' = (crossed \/ m.type = "disconnected")
    BY DEF OnMessage, page, NoId, AfterReply
  <2> QED BY <1>5, <1>6, <2>1, <2>2
(* The port is lost with all that is on it, and the open requests fail.     *)
LEMMA LostPortKeepsServed ==
  ASSUME Served, OnDisconnect
  PROVE  Served'
<1>1. Numbered /\ SentWasWritten
  BY DEF Served
<1>2. /\ queued' = <<>> /\ active' = 0 /\ toHost' = <<>> /\ fromHost' = <<>>
      /\ starting' = 0 /\ session' = [status |-> "none", id |-> 0]
      /\ panel' \in {0, panel} /\ UNCHANGED <<issued, written, crossed>>
      /\ \E F : result' = [n \in DOMAIN result |-> IF n \in F THEN "error" ELSE result[n]]
  BY DEF OnDisconnect, HostEnds, NoId, NoSession
<1>3. PICK F : result' = [n \in DOMAIN result |-> IF n \in F THEN "error" ELSE result[n]]
  BY <1>2
<1>4. /\ result' \in Seq(Outcome) /\ Len(result') = Len(result)
      /\ \A n \in DOMAIN issued : result'[n] = "sent" => result[n] = "sent"
  <2>1. /\ result \in Seq(Outcome) /\ DOMAIN result = 1..Len(result) /\ Len(result) \in Nat
        /\ DOMAIN issued = DOMAIN result
    BY <1>1 DEF Numbered
  <2>2. \A n \in DOMAIN result : result[n] \in Outcome /\ result'[n] \in Outcome
    BY <1>3, <2>1 DEF Outcome
  <2>3. result' \in [1..Len(result) -> Outcome]
    BY <1>3, <2>1, <2>2
  <2> QED BY <1>3, <2>1, <2>3
<1>5. Numbered'
  BY <1>1, <1>2, <1>4 DEF Numbered
<1>6. InTurn'
  BY <1>2 DEF InTurn, Replies
<1>7. SentWasWritten'
  BY <1>1, <1>2, <1>4 DEF SentWasWritten
<1> QED BY <1>5, <1>6, <1>7 DEF Served

(* Steps of the agent leave requests, results and what was written, except  *)
(* for one more request that is on the port.                                *)
AgentAlone ==
  /\ UNCHANGED <<issued, result, panel, queued, active, crossed>>
  /\ written \subseteq written'

(* None of them takes an envelope for sent.                                *)
LEMMA AgentAloneKeepsSent ==
  ASSUME SentWasWritten, AgentAlone
  PROVE  SentWasWritten'
BY DEF AgentAlone, SentWasWritten

(* The agent tells something that is no reply.                              *)
LEMMA EventKeepsServed ==
  ASSUME Served, AgentAlone, UNCHANGED <<toHost, starting>>,
         session' \in [status : {"none", "listening", "connected", "gone"}, id : Nat],
         NEW m \in Answer, ~IsReply(m),
         fromHost' = fromHost \/ fromHost' = Append(fromHost, m)
  PROVE  Served'
<1>1. Numbered /\ (~crossed => InTurn) /\ SentWasWritten
  BY DEF Served
<1>2. /\ fromHost' \in Seq(Answer) /\ Replies' = Replies
      /\ \A i \in Replies : fromHost'[i] = fromHost[i]
  <2>1. CASE fromHost' = fromHost
    BY <1>1, <2>1 DEF Numbered, Replies
  <2>2. CASE fromHost' = Append(fromHost, m)
    <3>1. fromHost \in Seq(Answer)
      BY <1>1 DEF Numbered
    <3>2. /\ fromHost' \in Seq(Answer) /\ DOMAIN fromHost' = DOMAIN fromHost \cup {Len(fromHost) + 1}
          /\ fromHost'[Len(fromHost) + 1] = m
          /\ \A i \in DOMAIN fromHost : fromHost'[i] = fromHost[i]
      BY <2>2, <3>1, Appended
    <3>3. Replies' = Replies
      BY <3>2 DEF Replies
    <3> QED BY <3>2, <3>3 DEF Replies
  <2> QED BY <2>1, <2>2
<1>3. Numbered'
  BY <1>1, <1>2 DEF Numbered, AgentAlone
<1>4. ~crossed' => InTurn'
  BY <1>1, <1>2 DEF InTurn, AgentAlone, Vouched
<1> QED BY <1>1, <1>3, <1>4, AgentAloneKeepsSent DEF Served

(* The agent replies to the first request on the port.                      *)
LEMMA ReplyKeepsServed ==
  ASSUME Served, AgentAlone, toHost # <<>>, toHost' = Tail(toHost), starting' = 0,
         session' \in [status : {"none", "listening", "connected", "gone"}, id : Nat],
         NEW m \in Answer,
         \/ fromHost' = Append(fromHost, m)
         \/ \E e \in Answer : ~IsReply(e) /\ fromHost' = Append(Append(fromHost, e), m),
         m.type = "sent" /\ m.up =>
           issued[Head(toHost)].kind = "send" /\ Head(toHost) \in written'
  PROVE  Served'
<1>1. Numbered /\ (~crossed => InTurn) /\ SentWasWritten
  BY DEF Served
<1>2. PICK k : /\ k \in Int /\ fromHost' \in Seq(Answer) /\ fromHost'[k] = m
               /\ Replies' \subseteq Replies \cup {k}
  <2>1. CASE fromHost' = Append(fromHost, m)
    <3>1. fromHost \in Seq(Answer)
      BY <1>1 DEF Numbered
    <3>2. /\ fromHost' \in Seq(Answer) /\ fromHost'[Len(fromHost) + 1] = m
          /\ DOMAIN fromHost' = DOMAIN fromHost \cup {Len(fromHost) + 1}
          /\ \A i \in DOMAIN fromHost : fromHost'[i] = fromHost[i]
      BY <2>1, <3>1, Appended
    <3>3. Replies' \subseteq Replies \cup {Len(fromHost) + 1}
      BY <3>2 DEF Replies
    <3>4. Len(fromHost) + 1 \in Int
      BY <3>1
    <3> QED BY <3>2, <3>3, <3>4
  <2>2. ASSUME NEW e \in Answer, ~IsReply(e), fromHost' = Append(Append(fromHost, e), m)
        PROVE  \E k : /\ k \in Int /\ fromHost' \in Seq(Answer) /\ fromHost'[k] = m
                      /\ Replies' \subseteq Replies \cup {k}
    <3> PICK q : q = Append(fromHost, e)
      OBVIOUS
    <3>1. /\ q \in Seq(Answer) /\ DOMAIN q = DOMAIN fromHost \cup {Len(fromHost) + 1}
          /\ q[Len(fromHost) + 1] = e /\ \A i \in DOMAIN fromHost : q[i] = fromHost[i]
      <4>1. fromHost \in Seq(Answer)
        BY <1>1 DEF Numbered
      <4> QED BY <4>1, Appended
    <3>2. /\ fromHost' \in Seq(Answer) /\ DOMAIN fromHost' = DOMAIN q \cup {Len(q) + 1}
          /\ fromHost'[Len(q) + 1] = m /\ \A i \in DOMAIN q : fromHost'[i] = q[i]
      BY <2>2, <3>1, Appended
    <3>3. Replies' \subseteq Replies \cup {Len(q) + 1}
      BY <2>2, <3>1, <3>2 DEF Replies
    <3>4. Len(q) + 1 \in Int
      BY <3>1
    <3> QED BY <3>2, <3>3, <3>4
  <2> QED BY <2>1, <2>2
<1>3. Numbered'
  BY <1>1, <1>2, Followed DEF Numbered, AgentAlone
<1>4. ASSUME ~crossed PROVE InTurn'
  <2>1. /\ toHost = <<active>> /\ Replies = {} /\ active # 0
        /\ Head(toHost) = active /\ toHost' = <<>>
    <3>1. toHost = <<active>> /\ Replies = {} /\ active # 0
      BY <1>1, <1>4 DEF InTurn
    <3> QED BY <3>1
  <2>2. Replies' \subseteq {k}
    BY <1>2, <2>1
  <2>3. \A i \in Replies' : i = k /\ (Vouched(fromHost[i]))'
    BY <1>2, <2>1, <2>2 DEF Vouched, AgentAlone
  <2> QED BY <2>1, <2>2, <2>3 DEF InTurn, AgentAlone
<1> QED BY <1>1, <1>3, <1>4, AgentAloneKeepsSent DEF Served, AgentAlone
(* Steps of the agent.                                                     *)
LEMMA AgentKeepsServed ==
  ASSUME Served,
         \/ GetLanSession \/ SendLanEnvelope \/ StopLanSession
         \/ StartLanSession \/ Started \/ Expire \/ RouteLost
         \/ Connect \/ ClientGone
  PROVE  Served'
<1>1. Numbered /\ (~crossed => InTurn) /\ SentWasWritten
  BY DEF Served
<1>2. AgentAlone
  BY DEF GetLanSession, SendLanEnvelope, StopLanSession, StartLanSession,
         Started, Expire, RouteLost, Connect, ClientGone,
         page, ext, hist, AgentAlone
<1> DEFINE Sessions == [status : {"none", "listening", "connected", "gone"}, id : Nat]
<1>3. CASE GetLanSession
  <2> PICK told : told \in {<<>>, <<Event("disconnected")>>}
                  /\ fromHost' = fromHost \o told \o <<SessionReply(session')>>
    BY <1>3 DEF GetLanSession
  <2>1. /\ toHost # <<>> /\ starting = 0 /\ starting' = starting /\ toHost' = Tail(toHost)
        /\ session' = session \/ session' = [session EXCEPT !.status = "gone"]
    BY <1>3 DEF GetLanSession, AgentTakes, NoId
  <2>2. session' \in Sessions
    BY <1>1, <2>1 DEF Numbered
  <2> PICK m : m = SessionReply(session')
    OBVIOUS
  <2> PICK e : e = Event("disconnected")
    OBVIOUS
  <2>3. m \in Answer /\ m.type = "session"
    BY <2>2 DEF SessionReply, Reply, Answer
  <2>4. e \in Answer /\ ~IsReply(e)
    BY DEF Event, NoId, Answer, IsReply
  <2>5. \/ fromHost' = Append(fromHost, m)
        \/ fromHost' = Append(Append(fromHost, e), m)
    <3>1. fromHost \in Seq(Answer)
      BY <1>1 DEF Numbered
    <3>2. fromHost \o <<>> \o <<m>> = Append(fromHost, m)
      BY <3>1, <2>3
    <3>3. fromHost \o <<e>> \o <<m>> = Append(Append(fromHost, e), m)
      BY <3>1, <2>3, <2>4
    <3> QED BY <3>2, <3>3
  <2> QED BY <1>2, <2>1, <2>2, <2>3, <2>4, <2>5, ReplyKeepsServed
<1>4. CASE SendLanEnvelope
  <2> PICK m : m = Reply("sent", 0, session.status = "connected")
    OBVIOUS
  <2>1. /\ toHost # <<>> /\ starting' = 0 /\ issued[Head(toHost)].kind = "send"
        /\ toHost' = Tail(toHost) /\ fromHost' = Append(fromHost, m) /\ session' = session
        /\ session.status = "connected" => Head(toHost) \in written'
    BY <1>4 DEF SendLanEnvelope, AgentTakes, AgentReplies, HasSocket, agent, NoId
  <2>2. m \in Answer /\ (m.up <=> session.status = "connected")
    BY DEF Reply, Answer
  <2>3. session' \in Sessions
    BY <1>1, <2>1 DEF Numbered
  <2> QED BY <1>2, <2>1, <2>2, <2>3, ReplyKeepsServed
<1>5. CASE StopLanSession
  <2> PICK m : m = Reply("stopped", 0, FALSE)
    OBVIOUS
  <2>1. /\ toHost # <<>> /\ starting' = 0 /\ toHost' = Tail(toHost)
        /\ fromHost' = Append(fromHost, m)
        /\ session' = session \/ session' = [status |-> "none", id |-> 0]
    BY <1>5 DEF StopLanSession, AgentTakes, AgentReplies, NoId, NoSession
  <2>2. m \in Answer /\ m.type = "stopped"
    BY DEF Reply, Answer
  <2>3. session' \in Sessions
    BY <1>1, <2>1 DEF Numbered
  <2> QED BY <1>2, <2>1, <2>2, <2>3, ReplyKeepsServed
<1>6. CASE StartLanSession /\ starting' = starting
  <2> PICK m : m = NoAnswer
    OBVIOUS
  <2>1. m \in Answer /\ m.type = "none"
    BY DEF NoAnswer, Reply, NoId, Answer
  <2>2. session' \in Sessions /\ toHost # <<>> /\ starting = 0
    BY <1>1, <1>6 DEF Numbered, StartLanSession, AgentTakes, NoId
  <2>3. CASE toHost' = Tail(toHost) /\ fromHost' = Append(fromHost, m)
    BY <1>2, <1>6, <2>1, <2>2, <2>3, ReplyKeepsServed
  <2>4. CASE UNCHANGED <<toHost, fromHost>>
    <3> PICK e : e = Event("connected")
      OBVIOUS
    <3>1. e \in Answer /\ ~IsReply(e)
      BY DEF Event, NoId, Answer, IsReply
    <3> QED BY <1>2, <1>6, <2>2, <2>4, <3>1, EventKeepsServed
  <2> QED BY <1>6, <2>3, <2>4 DEF StartLanSession, AgentReplies, pipes
<1>7. CASE StartLanSession /\ starting' # starting
  <2>1. /\ toHost # <<>> /\ starting' = Head(toHost)
        /\ UNCHANGED <<toHost, fromHost, session, written>>
    BY <1>7 DEF StartLanSession, AgentTakes, pipes, hist
  <2>2. Numbered'
    BY <1>1, <1>2, <2>1, Followed DEF Numbered, AgentAlone
  <2>3. ~crossed => InTurn'
    BY <1>1, <1>2, <2>1 DEF InTurn, AgentAlone, Replies, Vouched
  <2> QED BY <1>1, <1>2, <2>2, <2>3, AgentAloneKeepsSent DEF Served, AgentAlone
<1>8. CASE Started
  <2> PICK m : m = SessionReply(session')
    OBVIOUS
  <2>1. /\ starting # 0 /\ starting' = 0 /\ session' = [status |-> "listening", id |-> starting]
        /\ toHost' = Tail(toHost) /\ fromHost' = Append(fromHost, m)
    BY <1>8 DEF Started, AgentReplies, NoId
  <2>2. session' \in Sessions
    BY <1>1, <2>1 DEF Numbered
  <2>3. m \in Answer /\ m.type = "session"
    BY <2>2 DEF SessionReply, Reply, Answer
  <2>4. toHost # <<>>
    BY <1>1, <2>1 DEF Numbered
  <2> QED BY <1>2, <2>1, <2>2, <2>3, <2>4, ReplyKeepsServed
<1>9. CASE Expire \/ RouteLost \/ Connect \/ ClientGone
  <2>1. /\ UNCHANGED <<toHost, starting>>
        /\ \/ fromHost' = fromHost
           \/ fromHost' = Append(fromHost, Event("connected"))
           \/ fromHost' = Append(fromHost, Event("disconnected"))
    BY <1>9 DEF Expire, RouteLost, Connect, ClientGone, Emits, pipes
  <2>2. session' \in Sessions
    BY <1>1, <1>9 DEF Numbered, Expire, RouteLost, Connect, ClientGone,
       NoSession, NoId
  <2>3. ASSUME NEW t \in {"connected", "disconnected"}
        PROVE  Event(t) \in Answer /\ ~IsReply(Event(t))
    BY DEF Event, NoId, Answer, IsReply
  <2> QED BY <1>2, <2>1, <2>2, <2>3, EventKeepsServed
<1> QED BY <1>3, <1>4, <1>5, <1>6, <1>7, <1>8, <1>9

(* Every step.                                                             *)
LEMMA ServedGoesOn ==
  ASSUME Served, [LanNext]_lanVars
  PROVE  Served'
<1>1. CASE LanNext
  <2>1. CASE \/ SendEnvelope \/ Activate \/ StopListener \/ NewCode
             \/ Poll \/ ReopenPanel \/ PageReload
    BY <2>1, PageKeepsServed
  <2>2. CASE \E n \in DOMAIN issued : Timeout(n)
    BY <2>2, TimeoutKeepsServed
  <2>3. CASE Pump \/ OnMessage \/ OnDisconnect
    BY <2>3, PumpKeepsServed, MessageKeepsServed, LostPortKeepsServed
  <2>4. CASE \/ GetLanSession \/ SendLanEnvelope \/ StopLanSession
             \/ StartLanSession \/ Started \/ Expire \/ RouteLost
             \/ Connect \/ ClientGone
    BY <2>4, AgentKeepsServed
  <2> QED BY <1>1, <2>1, <2>2, <2>3, <2>4 DEF LanNext
<1>2. CASE UNCHANGED lanVars
  BY <1>2 DEF lanVars, page, ext, pipes, agent, hist, Served,
     Numbered, InTurn, Replies, Vouched, SentWasWritten
<1> QED BY <1>1, <1>2

(* An envelope that the page takes for sent was written to the socket of    *)
(* the device, for any number of requests, timeouts and lost ports, unless  *)
(* a disconnection was reported while a request was open.                   *)
THEOREM SentIsWritten == LanSpec => []SentWasWritten
<1>1. Served => SentWasWritten
  BY DEF Served
<1> QED BY <1>1, ServedAtFirst, ServedGoesOn, PTL DEF LanSpec

-----------------------------------------------------------------------------
(* LanSession: the panel follows the session.                               *)

(* Requests of a kind; those the agent has still to take; ids in use.       *)
Kind(n, k) == n \in DOMAIN issued /\ issued[n].kind = k
Ends(n) == Kind(n, "stop") \/ Kind(n, "renew")
InQueue(n) == \E i \in DOMAIN queued : queued[i] = n
Waits(n) == n \in DOMAIN issued /\ (InQueue(n) \/ (toHost # <<>> /\ n = active))
Known(x) ==
  \/ x = panel \/ x = session.id
  \/ \E n \in DOMAIN issued : issued[n].id = x
  \/ \E i \in DOMAIN fromHost : fromHost[i].id = x

(* What LiveIsShown excepts for the session s.                              *)
TimedOut ==
  \E n \in DOMAIN issued : result[n] = "timeout" /\ issued[n].kind \in {"start", "mount"}
Excused(s) ==
  \/ TimedOut
  \/ \E n \in DOMAIN issued : issued[n].kind = "renew" /\ issued[n].id < s /\ s < n

(* Requests are served in the order of their numbers, after the one that    *)
(* made the session, and every open one is on its way.                      *)
Ordered ==
  /\ \A i, j \in DOMAIN queued : i < j => queued[i] < queued[j]
  /\ \A i \in DOMAIN queued : queued[i] > active
  /\ \A n \in DOMAIN issued : Waits(n) => n > session.id
  /\ active # 0 => active >= session.id
  /\ \A n \in DOMAIN issued : Pending(n) => Waits(n) \/ n = active
  /\ starting # 0 => toHost # <<>> /\ starting = active /\ Kind(starting, "start")

(* No session known anywhere is newer than the agent's, nor than a start    *)
(* that is still to be taken.                                               *)
Named ==
  /\ \A x : Known(x) => x <= Len(issued)
  /\ \A n \in DOMAIN issued : Waits(n) /\ Kind(n, "start") => \A x : Known(x) => x < n
  /\ session.id # 0 => Kind(session.id, "start") /\ \A x : Known(x) => x <= session.id
  /\ session.id = 0 => session.status = "none"
  /\ \A n \in DOMAIN issued : Ends(n) => issued[n].id # 0

(* The panel waits for its start; until it is told of the session it shows  *)
(* none, and none of its earlier requests counts.                           *)
Asking ==
  /\ \A n \in DOMAIN issued : Kind(n, "start") /\ Pending(n) => busy = n
  /\ \A k \in DOMAIN issued : Kind(k, "mount") /\ Pending(k) =>
       panel = 0 /\ \A j \in DOMAIN issued : j < k /\ Pending(j) => ~OfPanel(j)

(* A reply that names a session names the agent's, if it has one; what has  *)
(* been stopped is not the agent's session any more.                        *)
Replied ==
  /\ \A i \in Replies :
       /\ fromHost[i].type = "session" /\ session.id # 0 => fromHost[i].id = session.id
       /\ Kind(active, "mount") => fromHost[i].type = "session"
       /\ Kind(active, "start") /\ session.id = active => fromHost[i].type = "session"
  /\ toHost = <<>> /\ Ends(active) => issued[active].id # session.id

(* A session that is still to be started will be shown ...                  *)
Coming(s) ==
  /\ ~Excused(s) => \A r \in DOMAIN issued : Kind(r, "stop") => r < s
  /\ open /\ ~TimedOut =>
       \/ Pending(s)
       \/ \E k \in DOMAIN issued : k > s /\ Kind(k, "mount") /\ Pending(k)

(* ... and the agent's session is shown, will be, or is about to end.       *)
Remounting == \E k \in DOMAIN issued : Kind(k, "mount") /\ Pending(k)
Ending(s) == \E r \in DOMAIN issued : Waits(r) /\ Ends(r) /\ issued[r].id = s
Seen(s) ==
  /\ \A r \in DOMAIN issued : Kind(r, "stop") /\ r > s => issued[r].id = s
  /\ open => \/ panel = s \/ Pending(s) \/ Remounting
             \/ panel \in {0, s} /\ Ending(s)

Accounted ==
  /\ \A s \in DOMAIN issued : Waits(s) /\ Kind(s, "start") => Coming(s)
  /\ \A s \in DOMAIN issued : s = session.id /\ Live(session) /\ ~Excused(s) => Seen(s)
Tracked == Ordered /\ Named /\ Asking /\ Replied /\ Accounted

(* The numbers in use are numbers.                                          *)
LEMMA Numbers ==
  ASSUME Numbered
  PROVE  /\ Len(issued) \in Nat /\ DOMAIN issued = 1..Len(issued) /\ DOMAIN result = DOMAIN issued
         /\ \A n \in DOMAIN issued : n \in Nat /\ n # 0 /\ issued[n] \in Request
         /\ session.id \in Nat /\ active \in Nat /\ panel \in Nat
         /\ \A x : Known(x) => x \in Nat
<1>1. /\ Len(issued) \in Nat /\ DOMAIN issued = 1..Len(issued) /\ DOMAIN result = DOMAIN issued
      /\ \A n \in DOMAIN issued : issued[n] \in Request
      /\ \A i \in DOMAIN fromHost : fromHost[i] \in Answer
  BY DEF Numbered
<1>2. session.id \in Nat /\ active \in Nat /\ panel \in Nat
  BY DEF Numbered
<1>3. \A n \in DOMAIN issued : issued[n].id \in Nat
  BY <1>1 DEF Request
<1>4. \A i \in DOMAIN fromHost : fromHost[i].id \in Nat
  BY <1>1 DEF Answer
<1>5. \A n \in DOMAIN issued : n \in Nat /\ n # 0
  BY <1>1
<1> QED BY <1>1, <1>2, <1>3, <1>4, <1>5 DEF Known

(* A live session was started by a request.                                 *)
LEMMA LiveIsStarted ==
  ASSUME Named, Live(session)
  PROVE  session.id # 0 /\ session.id \in DOMAIN issued /\ Kind(session.id, "start")
<1>1. session.id # 0
  BY DEF Named, Live
<1> QED BY <1>1 DEF Named, Kind

(* A request is made.                                                       *)
Issued(k, s, rs, new) ==
  /\ new \in Nat /\ new \notin DOMAIN issued /\ \A n \in DOMAIN issued : n < new
  /\ Len(issued') = new /\ DOMAIN issued' = DOMAIN issued \cup {new}
  /\ \A n \in DOMAIN issued : issued'[n] = issued[n] /\ result'[n] = rs[n]
  /\ issued'[new].kind = k /\ issued'[new].id = s
  /\ \A n, x : Kind(n, x)' <=> (Kind(n, x) \/ (n = new /\ x = k))
  /\ \A n : Waits(n)' <=> (Waits(n) \/ n = new)
  /\ Pending(new)' /\ ~Waits(new)
  /\ \A n : n # new => (Pending(n)' <=> (Pending(n) /\ rs[n] # "dropped"))
  /\ DOMAIN queued' = DOMAIN queued \cup {Len(queued) + 1} /\ Len(queued) \in Nat
  /\ DOMAIN queued = 1..Len(queued)
  /\ queued'[Len(queued) + 1] = new /\ \A i \in DOMAIN queued : queued'[i] = queued[i]
  /\ TimedOut => TimedOut'
  /\ \A t : Excused(t) => Excused(t)'
  /\ UNCHANGED <<active, toHost, fromHost, session, starting, crossed>>

LEMMA IssueFacts ==
  ASSUME Numbered, NEW k, NEW s, NEW rs, Issue(k, s, rs),
         [kind |-> k, id |-> s] \in Request, rs \in Seq(Outcome), Len(rs) = Len(result),
         \A n \in DOMAIN issued : rs[n] = result[n] \/ (Pending(n) /\ rs[n] = "dropped"),
         NEW new, new = Len(issued) + 1
  PROVE  Issued(k, s, rs, new)
<1> PICK r : r = [kind |-> k, id |-> s]
  OBVIOUS
<1>1. /\ issued' = Append(issued, r) /\ result' = Append(rs, "pending")
      /\ queued' = Append(queued, Len(issued'))
      /\ UNCHANGED <<active, toHost, fromHost, session, starting, crossed>>
  BY DEF Issue, pipes, agent, hist
<1>2. /\ issued \in Seq(Request) /\ queued \in Seq(Nat) /\ r \in Request
      /\ "pending" \in Outcome /\ Len(issued) \in Nat
  BY DEF Numbered, Outcome
<1>3. /\ Len(issued') = new /\ DOMAIN issued' = DOMAIN issued \cup {new}
      /\ issued'[new] = r /\ \A i \in DOMAIN issued : issued'[i] = issued[i]
  BY <1>1, <1>2, Appended
<1>4. /\ DOMAIN rs = DOMAIN issued /\ DOMAIN result = DOMAIN issued /\ Len(rs) + 1 = new
      /\ DOMAIN issued = 1..Len(issued)
  BY DEF Numbered
<1>5. /\ DOMAIN result' = DOMAIN issued \cup {new}
      /\ result'[new] = "pending" /\ \A i \in DOMAIN rs : result'[i] = rs[i]
  BY <1>1, <1>2, <1>4, Appended
<1>6. new \in Nat /\ new \notin DOMAIN issued /\ \A n \in DOMAIN issued : n < new
  BY <1>2, <1>4
<1>7. /\ DOMAIN queued' = DOMAIN queued \cup {Len(queued) + 1}
      /\ queued'[Len(queued) + 1] = new
      /\ \A i \in DOMAIN queued : queued'[i] = queued[i]
      /\ Len(queued) \in Nat /\ DOMAIN queued = 1..Len(queued)
  BY <1>1, <1>2, <1>3, <1>6, Appended
<1>8. r.kind = k /\ r.id = s
  OBVIOUS
<1>9. \A n, x : Kind(n, x)' <=> (Kind(n, x) \/ (n = new /\ x = k))
  BY <1>3, <1>6, <1>8 DEF Kind
<1>10. (\A n : Waits(n)' <=> (Waits(n) \/ n = new)) /\ ~Waits(new)
  <2>1. \A n : InQueue(n)' <=> (InQueue(n) \/ n = new)
    BY <1>7 DEF InQueue
  <2>2. \A n : InQueue(n) => n \in DOMAIN issued
    BY DEF InQueue, Numbered
  <2> QED BY <1>1, <1>3, <1>6, <2>1, <2>2 DEF Waits, Numbered
<1>11. /\ Pending(new)'
       /\ \A n : n # new => (Pending(n)' <=> (Pending(n) /\ rs[n] # "dropped"))
  BY <1>4, <1>5, <1>6 DEF Pending
<1>12. TimedOut => TimedOut'
  BY <1>3, <1>4, <1>5 DEF TimedOut, Pending
<1>13. \A t : Excused(t) => Excused(t)'
  BY <1>3, <1>12 DEF Excused
<1> QED BY <1>1, <1>3, <1>4, <1>5, <1>6, <1>7, <1>8, <1>9, <1>10, <1>11, <1>12, <1>13
       DEF Issued

(* A new request is the last one, and names no session but the panel's.    *)
LEMMA IssueKeepsOrder ==
  ASSUME Numbered, Ordered, Named, Replied, NEW k, NEW s, NEW rs, Issue(k, s, rs),
         [kind |-> k, id |-> s] \in Request, rs \in Seq(Outcome), Len(rs) = Len(result),
         \A n \in DOMAIN issued : rs[n] = result[n] \/ (Pending(n) /\ rs[n] = "dropped"),
         panel' \in {panel, 0}, s \in {panel, 0}, k \in {"stop", "renew"} => s # 0
  PROVE  Ordered' /\ Named' /\ Replied'
<1> PICK new : new = Len(issued) + 1
  OBVIOUS
<1>0. Issued(k, s, rs, new)
  BY IssueFacts
<1>1. /\ new \in Nat /\ new \notin DOMAIN issued /\ \A n \in DOMAIN issued : n < new
      /\ Len(issued') = new /\ DOMAIN issued' = DOMAIN issued \cup {new}
      /\ \A n \in DOMAIN issued : issued'[n] = issued[n] /\ result'[n] = rs[n]
      /\ issued'[new].kind = k /\ issued'[new].id = s
      /\ UNCHANGED <<active, toHost, fromHost, session, starting, crossed>>
  BY <1>0 DEF Issued
<1>2. /\ \A n, x : Kind(n, x)' <=> (Kind(n, x) \/ (n = new /\ x = k))
      /\ \A n : Waits(n)' <=> (Waits(n) \/ n = new)
      /\ \A n : Pending(n)' => n = new \/ Pending(n)
  BY <1>0 DEF Issued
<1>3. /\ DOMAIN queued' = DOMAIN queued \cup {Len(queued) + 1} /\ Len(queued) \in Nat
      /\ DOMAIN queued = 1..Len(queued)
      /\ queued'[Len(queued) + 1] = new /\ \A i \in DOMAIN queued : queued'[i] = queued[i]
  BY <1>0 DEF Issued
<1>4. /\ \A i \in DOMAIN queued : queued[i] \in DOMAIN issued
      /\ active = 0 \/ active \in DOMAIN issued
      /\ session.id = 0 \/ session.id \in DOMAIN issued
      /\ \A n : Waits(n) => n \in DOMAIN issued
  BY DEF Numbered, Named, Kind, Waits
<1>5. session.id \in Nat /\ active \in Nat /\ panel \in Nat /\ \A x : Known(x) => x \in Nat
  BY Numbers
<1>6. Len(issued) \in Nat /\ 0 < new /\ active < new /\ session.id < new
      /\ \A n \in DOMAIN issued : n \in Nat
  BY <1>1, <1>4, <1>5, Numbers
<1>7. \A x : Known(x)' => Known(x) \/ x = 0
  BY <1>1 DEF Known
<1>8. Ordered'
  <2>1. \A i, j \in DOMAIN queued' : i < j => queued'[i] < queued'[j]
    BY <1>1, <1>3, <1>4 DEF Ordered
  <2>2. \A i \in DOMAIN queued' : queued'[i] > active'
    BY <1>1, <1>3, <1>6 DEF Ordered
  <2>3. \A n \in DOMAIN issued' : Waits(n)' => n > session'.id
    BY <1>1, <1>2, <1>4, <1>6 DEF Ordered
  <2>4. active' # 0 => active' >= session'.id
    BY <1>1 DEF Ordered
  <2>5. \A n \in DOMAIN issued' : Pending(n)' => Waits(n)' \/ n = active'
    BY <1>1, <1>2 DEF Ordered
  <2>6. starting' # 0 => toHost' # <<>> /\ starting' = active' /\ Kind(starting, "start")'
    BY <1>1, <1>2 DEF Ordered
  <2> QED BY <2>1, <2>2, <2>3, <2>4, <2>5, <2>6 DEF Ordered
<1>9. Named'
  <2>1. \A x : Known(x)' => x <= Len(issued')
    BY <1>1, <1>5, <1>6, <1>7 DEF Named
  <2>2. ASSUME NEW n \in DOMAIN issued', Waits(n)', Kind(n, "start")', NEW x, Known(x)'
        PROVE  x < n
    <3>0. x \in Nat /\ x <= Len(issued)
      BY <1>5, <1>6, <1>7, <2>2 DEF Named
    <3>1. CASE n = new
      BY <1>6, <3>0, <3>1
    <3>2. CASE n # new
      <4>1. Waits(n) /\ Kind(n, "start") /\ n \in DOMAIN issued /\ n \in Nat /\ n # 0
        BY <1>1, <1>2, <2>2, <3>2, Numbers
      <4> QED BY <1>5, <1>7, <2>2, <4>1 DEF Named
    <3> QED BY <3>1, <3>2
  <2>3. session'.id # 0 => Kind(session.id, "start")' /\ \A x : Known(x)' => x <= session'.id
    BY <1>1, <1>2, <1>5, <1>7 DEF Named
  <2>4. session'.id = 0 => session'.status = "none"
    BY <1>1 DEF Named
  <2>5. \A n \in DOMAIN issued' : Ends(n)' => issued'[n].id # 0
    <3> SUFFICES ASSUME NEW n \in DOMAIN issued', Ends(n)' PROVE issued'[n].id # 0
      OBVIOUS
    <3>1. CASE n = new
      BY <1>1, <1>2, <3>1 DEF Ends, Kind
    <3>2. CASE n # new
      BY <1>1, <1>2, <3>2 DEF Named, Ends
    <3> QED BY <3>1, <3>2
  <2> QED BY <2>1, <2>2, <2>3, <2>4, <2>5 DEF Named
<1>10. Replied'
  <2>1. active # new
    BY <1>6
  <2>2. \A x : Kind(active, x)' <=> Kind(active, x)
    BY <1>1, <1>2, <2>1
  <2>3. Ends(active)' <=> Ends(active)
    BY <2>2 DEF Ends
  <2>4. Ends(active) => issued'[active] = issued[active]
    BY <1>1 DEF Ends, Kind
  <2>5. Replies' = Replies
    BY <1>1 DEF Replies, IsReply
  <2> QED BY <1>1, <2>2, <2>3, <2>4, <2>5 DEF Replied
<1> QED BY <1>8, <1>9, <1>10

(* So do the requests of the page, whatever earlier ones they drop.         *)
LEMMA RequestIsIssued ==
  ASSUME Numbered, Ordered, Named, Replied,
         NEW k \in {"start", "stop", "renew", "poll", "mount", "restore", "send"},
         NEW s \in {panel, 0}, NEW rs, Issue(k, s, rs),
         NEW P, \A n \in P : Pending(n),
         rs = [n \in DOMAIN result |-> IF n \in P THEN "dropped" ELSE result[n]],
         panel' \in {panel, 0}, k \in {"stop", "renew"} => s # 0,
         NEW new, new = Len(issued) + 1
  PROVE  Issued(k, s, rs, new) /\ Ordered' /\ Named' /\ Replied'
<1>1. [kind |-> k, id |-> s] \in Request
  <2>1. s \in Nat
    BY Numbers
  <2> QED BY <2>1 DEF Request
<1>2. result \in Seq(Outcome) /\ DOMAIN result = 1..Len(result) /\ Len(result) \in Nat
      /\ DOMAIN result = DOMAIN issued
  BY DEF Numbered
<1>3. \A n \in DOMAIN result : result[n] \in Outcome /\ rs[n] \in Outcome
  BY <1>2 DEF Outcome
<1>4. rs \in [1..Len(result) -> Outcome]
  BY <1>2, <1>3
<1>5. rs \in Seq(Outcome) /\ Len(rs) = Len(result)
  BY <1>2, <1>4
<1>6. \A n \in DOMAIN issued : rs[n] = result[n] \/ (Pending(n) /\ rs[n] = "dropped")
  BY <1>2
<1> QED BY <1>1, <1>5, <1>6, IssueFacts, IssueKeepsOrder

(* A request that drops none.                                               *)
LEMMA RequestIsAdded ==
  ASSUME Numbered, Ordered, Named, Replied,
         NEW k \in {"start", "stop", "renew", "poll", "mount", "restore", "send"},
         NEW s \in {panel, 0}, Issue(k, s, result), panel' = panel,
         k \in {"stop", "renew"} => s # 0,
         NEW new, new = Len(issued) + 1
  PROVE  /\ Issued(k, s, result, new) /\ Ordered' /\ Named' /\ Replied'
         /\ \A n : n # new => (Pending(n)' <=> Pending(n))
<1>1. [kind |-> k, id |-> s] \in Request
  <2>1. s \in Nat
    BY Numbers
  <2> QED BY <2>1 DEF Request
<1>2. Issued(k, s, result, new) /\ Ordered' /\ Named' /\ Replied'
  <2> PICK rs : rs = result
    OBVIOUS
  <2>1. /\ Issue(k, s, rs) /\ rs \in Seq(Outcome) /\ Len(rs) = Len(result)
        /\ \A n \in DOMAIN issued : rs[n] = result[n] \/ (Pending(n) /\ rs[n] = "dropped")
    BY DEF Numbered
  <2>2. Issued(k, s, rs, new)
    BY <1>1, <2>1, IssueFacts
  <2>3. Ordered' /\ Named' /\ Replied'
    BY <1>1, <2>1, IssueKeepsOrder
  <2> QED BY <2>2, <2>3
<1>3. \A n : n # new => (Pending(n)' <=> Pending(n))
  BY <1>2 DEF Issued, Pending
<1> QED BY <1>2, <1>3

(* An envelope, a poll or a new code ask nothing the panel waits for.       *)
LEMMA AskingOnTheSide ==
  ASSUME Numbered, Tracked, NEW k \in {"send", "poll", "renew"}, NEW s \in {panel, 0},
         Issue(k, s, result), UNCHANGED <<panel, busy, open>>, k = "renew" => s # 0
  PROVE  Tracked'
<1>1. Ordered /\ Named /\ Asking /\ Replied /\ Accounted
  BY DEF Tracked
<1> PICK new : new = Len(issued) + 1
  OBVIOUS
<1>2. /\ Issued(k, s, result, new) /\ Ordered' /\ Named' /\ Replied'
      /\ \A n : n # new => (Pending(n)' <=> Pending(n))
  BY <1>1, RequestIsAdded
<1>3. /\ new \notin DOMAIN issued /\ DOMAIN issued' = DOMAIN issued \cup {new}
      /\ \A n \in DOMAIN issued : issued'[n] = issued[n] /\ n < new
      /\ \A n, x : Kind(n, x)' <=> (Kind(n, x) \/ (n = new /\ x = k))
      /\ \A n : Waits(n)' <=> (Waits(n) \/ n = new)
      /\ TimedOut => TimedOut'
      /\ \A t : Excused(t) => Excused(t)'
  BY <1>2 DEF Issued
<1>0. session' = session
  BY <1>2 DEF Issued
<1>4. /\ \A n : Kind(n, "start")' <=> Kind(n, "start")
      /\ \A n : Kind(n, "mount")' <=> Kind(n, "mount")
      /\ \A n : Kind(n, "stop")' <=> Kind(n, "stop")
      /\ \A n : Ends(n) => Ends(n)'
  BY <1>3 DEF Ends
<1>5. \A n, x : Kind(n, x) => n \in DOMAIN issued
  BY DEF Kind
<1>6. Asking'
  BY <1>1, <1>2, <1>3, <1>4, <1>5 DEF Asking, OfPanel
<1>7. ASSUME NEW n \in DOMAIN issued', Waits(n)', Kind(n, "start")' PROVE Coming(n)'
  <2>1. Kind(n, "start") /\ n \in DOMAIN issued /\ n # new /\ Waits(n)
    BY <1>3, <1>4, <1>5, <1>7
  <2>2. Coming(n)
    BY <1>1, <2>1 DEF Accounted
  <2> QED BY <1>2, <1>3, <1>4, <1>5, <2>1, <2>2 DEF Coming
<1>8. ASSUME NEW n \in DOMAIN issued', n = session'.id, Live(session)', ~Excused(n)'
      PROVE  Seen(n)'
  <2>1. Seen(n) /\ n \in DOMAIN issued
    <3>0. ~Excused(n)
      BY <1>3, <1>8
    <3>1. Live(session) /\ n = session.id
      BY <1>0, <1>8 DEF Live
    <3>2. n \in DOMAIN issued
      BY <1>1, <3>1, LiveIsStarted
    <3> QED BY <1>1, <1>8, <3>0, <3>1, <3>2 DEF Accounted
  <2>2. Ending(n) => Ending(n)'
    BY <1>3, <1>4 DEF Ending
  <2>3. Remounting => Remounting'
    BY <1>2, <1>3, <1>4 DEF Remounting
  <2> QED BY <1>2, <1>3, <1>4, <1>5, <2>1, <2>2, <2>3 DEF Seen
<1> QED BY <1>2, <1>6, <1>7, <1>8 DEF Tracked, Accounted

(* The panel asks for a session, or for its end, while it waits for nothing.*)
LEMMA AskingForPanel ==
  ASSUME Numbered, Tracked, Activate \/ StopListener
  PROVE  Tracked'
<1>1. Ordered /\ Named /\ Asking /\ Replied /\ Accounted
  BY DEF Tracked
<1> PICK new : new = Len(issued) + 1
  OBVIOUS
<1>2. PICK k, s :
        /\ \/ k = "start" /\ s = 0
           \/ k = "stop" /\ s = panel /\ panel # 0
        /\ Issue(k, s, result) /\ busy = 0
        /\ open = TRUE /\ open' = TRUE /\ panel' = panel /\ busy' = Len(issued')
  <2>1. CASE Activate
    BY <2>1 DEF Activate, NoId
  <2>2. CASE StopListener
    BY <2>2 DEF StopListener, NoId
  <2> QED BY <2>1, <2>2
<1>3. /\ k \in {"start", "stop"} /\ s \in {panel, 0}
      /\ Issued(k, s, result, new) /\ Ordered' /\ Named' /\ Replied'
      /\ \A n : n # new => (Pending(n)' <=> Pending(n))
  BY <1>1, <1>2, RequestIsAdded
<1>4. /\ new \notin DOMAIN issued /\ DOMAIN issued' = DOMAIN issued \cup {new}
      /\ \A n \in DOMAIN issued : issued'[n] = issued[n] /\ n < new /\ n # 0
      /\ \A n, x : Kind(n, x)' <=> (Kind(n, x) \/ (n = new /\ x = k))
      /\ \A n : Waits(n)' <=> (Waits(n) \/ n = new)
      /\ TimedOut => TimedOut'
      /\ \A t : Excused(t) => Excused(t)'
  BY <1>3, Numbers DEF Issued
<1>0. session' = session /\ Pending(new)' /\ busy' = new /\ issued'[new].id = s
  BY <1>2, <1>3 DEF Issued
<1>5. \A n, x : Kind(n, x) => n \in DOMAIN issued
  BY DEF Kind
<1>6. \A n : ~(Kind(n, "start") /\ Pending(n))
  BY <1>1, <1>2, <1>4, <1>5 DEF Asking
<1>7. Asking'
  <2>1. \A n \in DOMAIN issued' : Kind(n, "start")' /\ Pending(n)' => busy' = n
    BY <1>0, <1>3, <1>4, <1>6
  <2>2. ASSUME NEW m \in DOMAIN issued', Kind(m, "mount")', Pending(m)'
        PROVE  panel' = 0 /\ \A j \in DOMAIN issued' : j < m /\ Pending(j)' => ~OfPanel(j)'
    <3>1. Kind(m, "mount") /\ m # new /\ m \in DOMAIN issued /\ Pending(m)
      BY <1>3, <1>4, <1>5, <2>2
    <3>2. panel = 0 /\ \A j \in DOMAIN issued : j < m /\ Pending(j) => ~OfPanel(j)
      BY <1>1, <3>1 DEF Asking
    <3>3. m < new /\ m \in Nat /\ new \in Nat
      BY <1>4, <3>1, Numbers
    <3>4. ASSUME NEW j \in DOMAIN issued', j < m, Pending(j)' PROVE ~OfPanel(j)'
      <4>1. j # new
        BY <3>3, <3>4
      <4> QED BY <1>3, <1>4, <3>2, <3>4, <4>1 DEF OfPanel
    <3> QED BY <1>2, <3>2, <3>4
  <2> QED BY <2>1, <2>2 DEF Asking
<1>8. ASSUME NEW n \in DOMAIN issued', Waits(n)', Kind(n, "start")' PROVE Coming(n)'
  <2>1. CASE n = new
    <3>1. \A r \in DOMAIN issued' : Kind(r, "stop")' => r < new
      BY <1>3, <1>4, <1>5, <1>8, <2>1
    <3> QED BY <1>0, <2>1, <3>1 DEF Coming
  <2>2. CASE n # new
    <3>1. Kind(n, "start") /\ n \in DOMAIN issued /\ Waits(n) /\ ~Pending(n) /\ Coming(n)
      BY <1>1, <1>4, <1>5, <1>6, <1>8, <2>2 DEF Accounted
    <3>2. CASE ~TimedOut
      <4>1. PICK m \in DOMAIN issued : m > n /\ Kind(m, "mount") /\ Pending(m)
        BY <1>2, <3>1, <3>2 DEF Coming
      <4>2. panel = 0 /\ k = "start"
        BY <1>1, <1>2, <4>1 DEF Asking
      <4>3. \A r \in DOMAIN issued' : Kind(r, "stop")' => Kind(r, "stop") /\ r \in DOMAIN issued
        BY <1>4, <1>5, <4>2
      <4>4. ~Excused(n)' => \A r \in DOMAIN issued' : Kind(r, "stop")' => r < n
        BY <1>4, <3>1, <4>3 DEF Coming
      <4>5. Kind(m, "mount")' /\ Pending(m)' /\ m \in DOMAIN issued'
        BY <1>3, <1>4, <4>1
      <4> QED BY <4>1, <4>4, <4>5 DEF Coming
    <3>3. CASE TimedOut
      BY <1>4, <3>3 DEF Coming, Excused
    <3> QED BY <3>2, <3>3
  <2> QED BY <2>1, <2>2
<1>9. ASSUME NEW n \in DOMAIN issued', n = session'.id, Live(session)', ~Excused(n)'
      PROVE  Seen(n)'
  <2>1. Live(session) /\ n = session.id
    BY <1>0, <1>9 DEF Live
  <2>2. n \in DOMAIN issued /\ Kind(n, "start")
    BY <1>1, <2>1, LiveIsStarted
  <2>3. ~Excused(n)
    BY <1>4, <1>9
  <2>4. Seen(n)
    BY <1>1, <2>1, <2>2, <2>3 DEF Accounted
  <2>5. \/ panel = n \/ Remounting \/ (panel \in {0, n} /\ Ending(n))
    BY <1>2, <1>6, <2>2, <2>4 DEF Seen
  <2>6. Remounting => panel = 0 /\ Remounting'
    BY <1>1, <1>3, <1>4, <1>5 DEF Remounting, Asking
  <2>7. Ending(n) => Ending(n)'
    BY <1>4, <1>5 DEF Ending, Ends
  <2>8. k = "stop" => issued'[new].id = n
    BY <1>0, <1>2, <2>5, <2>6
  <2>9. \A r \in DOMAIN issued' : Kind(r, "stop")' /\ r > n => issued'[r].id = n
    BY <1>4, <1>5, <2>4, <2>8 DEF Seen
  <2> QED BY <1>2, <2>5, <2>6, <2>7, <2>9 DEF Seen
<1> QED BY <1>3, <1>7, <1>8, <1>9 DEF Tracked, Accounted

(* The panel opens again, or the page is loaded again: what the panel asked *)
(* before is dropped.                                                       *)
LEMMA AskingAnew ==
  ASSUME Numbered, Tracked, ReopenPanel \/ PageReload
  PROVE  Tracked'
<1>1. Ordered /\ Named /\ Asking /\ Replied /\ Accounted
  BY DEF Tracked
<1> PICK new : new = Len(issued) + 1
  OBVIOUS
<1>2. PICK k, P, rs :
        /\ \/ /\ k = "mount" /\ open' = TRUE
              /\ P = {n \in DOMAIN result : Pending(n) /\ OfPanel(n)}
           \/ k = "restore" /\ open' = FALSE /\ P = {n \in DOMAIN result : Pending(n)}
        /\ rs = [n \in DOMAIN result |-> IF n \in P THEN "dropped" ELSE result[n]]
        /\ Issue(k, 0, rs) /\ panel' = 0
  <2>1. CASE ReopenPanel
    <3> PICK P : P = {n \in DOMAIN result : Pending(n) /\ OfPanel(n)}
      OBVIOUS
    <3>1. ResultsOnClose = [n \in DOMAIN result |-> IF n \in P THEN "dropped" ELSE result[n]]
      BY DEF ResultsOnClose
    <3> QED BY <2>1, <3>1 DEF ReopenPanel, NoId
  <2>2. CASE PageReload
    <3> PICK P : P = {n \in DOMAIN result : Pending(n)}
      OBVIOUS
    <3> PICK rs : rs = [n \in DOMAIN result |-> IF Pending(n) THEN "dropped" ELSE result[n]]
      OBVIOUS
    <3>1. rs = [n \in DOMAIN result |-> IF n \in P THEN "dropped" ELSE result[n]]
      OBVIOUS
    <3> QED BY <2>2, <3>1 DEF PageReload, NoId
  <2> QED BY <2>1, <2>2
<1>3. Issued(k, 0, rs, new) /\ Ordered' /\ Named' /\ Replied'
  <2> PICK s : s = 0
    OBVIOUS
  <2>1. /\ k \in {"mount", "restore"} /\ s \in {panel, 0}
        /\ Issue(k, s, rs) /\ panel' \in {panel, 0}
    BY <1>2
  <2>2. k \in {"start", "stop", "renew", "poll", "mount", "restore", "send"}
        /\ k \notin {"stop", "renew"}
    BY <2>1
  <2>3. /\ rs = [n \in DOMAIN result |-> IF n \in P THEN "dropped" ELSE result[n]]
        /\ \A n \in P : Pending(n)
    BY <1>2
  <2>4. Issued(k, s, rs, new) /\ Ordered' /\ Named' /\ Replied'
    BY <1>1, <2>1, <2>2, <2>3, RequestIsIssued
  <2> QED BY <2>4
<1>4. /\ new \notin DOMAIN issued /\ DOMAIN issued' = DOMAIN issued \cup {new}
      /\ \A n \in DOMAIN issued : issued'[n] = issued[n] /\ n < new /\ n # 0
      /\ \A n, x : Kind(n, x)' <=> (Kind(n, x) \/ (n = new /\ x = k))
      /\ \A n : Waits(n)' <=> (Waits(n) \/ n = new)
      /\ \A n : n # new => (Pending(n)' <=> (Pending(n) /\ rs[n] # "dropped"))
      /\ \A t : Excused(t) => Excused(t)'
  BY <1>3, Numbers DEF Issued
<1>0. session' = session /\ Pending(new)' /\ k \in {"mount", "restore"}
  BY <1>2, <1>3 DEF Issued
<1>5. /\ \A n, x : Kind(n, x) => n \in DOMAIN issued
      /\ \A n : Pending(n) => n \in DOMAIN result /\ n \in DOMAIN issued
  BY Numbers DEF Kind, Pending
<1>6. \A n : n # new /\ Pending(n)' => n \in DOMAIN issued /\ ~OfPanel(n)
  BY <1>2, <1>4, <1>5
<1>7. \A n : n # new /\ (Kind(n, "start") \/ Kind(n, "mount")) => ~Pending(n)'
  BY <1>6 DEF Kind, OfPanel
<1>8. Asking'
  <2>1. ASSUME NEW n \in DOMAIN issued', Kind(n, "start")', Pending(n)' PROVE busy' = n
    <3>1. n # new /\ Kind(n, "start")
      BY <1>0, <1>4, <1>5, <2>1
    <3> QED BY <1>7, <2>1, <3>1
  <2>2. \A j \in DOMAIN issued' : j # new /\ Pending(j)' => ~OfPanel(j)'
    BY <1>4, <1>6 DEF OfPanel
  <2>3. ASSUME NEW m \in DOMAIN issued', Kind(m, "mount")', Pending(m)'
        PROVE  panel' = 0 /\ \A j \in DOMAIN issued' : j < m /\ Pending(j)' => ~OfPanel(j)'
    <3>1. m = new /\ new \in Nat
      BY <1>4, <1>7, <2>3, Numbers
    <3> QED BY <1>2, <2>2, <3>1
  <2> QED BY <2>1, <2>3 DEF Asking
<1>9. ASSUME NEW n \in DOMAIN issued', Waits(n)', Kind(n, "start")' PROVE Coming(n)'
  <2>1. Kind(n, "start") /\ n \in DOMAIN issued /\ n # new /\ Waits(n) /\ n < new
    BY <1>0, <1>4, <1>5, <1>9
  <2>2. Coming(n)
    BY <1>1, <2>1 DEF Accounted
  <2>3. ~Excused(n)' => \A r \in DOMAIN issued' : Kind(r, "stop")' => r < n
    BY <1>0, <1>4, <1>5, <2>2 DEF Coming
  <2>4. open' => new > n /\ Kind(new, "mount")' /\ Pending(new)' /\ new \in DOMAIN issued'
    BY <1>0, <1>2, <1>4, <2>1, Numbers
  <2> QED BY <2>3, <2>4 DEF Coming
<1>10. ASSUME NEW n \in DOMAIN issued', n = session'.id, Live(session)', ~Excused(n)'
       PROVE  Seen(n)'
  <2>1. Live(session) /\ n = session.id
    BY <1>0, <1>10 DEF Live
  <2>2. n \in DOMAIN issued /\ Kind(n, "start")
    BY <1>1, <2>1, LiveIsStarted
  <2>3. ~Excused(n)
    BY <1>4, <1>10
  <2>4. Seen(n)
    BY <1>1, <2>1, <2>2, <2>3 DEF Accounted
  <2>5. \A r \in DOMAIN issued' : Kind(r, "stop")' /\ r > n => issued'[r].id = n
    BY <1>0, <1>4, <1>5, <2>4 DEF Seen
  <2>6. open' => Remounting'
    BY <1>0, <1>2, <1>4 DEF Remounting
  <2> QED BY <2>5, <2>6 DEF Seen
<1> QED BY <1>3, <1>8, <1>9, <1>10 DEF Tracked, Accounted

(* The page asks.                                                          *)
LEMMA PageKeepsTracked ==
  ASSUME Numbered, Tracked,
         \/ SendEnvelope \/ Activate \/ StopListener \/ NewCode
         \/ Poll \/ ReopenPanel \/ PageReload
  PROVE  Tracked'
<1>1. ASSUME NEW k \in {"send", "poll", "renew"}, NEW s \in {panel, 0}, Issue(k, s, result),
             UNCHANGED <<panel, busy, open>>, k = "renew" => s # 0
      PROVE  Tracked'
  BY <1>1, AskingOnTheSide
<1>2. CASE SendEnvelope
  <2>1. Issue("send", 0, result) /\ UNCHANGED <<panel, busy, open>>
    BY <1>2 DEF SendEnvelope, NoId
  <2> QED BY <2>1, <1>1
<1>3. CASE Poll
  <2>1. Issue("poll", panel, result) /\ UNCHANGED <<panel, busy, open>>
    BY <1>3 DEF Poll
  <2> QED BY <2>1, <1>1
<1>4. CASE NewCode
  <2>1. CASE panel # 0 /\ Issue("renew", panel, result) /\ UNCHANGED <<panel, busy, open>>
    BY <2>1, <1>1
  <2>2. CASE UNCHANGED <<issued, result, open, panel, busy, ext, pipes, agent, hist>>
    BY <2>2 DEF ext, pipes, agent, hist, Tracked, Ordered, Named, Asking, Replied, Accounted,
                Replies, Kind, Ends, InQueue, Waits, Known, Pending, OfPanel, Excused, TimedOut,
                Coming, Seen, Remounting, Ending, Live
  <2> QED BY <1>4, <2>1, <2>2 DEF NewCode, NoId
<1> QED BY <1>2, <1>3, <1>4, AskingForPanel, AskingAnew

(* What becomes of a request that is resolved with the message m.           *)
ResolvedAs(n, m, f) ==
  /\ UNCHANGED <<issued, open>>
  /\ \A j : Pending(j)' <=> (Pending(j) /\ j # n)
  /\ busy' = busy \/ busy = n
  /\ TimedOut => TimedOut'
  /\ \A t : Excused(t) => Excused(t)'
  /\ f = "timeout" /\ (Kind(n, "start") \/ Kind(n, "mount")) /\ ~IsSession(m) => TimedOut'
  /\ \/ panel' = panel
     \/ panel' = 0 /\ Kind(n, "renew")
     \/ panel' = 0 /\ Kind(n, "stop") /\ m.type = "stopped"
     \/ panel' = m.id /\ IsSession(m) /\ OfPanel(n)
  /\ (Kind(n, "start") /\ m.id # 0) \/ Kind(n, "mount") => (IsSession(m) => panel' = m.id)

LEMMA ResolveFacts ==
  ASSUME Numbered, NEW n, Pending(n), NEW m, NEW f \in {"error", "timeout"}, Resolve(n, m, f)
  PROVE  ResolvedAs(n, m, f)
<1>1. n \in DOMAIN issued /\ n \in DOMAIN result /\ DOMAIN result = DOMAIN issued
      /\ issued[n] \in Request /\ result[n] = "pending"
  BY Numbers DEF Pending
<1>2. issued' = issued /\ open' = open /\ (busy' = busy \/ busy = n)
  BY DEF Resolve
<1>3. PICK ok, kind :
        /\ ok \in BOOLEAN /\ kind = issued[n].kind
        /\ result' = [result EXCEPT ![n] =
                        IF ~ok THEN f ELSE IF kind = "send" THEN "sent" ELSE "answered"]
        /\ ok <=> \/ kind = "send" /\ m.type = "sent" /\ m.up
                  \/ kind \in {"stop", "renew"} /\ m.type = "stopped"
                  \/ kind \in {"poll", "mount", "restore"} /\ IsSession(m)
                  \/ kind = "start" /\ IsSession(m) /\ m.id # 0
        /\ panel' = CASE (kind = "stop" /\ ok) \/ kind = "renew" -> 0
                      [] kind = "start" /\ ok -> m.id
                      [] kind = "mount" /\ ok -> m.id
                      [] kind = "poll" /\ ok /\ panel = issued[n].id -> m.id
                      [] OTHER -> panel
  BY DEF Resolve, Shows, NoId
<1>4. /\ DOMAIN result' = DOMAIN result /\ \A j \in DOMAIN result : j # n => result'[j] = result[j]
      /\ result'[n] # "pending"
      /\ ~ok => result'[n] = f
  BY <1>1, <1>3
<1>5. \A j : Pending(j)' <=> (Pending(j) /\ j # n)
  BY <1>1, <1>4 DEF Pending
<1>6. TimedOut => TimedOut'
  BY <1>1, <1>2, <1>4 DEF TimedOut
<1>7. \A t : Excused(t) => Excused(t)'
  BY <1>2, <1>6 DEF Excused
<1>8. f = "timeout" /\ (Kind(n, "start") \/ Kind(n, "mount")) /\ ~IsSession(m) => TimedOut'
  <2> SUFFICES ASSUME f = "timeout", Kind(n, "start") \/ Kind(n, "mount"), ~IsSession(m)
               PROVE  TimedOut'
    OBVIOUS
  <2>1. issued[n].kind \in {"start", "mount"} /\ result'[n] = "timeout"
    BY <1>3, <1>4 DEF Kind
  <2> QED BY <1>1, <1>2, <2>1 DEF TimedOut
<1>9. \/ panel' = panel
      \/ panel' = 0 /\ Kind(n, "renew")
      \/ panel' = 0 /\ Kind(n, "stop") /\ m.type = "stopped"
      \/ panel' = m.id /\ IsSession(m) /\ OfPanel(n)
  BY <1>1, <1>3 DEF Kind, OfPanel
<1>10. (Kind(n, "start") /\ m.id # 0) \/ Kind(n, "mount") => (IsSession(m) => panel' = m.id)
  BY <1>1, <1>3 DEF Kind
<1> QED BY <1>2, <1>5, <1>6, <1>7, <1>8, <1>9, <1>10 DEF ResolvedAs

(* A request to stop that is still open is about the agent's session, and   *)
(* has not come to the agent: else it would have no session.                *)
LEMMA StopIsOnItsWay ==
  ASSUME Numbered, Ordered, Named, Replied, NEW s, s = session.id, Live(session), ~Excused(s),
         Seen(s), NEW n, Pending(n), Ends(n)
  PROVE  Ending(s)
<1>1. s # 0 /\ s \in DOMAIN issued /\ Kind(s, "start") /\ s \in Nat
  BY LiveIsStarted, Numbers
<1>2. n \in DOMAIN issued /\ n \in Nat /\ n # s /\ issued[n].id \in Nat
  <2>1. n \in DOMAIN issued
    BY DEF Ends, Kind
  <2>2. n # s
    BY <1>1 DEF Ends, Kind
  <2> QED BY <2>1, <2>2, Numbers DEF Request
<1>3. n > s
  <2>1. Waits(n) \/ n = active
    BY <1>2 DEF Ordered
  <2>2. CASE Waits(n)
    BY <1>2, <2>2 DEF Ordered
  <2>3. CASE n = active
    BY <1>1, <1>2, <2>3, Numbers DEF Ordered
  <2> QED BY <2>1, <2>2, <2>3
<1>4. issued[n].id = s
  <2>1. CASE Kind(n, "stop")
    BY <1>2, <1>3, <2>1 DEF Seen
  <2>2. CASE Kind(n, "renew")
    <3>1. ~(issued[n].id < s)
      BY <1>2, <1>3, <2>2 DEF Excused, Kind
    <3>2. Known(issued[n].id)
      BY <1>2 DEF Known
    <3>3. issued[n].id <= s
      BY <1>1, <3>2 DEF Named
    <3> QED BY <1>1, <1>2, <3>1, <3>3
  <2> QED BY <2>1, <2>2 DEF Ends
<1>5. Waits(n)
  <2> SUFFICES ASSUME ~Waits(n) PROVE FALSE
    OBVIOUS
  <2>1. n = active /\ toHost = <<>>
    BY <1>2 DEF Ordered, Waits
  <2> QED BY <1>4, <2>1 DEF Replied
<1> QED BY <1>2, <1>4, <1>5 DEF Ending

(* The page gives up on a request.                                          *)
LEMMA TimeoutKeepsTracked ==
  ASSUME Numbered, Tracked, NEW n, Timeout(n)
  PROVE  Tracked'
<1>1. Ordered /\ Named /\ Asking /\ Replied /\ Accounted
  BY DEF Tracked
<1> PICK m : m = NoAnswer
  OBVIOUS
<1>2. /\ Pending(n) /\ Resolve(n, m, "timeout") /\ ~IsSession(m)
      /\ UNCHANGED <<queued, active, toHost, fromHost, session, starting>>
  BY DEF Timeout, ext, pipes, agent, NoAnswer, Reply, IsSession
<1>3. ResolvedAs(n, m, "timeout")
  BY <1>2, ResolveFacts
<1>4. /\ issued' = issued /\ open' = open
      /\ \A j : Pending(j)' <=> (Pending(j) /\ j # n)
      /\ busy' = busy \/ busy = n
      /\ panel' = panel \/ (panel' = 0 /\ Ends(n))
      /\ Kind(n, "start") \/ Kind(n, "mount") => TimedOut'
  BY <1>2, <1>3 DEF ResolvedAs, Ends
<1>5. (TimedOut => TimedOut') /\ \A t : Excused(t) => Excused(t)'
  BY <1>3 DEF ResolvedAs
<1>6. /\ \A j, x : Kind(j, x)' <=> Kind(j, x)
      /\ \A j : Ends(j)' <=> Ends(j)
      /\ \A j : Waits(j)' <=> Waits(j)
      /\ \A j : OfPanel(j)' <=> OfPanel(j)
      /\ Replies' = Replies
  BY <1>2, <1>4 DEF Kind, Ends, Waits, InQueue, OfPanel, Replies, IsReply
<1>7. \A x : Known(x)' => Known(x) \/ x = 0
  BY <1>2, <1>4 DEF Known
<1>8. Ordered'
  BY <1>1, <1>2, <1>4, <1>6 DEF Ordered
<1>9. Named'
  <2>1. \A x : Known(x)' => x <= Len(issued')
    BY <1>1, <1>4, <1>7, Numbers DEF Named
  <2>2. ASSUME NEW j \in DOMAIN issued', Waits(j)', Kind(j, "start")', NEW x, Known(x)'
        PROVE  x < j
    BY <1>1, <1>4, <1>6, <1>7, <2>2, Numbers DEF Named
  <2>3. session'.id # 0 => Kind(session.id, "start")' /\ \A x : Known(x)' => x <= session'.id
    BY <1>1, <1>2, <1>6, <1>7, Numbers DEF Named
  <2> QED BY <1>1, <1>2, <1>4, <1>6, <2>1, <2>2, <2>3 DEF Named
<1>10. Asking'
  BY <1>1, <1>4, <1>6 DEF Asking
<1>11. Replied'
  BY <1>1, <1>2, <1>4, <1>6 DEF Replied
<1>12. ASSUME NEW s \in DOMAIN issued', Waits(s)', Kind(s, "start")' PROVE Coming(s)'
  <2>1. Coming(s)
    BY <1>1, <1>4, <1>6, <1>12 DEF Accounted
  <2> QED BY <1>4, <1>5, <1>6, <1>12, <2>1 DEF Coming
<1>13. ASSUME NEW s \in DOMAIN issued', s = session'.id, Live(session)', ~Excused(s)'
       PROVE  Seen(s)'
  <2>1. Live(session) /\ s = session.id
    BY <1>2, <1>13 DEF Live
  <2>2. ~Excused(s) /\ ~TimedOut'
    BY <1>5, <1>13 DEF Excused
  <2>3. Seen(s) /\ Kind(s, "start")
    BY <1>1, <1>4, <2>1, <2>2, LiveIsStarted DEF Accounted
  <2>4. Ends(n) => Ending(s)
    BY <1>1, <1>2, <2>1, <2>2, <2>3, StopIsOnItsWay
  <2>5. Ending(s) => Ending(s)'
    BY <1>4, <1>6 DEF Ending
  <2>6. Pending(s) => Pending(s)'
    BY <1>4, <2>2, <2>3
  <2>7. Remounting => Remounting'
    BY <1>4, <1>6, <2>2 DEF Remounting
  <2>8. \A r \in DOMAIN issued' : Kind(r, "stop")' /\ r > s => issued'[r].id = s
    BY <1>4, <1>6, <2>3 DEF Seen
  <2>9. open' => \/ panel' = s \/ Pending(s)' \/ Remounting'
                 \/ panel' \in {0, s} /\ Ending(s)'
    BY <1>4, <2>3, <2>4, <2>5, <2>6, <2>7 DEF Seen
  <2> QED BY <2>8, <2>9 DEF Seen
<1> QED BY <1>8, <1>9, <1>10, <1>11, <1>12, <1>13 DEF Tracked, Accounted

(* A reply reaches the panel, which follows it.                             *)
LEMMA ReplyKeepsTracked ==
  ASSUME Numbered, Tracked, Served', ~crossed', Pending(active), NEW m, m = Head(fromHost),
         IsReply(m), toHost = <<>>, fromHost # <<>>, fromHost' = Tail(fromHost), active' = 0,
         Resolve(active, m, "error"), UNCHANGED <<queued, toHost, session, starting>>
  PROVE  Tracked'
<1>1. Ordered /\ Named /\ Asking /\ Replied /\ Accounted
  BY DEF Tracked
<1> PICK n : n = active
  OBVIOUS
<1>2. /\ Pending(n) /\ n \in DOMAIN issued /\ n \in Nat /\ n # 0
      /\ Resolve(n, m, "error")
  BY Numbers DEF Pending
<1>3. ResolvedAs(n, m, "error")
  BY <1>2, ResolveFacts
<1>4. /\ issued' = issued /\ open' = open
      /\ \A j : Pending(j)' <=> (Pending(j) /\ j # n)
      /\ busy' = busy \/ busy = n
      /\ \/ panel' = panel \/ (panel' = 0 /\ Ends(n))
         \/ panel' = m.id /\ IsSession(m) /\ OfPanel(n)
      /\ (Kind(n, "start") /\ m.id # 0) \/ Kind(n, "mount") => (IsSession(m) => panel' = m.id)
  BY <1>3 DEF ResolvedAs, Ends
<1>5. (TimedOut => TimedOut') /\ \A t : Excused(t) => Excused(t)'
  BY <1>3 DEF ResolvedAs
<1>6. /\ 1 \in DOMAIN fromHost /\ m = fromHost[1] /\ 1 \in Replies
      /\ \A i \in DOMAIN fromHost' : i + 1 \in DOMAIN fromHost /\ fromHost'[i] = fromHost[i + 1]
  BY Followed DEF Numbered, Replies
<1>7. Replies' = {}
  BY DEF Served, InTurn
<1>8. /\ \A j, x : Kind(j, x)' <=> Kind(j, x)
      /\ \A j : Ends(j)' <=> Ends(j)
      /\ \A j : OfPanel(j)' <=> OfPanel(j)
  BY <1>4 DEF Kind, Ends, OfPanel
<1>9. \A j : (Waits(j)' <=> Waits(j)) /\ (Waits(j) => InQueue(j))
  BY <1>4 DEF Waits, InQueue
<1>10. \A x : Known(x)' => Known(x) \/ x = 0
  BY <1>4, <1>6 DEF Known
<1>11. \A j : Waits(j) => j > n /\ j \in DOMAIN issued
  BY <1>9 , <1>1 DEF Ordered, InQueue, Waits
<1>12. Ordered'
  <2>1. \A i \in DOMAIN queued' : queued'[i] > active'
    BY Numbers DEF Numbered
  <2>2. \A j \in DOMAIN issued' : Waits(j)' => j > session'.id
    BY <1>1, <1>4, <1>9 DEF Ordered
  <2>3. \A j \in DOMAIN issued' : Pending(j)' => Waits(j)' \/ j = active'
    BY <1>1, <1>4, <1>9 DEF Ordered
  <2>4. starting' = 0
    BY <1>1 DEF Ordered
  <2> QED BY <1>1, <2>1, <2>2, <2>3, <2>4 DEF Ordered
<1>13. Named'
  <2>1. \A x : Known(x)' => x <= Len(issued')
    BY <1>1, <1>4, <1>10, Numbers DEF Named
  <2>2. ASSUME NEW j \in DOMAIN issued', Waits(j)', Kind(j, "start")', NEW x, Known(x)'
        PROVE  x < j
    BY <1>1, <1>4, <1>8, <1>9, <1>10, <2>2, Numbers DEF Named
  <2>3. session'.id # 0 => Kind(session.id, "start")' /\ \A x : Known(x)' => x <= session'.id
    BY <1>1, <1>8, <1>10, Numbers DEF Named
  <2> QED BY <1>1, <1>4, <1>8, <2>1, <2>2, <2>3 DEF Named
<1>14. Asking'
  <2>1. \A j \in DOMAIN issued' : Kind(j, "start")' /\ Pending(j)' => busy' = j
    BY <1>1, <1>4, <1>8 DEF Asking
  <2>2. ASSUME NEW k \in DOMAIN issued', Kind(k, "mount")', Pending(k)'
        PROVE  panel' = 0 /\ \A j \in DOMAIN issued' : j < k /\ Pending(j)' => ~OfPanel(j)'
    <3>1. Kind(k, "mount") /\ Pending(k) /\ k # n /\ k \in DOMAIN issued
      BY <1>4, <1>8, <2>2
    <3>2. panel = 0 /\ \A j \in DOMAIN issued : j < k /\ Pending(j) => ~OfPanel(j)
      BY <1>1, <3>1 DEF Asking
    <3>3. n < k
      BY <1>1, <1>2, <1>11, <3>1, Numbers DEF Ordered
    <3>4. ~OfPanel(n)
      BY <1>2, <3>2, <3>3
    <3> QED BY <1>4, <1>8, <3>2, <3>4
  <2> QED BY <2>1, <2>2 DEF Asking
<1>15. Replied'
  <2>1. 0 \notin DOMAIN issued' /\ ~Ends(active)'
    BY <1>4, Numbers DEF Ends, Kind
  <2> QED BY <1>7, <2>1 DEF Replied
<1>16. ASSUME NEW s \in DOMAIN issued', Waits(s)', Kind(s, "start")' PROVE Coming(s)'
  <2>1. Coming(s) /\ s > n /\ s \in Nat
    BY <1>1, <1>4, <1>8, <1>9, <1>11, <1>16, Numbers DEF Accounted
  <2>2. \A k \in DOMAIN issued : k > s => k # n
    BY <1>2, <2>1, Numbers
  <2> QED BY <1>2, <1>4, <1>5, <1>8, <2>1, <2>2 DEF Coming
<1>17. ASSUME NEW s \in DOMAIN issued', s = session'.id, Live(session)', ~Excused(s)'
       PROVE  Seen(s)'
  <2>1. Live(session) /\ s = session.id
    BY <1>17 DEF Live
  <2>2. ~Excused(s)
    BY <1>5, <1>17
  <2>3. Seen(s) /\ Kind(s, "start") /\ s # 0
    BY <1>1, <1>4, <2>1, <2>2, LiveIsStarted DEF Accounted
  <2>4. Ends(n) => Ending(s)
    BY <1>1, <1>2, <2>1, <2>2, <2>3, StopIsOnItsWay
  <2>5. Ending(s) => Ending(s)'
    BY <1>4, <1>8, <1>9 DEF Ending
  <2>6. IsSession(m) => m.id = s
    BY <1>1, <1>6, <2>1, <2>3 DEF Replied, IsSession
  <2>7. Kind(n, "mount") \/ n = s => IsSession(m)
    BY <1>1, <1>6, <2>1, <2>3 DEF Replied, IsSession
  <2>8. Pending(s) => Pending(s)' \/ panel' = s
    BY <1>4, <2>3, <2>6, <2>7
  <2>9. Remounting => Remounting' \/ panel' = s
    BY <1>4, <1>8, <2>6, <2>7 DEF Remounting
  <2>10. \A r \in DOMAIN issued' : Kind(r, "stop")' /\ r > s => issued'[r].id = s
    BY <1>4, <1>8, <2>3 DEF Seen
  <2>11. open' => \/ panel' = s \/ Pending(s)' \/ Remounting'
                  \/ panel' \in {0, s} /\ Ending(s)'
    BY <1>4, <2>3, <2>4, <2>5, <2>6, <2>8, <2>9 DEF Seen
  <2> QED BY <2>10, <2>11 DEF Seen
<1> QED BY <1>12, <1>13, <1>14, <1>15, <1>16, <1>17 DEF Tracked, Accounted

(* A message that changes nothing the panel goes by.                        *)
LEMMA EventKeepsTracked ==
  ASSUME Numbered, Tracked, UNCHANGED <<issued, result, open, panel, busy>>,
         fromHost # <<>>, fromHost' = Tail(fromHost),
         UNCHANGED <<queued, toHost, session, starting>>,
         \/ active' = active
         \/ active' = 0 /\ toHost = <<>> /\ ~Pending(active) /\ Replies' = {}
  PROVE  Tracked'
<1>1. Ordered /\ Named /\ Asking /\ Replied /\ Accounted
  BY DEF Tracked
<1>2. \A i \in DOMAIN fromHost' : i + 1 \in DOMAIN fromHost /\ fromHost'[i] = fromHost[i + 1]
  BY Followed DEF Numbered
<1>3. /\ \A j, x : Kind(j, x)' <=> Kind(j, x)
      /\ \A j : Ends(j)' <=> Ends(j)
      /\ \A j : OfPanel(j)' <=> OfPanel(j)
      /\ \A j : Pending(j)' <=> Pending(j)
      /\ TimedOut' <=> TimedOut
      /\ \A t : Excused(t)' <=> Excused(t)
  BY DEF Kind, Ends, OfPanel, Pending, TimedOut, Excused
<1>4. \A j : Waits(j)' <=> Waits(j)
  BY DEF Waits, InQueue
<1>5. \A x : Known(x)' => Known(x)
  BY <1>2 DEF Known
<1>6. Ordered'
  <2>1. \A i \in DOMAIN queued' : queued'[i] > active'
    BY <1>1, Numbers DEF Ordered, Numbered
  <2> QED BY <1>1, <1>3, <1>4, <2>1 DEF Ordered
<1>7. Named'
  BY <1>1, <1>3, <1>4, <1>5 DEF Named
<1>8. Asking'
  BY <1>1, <1>3 DEF Asking
<1>9. Replied'
  <2>1. CASE active' = active
    <3>1. \A i \in Replies' : i + 1 \in Replies /\ fromHost'[i] = fromHost[i + 1]
      BY <1>2 DEF Replies, IsReply
    <3>2. ASSUME NEW i \in Replies'
          PROVE  /\ fromHost'[i].type = "session" /\ session'.id # 0 =>
                      fromHost'[i].id = session'.id
                 /\ Kind(active, "mount")' => fromHost'[i].type = "session"
                 /\ Kind(active, "start")' /\ session'.id = active' =>
                      fromHost'[i].type = "session"
      <4>1. Kind(active, "mount")' => Kind(active, "mount")
        BY <2>1 DEF Kind
      <4>2. Kind(active, "start")' => Kind(active, "start")
        BY <2>1 DEF Kind
      <4> QED BY <1>1, <2>1, <3>1, <4>1, <4>2 DEF Replied
    <3>3. toHost' = <<>> /\ Ends(active)' => issued'[active'].id # session'.id
      BY <1>1, <2>1 DEF Replied, Ends, Kind
    <3> QED BY <3>2, <3>3 DEF Replied
  <2>2. CASE active' = 0 /\ Replies' = {}
    <3>1. ~Ends(active)'
      BY <2>2, Numbers DEF Ends, Kind
    <3> QED BY <2>2, <3>1 DEF Replied
  <2> QED BY <2>1, <2>2
<1>10. ASSUME NEW s \in DOMAIN issued', Waits(s)', Kind(s, "start")' PROVE Coming(s)'
  <2>1. Coming(s)
    BY <1>1, <1>3, <1>4, <1>10 DEF Accounted
  <2> QED BY <1>3, <2>1 DEF Coming
<1>11. ASSUME NEW s \in DOMAIN issued', s = session'.id, Live(session)', ~Excused(s)'
       PROVE  Seen(s)'
  <2>1. Seen(s)
    BY <1>1, <1>3, <1>11 DEF Accounted, Live
  <2>2. (Ending(s) => Ending(s)') /\ (Remounting => Remounting')
    BY <1>3, <1>4 DEF Ending, Remounting
  <2> QED BY <1>3, <2>1, <2>2 DEF Seen
<1> QED BY <1>6, <1>7, <1>8, <1>9, <1>10, <1>11 DEF Tracked, Accounted

(* A message of the agent reaches the page.                                 *)
LEMMA MessageKeepsTracked ==
  ASSUME Served, Tracked, OnMessage, Served', ~crossed'
  PROVE  Tracked'
<1>1. Numbered /\ (~crossed => InTurn)
  BY DEF Served
<1> PICK m : m = Head(fromHost)
  OBVIOUS
<1>2. /\ fromHost # <<>> /\ fromHost' = Tail(fromHost)
      /\ UNCHANGED <<queued, toHost, session, starting>>
      /\ \/ UNCHANGED <<issued, result, open, panel, busy, active, crossed>>
         \/ /\ m.type \notin Broadcast /\ active # 0 /\ active' = 0
            /\ Resolve(active, m, "error") /\ crossed' = (crossed \/ m.type = "disconnected")
  BY DEF OnMessage, page, agent, AfterReply, NoId
<1>3. CASE UNCHANGED <<issued, result, open, panel, busy, active, crossed>>
  BY <1>1, <1>2, <1>3, EventKeepsTracked
<1>4. CASE /\ m.type \notin Broadcast /\ active # 0 /\ active' = 0
           /\ Resolve(active, m, "error") /\ crossed' = (crossed \/ m.type = "disconnected")
  <2>1. IsReply(m) /\ ~crossed
    BY <1>4 DEF Broadcast, IsReply
  <2>2. 1 \in Replies
    BY <1>1, <1>2, <2>1, Followed DEF Numbered, Replies
  <2>3. toHost = <<>> /\ Replies' = {}
    BY <1>1, <1>4, <2>1, <2>2 DEF InTurn, Served
  <2>4. CASE Pending(active)
    BY <1>1, <1>2, <1>4, <2>1, <2>3, <2>4, ReplyKeepsTracked
  <2>5. CASE ~Pending(active)
    <3>1. UNCHANGED <<issued, result, open, panel, busy>>
      BY <1>4, <2>5 DEF Resolve, page
    <3> QED BY <1>1, <1>2, <1>4, <2>3, <2>5, <3>1, EventKeepsTracked
  <2> QED BY <2>4, <2>5
<1> QED BY <1>2, <1>3, <1>4

(* What a step that leaves the page alone leaves of it.                     *)
PageStill ==
  /\ issued' = issued /\ open' = open /\ panel' = panel /\ busy' = busy
  /\ \A n, x : Kind(n, x)' <=> Kind(n, x)
  /\ \A n : Ends(n)' <=> Ends(n)
  /\ \A n : OfPanel(n)' <=> OfPanel(n)
  /\ \A n : Pending(n)' <=> Pending(n)
  /\ TimedOut' <=> TimedOut
  /\ Remounting' <=> Remounting
  /\ \A s : Excused(s)' <=> Excused(s)
  /\ \A s : Coming(s)' <=> Coming(s)

LEMMA PageStays ==
  ASSUME UNCHANGED <<issued, result, open, panel, busy>>
  PROVE  PageStill
<1>1. /\ \A n, x : Kind(n, x)' <=> Kind(n, x)
      /\ \A n : Pending(n)' <=> Pending(n)
      /\ \A n : OfPanel(n)' <=> OfPanel(n)
      /\ TimedOut' <=> TimedOut
  BY DEF Kind, Pending, OfPanel, TimedOut
<1>2. /\ \A n : Ends(n)' <=> Ends(n)
      /\ Remounting' <=> Remounting
      /\ \A s : Excused(s)' <=> Excused(s)
  BY <1>1 DEF Ends, Remounting, Excused
<1>3. \A s : Coming(s)' <=> Coming(s)
  BY <1>1, <1>2 DEF Coming
<1> QED BY <1>1, <1>2, <1>3 DEF PageStill

(* The extension posts a request: it is on its way as before.               *)
LEMMA PumpKeepsTracked ==
  ASSUME Served, Tracked, ~crossed, Pump
  PROVE  Tracked'
<1>1. Ordered /\ Named /\ Asking /\ Replied /\ Accounted
  BY DEF Tracked
<1>2. /\ active = 0 /\ queued # <<>> /\ active' = queued[1] /\ queued' = Tail(queued)
      /\ toHost' = Append(toHost, active') /\ 1 \in DOMAIN queued
      /\ UNCHANGED <<issued, result, open, panel, busy, fromHost, session, starting>>
      /\ \A i \in DOMAIN queued' : i + 1 \in DOMAIN queued /\ queued'[i] = queued[i + 1]
  BY Followed DEF Pump, page, agent, NoId, Served, Numbered
<1>3. Numbered /\ toHost = <<>> /\ Replies = {}
  BY <1>2 DEF Served, InTurn
<1>4. toHost' # <<>> /\ Replies' = {} /\ session'.id = session.id
      /\ starting = 0 /\ starting' = 0
  <2>1. active' \in Nat /\ toHost \in Seq(Nat)
    BY <1>2, <1>3 DEF Numbered
  <2>2. toHost' # <<>>
    BY <1>2, <2>1, Appended
  <2>3. Replies' = {}
    BY <1>2, <1>3 DEF Replies
  <2> QED BY <1>1, <1>2, <1>3, <2>2, <2>3 DEF Ordered
<1>5. PageStill
  BY <1>2, PageStays
<1>6. active' \in DOMAIN issued /\ active' \in Nat /\ active' # 0 /\ Waits(active')
  <2>1. active' \in DOMAIN issued
    BY <1>2, <1>3 DEF Numbered
  <2>2. InQueue(active')
    BY <1>2 DEF InQueue
  <2> QED BY <1>3, <2>1, <2>2, Numbers DEF Waits
<1>7. \A n : InQueue(n) <=> (n = active' \/ InQueue(n)')
  <2>1. DOMAIN queued = 1..Len(queued) /\ Len(queued) \in Nat
        /\ DOMAIN queued' = 1..(Len(queued) - 1)
    BY <1>2, <1>3 DEF Numbered
  <2>2. \A i \in DOMAIN queued : i # 1 => i - 1 \in DOMAIN queued' /\ queued'[i - 1] = queued[i]
    BY <1>2, <2>1
  <2>3. \A n : InQueue(n) => n = active' \/ InQueue(n)'
    BY <1>2, <2>2 DEF InQueue
  <2>4. \A n : InQueue(n)' => InQueue(n)
    BY <1>2 DEF InQueue
  <2> QED BY <1>2, <2>3, <2>4 DEF InQueue
<1>8. \A n : Waits(n)' <=> Waits(n)
  <2>1. \A n : Waits(n) <=> n \in DOMAIN issued /\ InQueue(n)
    BY <1>3 DEF Waits
  <2>2. \A n : Waits(n)' <=> n \in DOMAIN issued /\ (InQueue(n)' \/ n = active')
    BY <1>4, <1>5 DEF Waits, PageStill
  <2> QED BY <1>7, <2>1, <2>2
<1>9. Ordered'
  <2>1. \A i, j \in DOMAIN queued' : i < j => queued'[i] < queued'[j]
    <3>1. \A i \in DOMAIN queued' : i \in Int
      BY <1>2, <1>3 DEF Numbered
    <3> QED BY <1>1, <1>2, <3>1 DEF Ordered
  <2>2. ASSUME NEW i \in DOMAIN queued' PROVE queued'[i] > active'
    <3>1. 1 < i + 1 /\ i + 1 \in DOMAIN queued /\ queued'[i] = queued[i + 1]
      BY <1>2, <1>3 DEF Numbered
    <3>2. queued[1] < queued[i + 1]
      BY <1>1, <1>2, <3>1 DEF Ordered
    <3>3. queued[i + 1] \in Nat
      BY <1>3, <3>1 DEF Numbered
    <3> QED BY <1>2, <1>6, <3>1, <3>2, <3>3
  <2>3. \A n \in DOMAIN issued' : Waits(n)' => n > session'.id
    BY <1>1, <1>4, <1>5, <1>8 DEF Ordered, PageStill
  <2>4. active' >= session'.id
    <3>1. active' > session.id /\ session.id \in Nat
      BY <1>1, <1>3, <1>6, Numbers DEF Ordered
    <3> QED BY <1>4, <1>6, <3>1
  <2>5. \A n \in DOMAIN issued' : Pending(n)' => Waits(n)' \/ n = active'
    <3>1. \A n \in DOMAIN issued : n # 0
      BY <1>3, Numbers
    <3> QED BY <1>1, <1>2, <1>5, <1>8, <3>1 DEF Ordered, PageStill
  <2> QED BY <1>4, <2>1, <2>2, <2>3, <2>4, <2>5 DEF Ordered
<1>10. Named'
  <2>1. \A x : Known(x)' <=> Known(x)
    BY <1>2 DEF Known
  <2> QED BY <1>1, <1>2, <1>5, <1>8, <2>1 DEF Named, PageStill
<1>11. Asking'
  BY <1>1, <1>5 DEF Asking, PageStill
<1>12. Replied'
  BY <1>4 DEF Replied
<1>13. ASSUME NEW s \in DOMAIN issued', Waits(s)', Kind(s, "start")' PROVE Coming(s)'
  BY <1>1, <1>5, <1>8, <1>13 DEF Accounted, PageStill
<1>14. ASSUME NEW s \in DOMAIN issued', s = session'.id, Live(session)', ~Excused(s)'
       PROVE  Seen(s)'
  <2>1. Seen(s)
    BY <1>1, <1>2, <1>5, <1>14 DEF Accounted, Live, PageStill
  <2>2. Ending(s) => Ending(s)'
    BY <1>5, <1>8 DEF Ending, PageStill
  <2> QED BY <1>5, <2>1, <2>2 DEF Seen, PageStill
<1> QED BY <1>9, <1>10, <1>11, <1>12, <1>13, <1>14 DEF Tracked, Accounted

(* The port is lost, and with it the session and every open request.        *)
LEMMA LostPortKeepsTracked ==
  ASSUME Numbered, Tracked, OnDisconnect
  PROVE  Tracked'
<1>1. Ordered /\ Named /\ Asking
  BY DEF Tracked
<1>2. /\ queued' = <<>> /\ active' = 0 /\ toHost' = <<>> /\ fromHost' = <<>>
      /\ starting' = 0 /\ session'.status = "none" /\ session'.id = 0
      /\ panel' \in {0, panel} /\ issued' = issued
  BY DEF OnDisconnect, HostEnds, NoId, NoSession
<1>3. \A n : InQueue(n) => Contains(queued, n)
  BY DEF InQueue, Contains
<1>4. \A n : ~Pending(n)'
  <2> PICK F : F = {n \in DOMAIN issued : Pending(n) /\ (n = active \/ Contains(queued, n))}
    OBVIOUS
  <2>1. result' = [n \in DOMAIN result |-> IF n \in F THEN "error" ELSE result[n]]
    BY DEF OnDisconnect
  <2>2. \A n : Pending(n) => n \in F
    <3>1. \A n : Pending(n) => n \in DOMAIN issued
      BY Numbers DEF Pending
    <3>2. \A n \in DOMAIN issued : Pending(n) => InQueue(n) \/ n = active
      BY <1>1 DEF Ordered, Waits
    <3> QED BY <1>3, <3>1, <3>2
  <2> QED BY <2>1, <2>2 DEF Pending
<1>5. /\ \A n : ~Waits(n)'
      /\ \A n, x : Kind(n, x)' <=> Kind(n, x)
      /\ Replies' = {}
  BY <1>2 DEF Waits, InQueue, Kind, Replies
<1>6. Ordered'
  BY <1>2, <1>4, <1>5 DEF Ordered
<1>7. Named'
  <2>1. \A x : Known(x)' => Known(x) \/ x = 0
    BY <1>2 DEF Known
  <2>2. \A x : Known(x)' => x <= Len(issued')
    BY <1>1, <1>2, <2>1, Numbers DEF Named
  <2>3. \A n \in DOMAIN issued' : Ends(n)' => issued'[n].id # 0
    BY <1>1, <1>2, <1>5 DEF Named, Ends
  <2> QED BY <1>2, <1>5, <2>2, <2>3 DEF Named
<1>8. Asking'
  BY <1>4 DEF Asking
<1>9. Replied'
  <2>1. ~Ends(active)'
    BY <1>2, Numbers DEF Ends, Kind
  <2> QED BY <1>5, <2>1 DEF Replied
<1>10. Accounted'
  BY <1>2, <1>5 DEF Accounted, Live
<1> QED BY <1>6, <1>7, <1>8, <1>9, <1>10 DEF Tracked


(* The agent tells something that is no reply, or nothing: its session goes *)
(* on, ends, or is about to be started.                                     *)
LEMMA TellingKeepsTracked ==
  ASSUME Numbered, Tracked, PageStill, UNCHANGED <<queued, active, toHost>>,
         Replies' = Replies, \A i \in Replies : fromHost'[i] = fromHost[i],
         \A i \in DOMAIN fromHost' :
           fromHost'[i].id = 0 \/ (i \in DOMAIN fromHost /\ fromHost'[i] = fromHost[i]),
         session'.id = session.id \/ session'.id = 0,
         Live(session)' => Live(session) /\ session'.id = session.id,
         session'.id = 0 => session'.status = "none",
         starting' = starting \/ (starting' = active /\ toHost # <<>> /\ Kind(active, "start"))
  PROVE  Tracked'
<1>1. Ordered /\ Named /\ Asking /\ Replied /\ Accounted
  BY DEF Tracked
<1>2. /\ issued' = issued /\ panel' = panel
      /\ \A n, x : Kind(n, x)' <=> Kind(n, x)
      /\ \A n : Ends(n)' <=> Ends(n)
      /\ \A n : Pending(n)' <=> Pending(n)
  BY DEF PageStill
<1>3. \A n : Waits(n)' <=> Waits(n)
  BY <1>2 DEF Waits, InQueue
<1>4. \A x : Known(x)' => Known(x) \/ x = 0
  BY <1>2 DEF Known
<1>5. 0 \notin DOMAIN issued /\ session.id \in Nat /\ active \in Nat
      /\ \A n \in DOMAIN issued : n \in Nat /\ n # 0
  BY Numbers
<1>6. Ordered'
  <2>1. \A n \in DOMAIN issued' : Waits(n)' => n > session'.id
    BY <1>1, <1>2, <1>3, <1>5 DEF Ordered
  <2>2. active' # 0 => active' >= session'.id
    BY <1>1, <1>5 DEF Ordered
  <2>3. \A n \in DOMAIN issued' : Pending(n)' => Waits(n)' \/ n = active'
    BY <1>1, <1>2, <1>3 DEF Ordered
  <2>4. starting' # 0 => toHost' # <<>> /\ starting' = active' /\ Kind(starting, "start")'
    <3>1. Kind(starting, "start")' <=> issued[starting'].kind = "start" /\ starting' \in DOMAIN issued
      BY <1>2 DEF Kind
    <3> QED BY <1>1, <3>1 DEF Ordered, Kind
  <2> QED BY <1>1, <2>1, <2>2, <2>3, <2>4 DEF Ordered
<1>7. Named'
  <2>1. \A x : Known(x)' => x <= Len(issued')
    BY <1>1, <1>2, <1>4, Numbers DEF Named
  <2>2. ASSUME NEW n \in DOMAIN issued', Waits(n)', Kind(n, "start")', NEW x, Known(x)'
        PROVE  x < n
    BY <1>1, <1>2, <1>3, <1>4, <1>5, <2>2 DEF Named
  <2>3. session'.id # 0 => Kind(session.id, "start")' /\ \A x : Known(x)' => x <= session'.id
    <3> SUFFICES ASSUME session'.id # 0
                 PROVE  Kind(session.id, "start")' /\ \A x : Known(x)' => x <= session'.id
      OBVIOUS
    <3>1. Kind(session.id, "start") /\ session'.id = session.id
          /\ \A x : Known(x) => x <= session.id
      BY <1>1 DEF Named
    <3>2. Kind(session.id, "start")'
      BY <1>2, <3>1 DEF Kind
    <3> QED BY <1>4, <1>5, <3>1, <3>2
  <2>4. \A n \in DOMAIN issued' : Ends(n)' => issued'[n].id # 0
    BY <1>1, <1>2 DEF Named
  <2> QED BY <2>1, <2>2, <2>3, <2>4 DEF Named
<1>8. Asking'
  BY <1>1 DEF Asking, PageStill
<1>9. Replied'
  <2>1. \A x : Kind(active, x)' <=> Kind(active, x)
    BY <1>2 DEF Kind
  <2>2. Ends(active)' <=> Ends(active)
    BY <2>1 DEF Ends
  <2>3. Kind(active, "start") => active # 0
    BY <1>5 DEF Kind
  <2>4. ASSUME NEW i \in Replies'
        PROVE  /\ fromHost'[i].type = "session" /\ session'.id # 0 =>
                    fromHost'[i].id = session'.id
               /\ Kind(active, "mount")' => fromHost'[i].type = "session"
               /\ Kind(active, "start")' /\ session'.id = active' =>
                    fromHost'[i].type = "session"
    BY <1>1, <2>1, <2>3 DEF Replied
  <2>5. toHost' = <<>> /\ Ends(active)' => issued'[active'].id # session'.id
    <3>1. Ends(active) => active \in DOMAIN issued /\ issued[active].id # 0
      BY <1>1 DEF Named, Ends, Kind
    <3> QED BY <1>1, <1>2, <2>2, <3>1 DEF Replied
  <2> QED BY <2>4, <2>5 DEF Replied
<1>10. ASSUME NEW s \in DOMAIN issued', Waits(s)', Kind(s, "start")' PROVE Coming(s)'
  BY <1>1, <1>3, <1>10 DEF Accounted, PageStill
<1>11. ASSUME NEW s \in DOMAIN issued', s = session'.id, Live(session)', ~Excused(s)'
       PROVE  Seen(s)'
  <2>1. Seen(s)
    BY <1>1, <1>11 DEF Accounted, PageStill
  <2>2. Ending(s) => Ending(s)'
    BY <1>2, <1>3 DEF Ending
  <2> QED BY <2>1, <2>2 DEF Seen, PageStill
<1> QED BY <1>6, <1>7, <1>8, <1>9, <1>10, <1>11 DEF Tracked, Accounted

(* The agent replies to the request on the port; its session goes on, ends, *)
(* or is the one that the request asked for.                                *)
LEMMA AnswerKeepsTracked ==
  ASSUME Numbered, Tracked, PageStill, UNCHANGED <<queued, active>>,
         toHost = <<active>>, toHost' = <<>>, active # 0, starting' = 0, NEW m,
         \A i \in Replies' : fromHost'[i] = m,
         \A i \in DOMAIN fromHost' :
           \/ fromHost'[i].id = 0 \/ fromHost'[i] = m
           \/ i \in DOMAIN fromHost /\ fromHost'[i] = fromHost[i],
         \/ m.type = "session" /\ m.id = session'.id
         \/ m.type # "session" /\ m.id = 0 /\ ~Kind(active, "mount") /\ active # session'.id,
         Ends(active) => issued[active].id # session'.id,
         session'.id = 0 => session'.status = "none",
         \/ session'.id = session.id /\ (Live(session)' => Live(session))
         \/ session'.id = 0
         \/ session'.id = active /\ Kind(active, "start")
  PROVE  Tracked'
<1>1. Ordered /\ Named /\ Asking /\ Replied /\ Accounted
  BY DEF Tracked
<1>2. /\ issued' = issued /\ panel' = panel
      /\ \A n, x : Kind(n, x)' <=> Kind(n, x)
      /\ \A n : Ends(n)' <=> Ends(n)
      /\ \A n : Pending(n)' <=> Pending(n)
  BY DEF PageStill
<1>3. 0 \notin DOMAIN issued /\ session.id \in Nat /\ active \in Nat
      /\ \A n \in DOMAIN issued : n \in Nat /\ n # 0
  BY Numbers
<1>4. Waits(active) /\ active \in DOMAIN issued /\ active > session.id
  <2>1. active \in DOMAIN issued
    BY DEF Numbered
  <2>2. Waits(active)
    BY <2>1 DEF Waits
  <2> QED BY <1>1, <2>1, <2>2 DEF Ordered
<1>5. \A n : Waits(n)' => Waits(n) /\ n > active /\ n \in DOMAIN issued
  <2>1. \A n : Waits(n)' => InQueue(n) /\ n \in DOMAIN issued
    BY <1>2 DEF Waits, InQueue
  <2>2. \A n : InQueue(n) => n > active
    BY <1>1 DEF Ordered, InQueue
  <2> QED BY <2>1, <2>2 DEF Waits
<1>6. \A n \in DOMAIN issued : Waits(n) => Waits(n)' \/ n = active
  BY <1>2 DEF Waits, InQueue
<1>7. session'.id \in Nat /\ session'.id <= active
  BY <1>3, <1>4
<1>8. \A x : Known(x)' => Known(x) \/ x = session'.id \/ x = 0
  BY <1>2 DEF Known
<1>9. session'.id # session.id /\ session'.id # 0 =>
        \A x : Known(x) => x < active
  BY <1>1, <1>4 DEF Named
<1>10. Ordered'
  <2>1. \A n \in DOMAIN issued' : Waits(n)' => n > session'.id
    BY <1>3, <1>5, <1>7
  <2>2. active' # 0 => active' >= session'.id
    BY <1>3, <1>7
  <2>3. \A n \in DOMAIN issued' : Pending(n)' => Waits(n)' \/ n = active'
    BY <1>1, <1>2, <1>6 DEF Ordered
  <2> QED BY <1>1, <2>1, <2>2, <2>3 DEF Ordered
<1>11. Named'
  <2>1. \A x : Known(x)' => x <= Len(issued')
    <3>1. active <= Len(issued) /\ Len(issued) \in Nat
      BY <1>4, Numbers
    <3> QED BY <1>1, <1>2, <1>3, <1>7, <1>8, <3>1 DEF Named
  <2>2. ASSUME NEW n \in DOMAIN issued', Waits(n)', Kind(n, "start")', NEW x, Known(x)'
        PROVE  x < n
    <3>1. Waits(n) /\ Kind(n, "start") /\ n > active /\ n \in DOMAIN issued /\ n \in Nat
      BY <1>2, <1>3, <1>5, <2>2
    <3>2. Known(x) => x < n
      BY <1>1, <3>1 DEF Named
    <3> QED BY <1>3, <1>7, <1>8, <2>2, <3>1, <3>2
  <2>3. session'.id # 0 => Kind(session.id, "start")' /\ \A x : Known(x)' => x <= session'.id
    <3> SUFFICES ASSUME session'.id # 0
                 PROVE  Kind(session.id, "start")' /\ \A x : Known(x)' => x <= session'.id
      OBVIOUS
    <3>1. \A x : Known(x) => x \in Nat
      BY Numbers
    <3>2. CASE session'.id = session.id
      <4>1. Kind(session.id, "start") /\ \A x : Known(x) => x <= session.id
        BY <1>1, <3>2 DEF Named
      <4>2. Kind(session.id, "start")'
        BY <1>2, <3>2, <4>1 DEF Kind
      <4> QED BY <1>3, <1>8, <3>2, <4>1, <4>2
    <3>3. CASE session'.id = active /\ session'.id # session.id
      <4>1. Kind(active, "start")
        BY <1>4, <3>3
      <4>2. Kind(session.id, "start")'
        BY <1>2, <3>3, <4>1 DEF Kind
      <4>3. \A x : Known(x) => x < active
        BY <1>9, <3>3
      <4> QED BY <1>3, <1>8, <3>1, <3>3, <4>2, <4>3
    <3> QED BY <3>2, <3>3
  <2>4. \A n \in DOMAIN issued' : Ends(n)' => issued'[n].id # 0
    BY <1>1, <1>2 DEF Named
  <2> QED BY <2>1, <2>2, <2>3, <2>4 DEF Named
<1>12. Asking'
  BY <1>1 DEF Asking, PageStill
<1>13. Replied'
  <2>1. \A x : Kind(active, x)' <=> Kind(active, x)
    BY <1>2 DEF Kind
  <2>2. Ends(active)' <=> Ends(active)
    BY <2>1 DEF Ends
  <2>3. ASSUME NEW i \in Replies'
        PROVE  /\ fromHost'[i].type = "session" /\ session'.id # 0 =>
                    fromHost'[i].id = session'.id
               /\ Kind(active, "mount")' => fromHost'[i].type = "session"
               /\ Kind(active, "start")' /\ session'.id = active' =>
                    fromHost'[i].type = "session"
    BY <2>1
  <2> QED BY <1>2, <2>2, <2>3 DEF Replied
<1>14. ASSUME NEW s \in DOMAIN issued', Waits(s)', Kind(s, "start")' PROVE Coming(s)'
  BY <1>1, <1>5, <1>14 DEF Accounted, PageStill
<1>15. ASSUME NEW s \in DOMAIN issued', s = session'.id, Live(session)', ~Excused(s)'
       PROVE  Seen(s)'
  <2>0. ~Excused(s) /\ s \in DOMAIN issued /\ s # 0 /\ s \in Nat
    BY <1>2, <1>3, <1>15 DEF PageStill
  <2>1. CASE s = session.id /\ Live(session)
    <3>1. Seen(s)
      BY <1>1, <2>0, <2>1 DEF Accounted
    <3>2. Ending(s) => Ending(s)'
      <4> SUFFICES ASSUME NEW r \in DOMAIN issued, Waits(r), Ends(r), issued[r].id = s
                   PROVE  Ending(s)'
        BY DEF Ending
      <4>1. r # active
        BY <1>15
      <4> QED BY <1>2, <1>6, <4>1 DEF Ending
    <3> QED BY <3>1, <3>2 DEF Seen, PageStill
  <2>2. CASE s = active /\ Kind(active, "start")
    <3>1. Coming(s)
      BY <1>1, <1>4, <2>2 DEF Accounted
    <3>2. ~TimedOut
      BY <2>0 DEF Excused
    <3>3. \A r \in DOMAIN issued : ~(Kind(r, "stop") /\ r > s)
      BY <1>3, <2>0, <3>1 DEF Coming
    <3>4. open => Pending(s) \/ Remounting
      BY <3>1, <3>2 DEF Coming, Remounting
    <3>5. \A r \in DOMAIN issued' : Kind(r, "stop")' /\ r > s => issued'[r].id = s
      BY <1>2, <3>3
    <3>6. open' => Pending(s)' \/ Remounting'
      BY <3>4 DEF PageStill
    <3> QED BY <3>5, <3>6 DEF Seen
  <2> QED BY <1>15, <2>0, <2>1, <2>2
<1> QED BY <1>10, <1>11, <1>12, <1>13, <1>14, <1>15 DEF Tracked, Accounted


(* What an event adds to the port, and what a reply does.                   *)
LEMMA EventAdds ==
  ASSUME Numbered, NEW t \in {"connected", "disconnected"},
         fromHost' = Append(fromHost, Event(t))
  PROVE  /\ Replies' = Replies /\ \A i \in Replies : fromHost'[i] = fromHost[i]
         /\ \A i \in DOMAIN fromHost' :
              fromHost'[i].id = 0 \/ (i \in DOMAIN fromHost /\ fromHost'[i] = fromHost[i])
<1> PICK e : e = Event(t)
  OBVIOUS
<1>1. e \in Answer /\ ~IsReply(e) /\ e.id = 0
  BY DEF Event, NoId, Answer, IsReply
<1>2. /\ DOMAIN fromHost' = DOMAIN fromHost \cup {Len(fromHost) + 1}
      /\ fromHost'[Len(fromHost) + 1] = e
      /\ \A i \in DOMAIN fromHost : fromHost'[i] = fromHost[i]
  <2>1. fromHost \in Seq(Answer) /\ fromHost' = Append(fromHost, e)
    BY DEF Numbered
  <2> QED BY <1>1, <2>1, Appended
<1>3. Replies' = Replies
  BY <1>1, <1>2 DEF Replies
<1>4. \A i \in Replies : i \in DOMAIN fromHost
  BY DEF Replies
<1> QED BY <1>1, <1>2, <1>3, <1>4

LEMMA ReplyAdds ==
  ASSUME Numbered, Replies = {}, NEW m \in Answer, NEW told \in {<<>>, <<Event("disconnected")>>},
         fromHost' = fromHost \o told \o <<m>>
  PROVE  /\ \A i \in Replies' : fromHost'[i] = m
         /\ \A i \in DOMAIN fromHost' :
              \/ fromHost'[i].id = 0 \/ fromHost'[i] = m
              \/ i \in DOMAIN fromHost /\ fromHost'[i] = fromHost[i]
<1> PICK e : e = Event("disconnected")
  OBVIOUS
<1>1. e \in Answer /\ ~IsReply(e) /\ e.id = 0
  BY DEF Event, NoId, Answer, IsReply
<1>2. fromHost \in Seq(Answer)
  BY DEF Numbered
<1>3. \A i \in DOMAIN fromHost' :
        \/ fromHost'[i] = e \/ fromHost'[i] = m
        \/ i \in DOMAIN fromHost /\ fromHost'[i] = fromHost[i]
  <2>1. CASE told = <<>>
    <3>1. fromHost' = Append(fromHost, m)
      BY <1>2, <2>1
    <3> QED BY <1>2, <3>1, Appended
  <2>2. CASE told = <<e>>
    <3> PICK q : q = Append(fromHost, e)
      OBVIOUS
    <3>1. fromHost' = Append(q, m)
      BY <1>1, <1>2, <2>2
    <3>2. /\ q \in Seq(Answer) /\ DOMAIN q = DOMAIN fromHost \cup {Len(fromHost) + 1}
          /\ q[Len(fromHost) + 1] = e /\ \A i \in DOMAIN fromHost : q[i] = fromHost[i]
      BY <1>1, <1>2, Appended
    <3>3. /\ DOMAIN fromHost' = DOMAIN q \cup {Len(q) + 1} /\ fromHost'[Len(q) + 1] = m
          /\ \A i \in DOMAIN q : fromHost'[i] = q[i]
      BY <3>1, <3>2, Appended
    <3> QED BY <3>2, <3>3
  <2> QED BY <2>1, <2>2
<1>4. \A i \in DOMAIN fromHost : ~IsReply(fromHost[i])
  BY DEF Replies
<1>5. \A i \in Replies' : i \in DOMAIN fromHost' /\ IsReply(fromHost'[i])
  BY DEF Replies, IsReply
<1> QED BY <1>1, <1>3, <1>4, <1>5

(* The agent takes a request and replies to it.                             *)
LEMMA TakenKeepsTracked ==
  ASSUME Served, Tracked, ~crossed, PageStill, UNCHANGED <<queued, active>>,
         toHost # <<>>, toHost' = Tail(toHost), starting' = 0,
         session' \in [status : {"none", "listening", "connected", "gone"}, id : Nat],
         NEW m \in Answer, NEW told \in {<<>>, <<Event("disconnected")>>},
         fromHost' = fromHost \o told \o <<m>>,
         \/ m.type = "session" /\ m.id = session'.id
         \/ m.type # "session" /\ m.id = 0 /\ ~Kind(active, "mount") /\ active # session'.id,
         Ends(active) => issued[active].id # session'.id,
         session'.id = 0 => session'.status = "none",
         \/ session'.id = session.id /\ (Live(session)' => Live(session))
         \/ session'.id = 0
         \/ session'.id = active /\ Kind(active, "start")
  PROVE  Tracked'
<1>1. toHost = <<active>> /\ Replies = {} /\ active # 0
  BY DEF Served, InTurn
<1>2. toHost' = <<>>
  BY <1>1
<1>3. Numbered
  BY DEF Served
<1>4. /\ \A i \in Replies' : fromHost'[i] = m
      /\ \A i \in DOMAIN fromHost' :
           \/ fromHost'[i].id = 0 \/ fromHost'[i] = m
           \/ i \in DOMAIN fromHost /\ fromHost'[i] = fromHost[i]
  BY <1>1, <1>3, ReplyAdds
<1> QED BY <1>1, <1>2, <1>3, <1>4, AnswerKeepsTracked

(* Steps of the agent.                                                     *)
LEMMA AgentKeepsTracked ==
  ASSUME Served, Tracked, ~crossed,
         \/ GetLanSession \/ SendLanEnvelope \/ StopLanSession
         \/ StartLanSession \/ Started \/ Expire \/ RouteLost
         \/ Connect \/ ClientGone
  PROVE  Tracked'
<1>1. Ordered /\ Named /\ Numbered
  BY DEF Tracked, Served
<1>2. UNCHANGED <<queued, active>> /\ PageStill
  <2>1. UNCHANGED <<issued, result, open, panel, busy, queued, active>>
    BY DEF GetLanSession, SendLanEnvelope, StopLanSession, StartLanSession,
           Started, Expire, RouteLost, Connect, ClientGone, page, ext
  <2> QED BY <2>1, PageStays
<1> DEFINE Sessions == [status : {"none", "listening", "connected", "gone"}, id : Nat]
<1>3. session \in Sessions /\ (session.id = 0 => session.status = "none")
  BY <1>1 DEF Numbered, Named
<1>4. toHost # <<>> => /\ Head(toHost) = active /\ active # 0 /\ active # session.id
                       /\ active \in DOMAIN issued
  <2> SUFFICES ASSUME toHost # <<>>
               PROVE  /\ Head(toHost) = active /\ active # 0 /\ active # session.id
                      /\ active \in DOMAIN issued
    OBVIOUS
  <2>1. toHost = <<active>> /\ active # 0
    BY DEF Served, InTurn
  <2>2. Waits(active) /\ active \in DOMAIN issued
    BY <1>1, <2>1 DEF Waits, Numbered
  <2>3. active > session.id /\ active \in Nat /\ session.id \in Nat
    BY <1>1, <2>2, Numbers DEF Ordered
  <2> QED BY <2>1, <2>2, <2>3
<1>5. fromHost \in Seq(Answer)
  BY <1>1 DEF Numbered
<1>6. \A m \in Answer : Append(fromHost, m) = fromHost \o <<>> \o <<m>>
  BY <1>5
<1>7. CASE GetLanSession
  <2> PICK told : told \in {<<>>, <<Event("disconnected")>>}
                  /\ fromHost' = fromHost \o told \o <<SessionReply(session')>>
    BY <1>7 DEF GetLanSession
  <2>1. /\ toHost # <<>> /\ starting' = 0 /\ toHost' = Tail(toHost)
        /\ issued[active].kind \in {"poll", "mount", "restore"}
        /\ \/ session' = session
           \/ session' = [session EXCEPT !.status = "gone"] /\ Live(session)
    BY <1>4, <1>7 DEF GetLanSession, AgentTakes, NoId
  <2>2. session' \in Sessions /\ session'.id = session.id
        /\ (session'.id = 0 => session'.status = "none")
    BY <1>3, <2>1 DEF Live
  <2>3. Live(session)' => Live(session)
    BY <2>1 DEF Live
  <2> PICK m : m = SessionReply(session')
    OBVIOUS
  <2>4. m \in Answer /\ m.type = "session" /\ m.id = session'.id
    BY <2>2 DEF SessionReply, Reply, Answer
  <2>5. ~Ends(active)
    BY <2>1 DEF Ends, Kind
  <2> QED BY <1>2, <2>1, <2>2, <2>3, <2>4, <2>5, TakenKeepsTracked
<1>8. CASE SendLanEnvelope
  <2> PICK m : m = Reply("sent", 0, session.status = "connected")
    OBVIOUS
  <2>1. /\ toHost # <<>> /\ starting' = 0 /\ toHost' = Tail(toHost) /\ session' = session
        /\ issued[active].kind = "send" /\ fromHost' = Append(fromHost, m)
    BY <1>4, <1>8 DEF SendLanEnvelope, AgentTakes, AgentReplies, HasSocket, agent, NoId
  <2>2. m \in Answer /\ m.type = "sent" /\ m.id = 0
    BY DEF Reply, Answer
  <2>3. ~Ends(active) /\ ~Kind(active, "mount")
    BY <2>1 DEF Ends, Kind
  <2>4. fromHost' = fromHost \o <<>> \o <<m>> /\ session' \in Sessions
    BY <1>3, <1>6, <2>1, <2>2
  <2>5. Live(session)' => Live(session)
    BY <2>1 DEF Live
  <2>6. session'.id = session.id /\ active # session'.id
        /\ (session'.id = 0 => session'.status = "none")
    BY <1>3, <1>4, <2>1
  <2> QED BY <1>2, <2>1, <2>2, <2>3, <2>4, <2>5, <2>6, TakenKeepsTracked
<1>9. CASE StopLanSession
  <2> PICK m : m = Reply("stopped", 0, FALSE)
    OBVIOUS
  <2>1. /\ toHost # <<>> /\ starting' = 0 /\ toHost' = Tail(toHost)
        /\ issued[active].kind \in {"stop", "renew"} /\ fromHost' = Append(fromHost, m)
        /\ \/ session' = [status |-> "none", id |-> 0]
           \/ session' = session /\ issued[active].id # session.id
    BY <1>4, <1>9 DEF StopLanSession, AgentTakes, AgentReplies, NoId, NoSession
  <2>2. m \in Answer /\ m.type = "stopped" /\ m.id = 0
    BY DEF Reply, Answer
  <2>3. Ends(active) /\ ~Kind(active, "mount") /\ issued[active].id # 0
    BY <1>1, <1>4, <2>1 DEF Ends, Kind, Named
  <2>4. fromHost' = fromHost \o <<>> \o <<m>>
    BY <1>6, <2>1, <2>2
  <2>5. Live(session)' => Live(session)
    BY <2>1 DEF Live
  <2>6. /\ session'.id = session.id \/ session'.id = 0
        /\ active # session'.id /\ issued[active].id # session'.id
        /\ session'.id = 0 => session'.status = "none"
    BY <1>3, <1>4, <2>1, <2>3
  <2>7. session' \in Sessions
    BY <1>3, <2>1
  <2> QED BY <1>2, <2>1, <2>2, <2>4, <2>5, <2>3, <2>6, <2>7, TakenKeepsTracked
<1>10. CASE StartLanSession
  <2>1. /\ toHost # <<>> /\ starting = 0 /\ session' = session
        /\ issued[active].kind = "start"
        /\ \/ toHost' = Tail(toHost) /\ fromHost' = Append(fromHost, NoAnswer) /\ starting' = 0
           \/ starting' = active /\ UNCHANGED <<toHost, fromHost>>
    BY <1>4, <1>10 DEF StartLanSession, AgentTakes, AgentReplies, pipes, NoId
  <2>2. Kind(active, "start") /\ ~Ends(active) /\ ~Kind(active, "mount")
    BY <1>4, <2>1 DEF Ends, Kind
  <2>3. (Live(session)' => Live(session)) /\ session'.id = session.id /\ session' \in Sessions
        /\ (session'.id = 0 => session'.status = "none")
    BY <1>3, <2>1 DEF Live
  <2>4. CASE toHost' = Tail(toHost) /\ fromHost' = Append(fromHost, NoAnswer) /\ starting' = 0
    <3> PICK m : m = NoAnswer
      OBVIOUS
    <3>1. m \in Answer /\ m.type # "session" /\ m.id = 0
      BY DEF NoAnswer, Reply, NoId, Answer
    <3>2. fromHost' = fromHost \o <<>> \o <<m>>
      BY <1>6, <2>4, <3>1
    <3>3. active # session'.id
      BY <1>4, <2>1
    <3> QED BY <1>2, <2>1, <2>2, <2>3, <2>4, <3>1, <3>2, <3>3, TakenKeepsTracked
  <2>5. CASE starting' = active /\ UNCHANGED <<toHost, fromHost>>
    <3>1. Replies' = Replies /\ \A i \in Replies : fromHost'[i] = fromHost[i]
      BY <2>5 DEF Replies, IsReply
    <3>2. \A i \in DOMAIN fromHost' : i \in DOMAIN fromHost /\ fromHost'[i] = fromHost[i]
      BY <2>5
    <3> QED BY <1>1, <1>2, <2>1, <2>2, <2>3, <2>5, <3>1, <3>2, TellingKeepsTracked
  <2> QED BY <2>1, <2>4, <2>5
<1>11. CASE Started
  <2> PICK m : m = SessionReply(session')
    OBVIOUS
  <2>1. /\ starting # 0 /\ starting' = 0 /\ session' = [status |-> "listening", id |-> starting]
        /\ toHost' = Tail(toHost) /\ fromHost' = Append(fromHost, m)
    BY <1>11 DEF Started, AgentReplies, NoId
  <2>2. toHost # <<>> /\ starting = active /\ Kind(active, "start")
    BY <1>1, <2>1 DEF Ordered
  <2>3. session'.id = active /\ session' \in Sessions /\ active # 0 /\ ~Ends(active)
    BY <1>1, <1>4, <2>1, <2>2 DEF Ends, Kind, Numbered
  <2>4. m \in Answer /\ m.type = "session" /\ m.id = session'.id
    BY <2>3 DEF SessionReply, Reply, Answer
  <2>5. fromHost' = fromHost \o <<>> \o <<m>>
    BY <1>6, <2>1, <2>4
  <2> QED BY <1>2, <2>1, <2>2, <2>3, <2>4, <2>5, TakenKeepsTracked
<1>12. CASE Expire \/ RouteLost \/ Connect \/ ClientGone
  <2>1. /\ UNCHANGED <<toHost, starting>>
        /\ \/ fromHost' = fromHost
           \/ \E t \in {"connected", "disconnected"} : fromHost' = Append(fromHost, Event(t))
    BY <1>12 DEF Expire, RouteLost, Connect, ClientGone, Emits, pipes
  <2>2. /\ Replies' = Replies /\ \A i \in Replies : fromHost'[i] = fromHost[i]
        /\ \A i \in DOMAIN fromHost' :
             fromHost'[i].id = 0 \/ (i \in DOMAIN fromHost /\ fromHost'[i] = fromHost[i])
    <3>1. CASE fromHost' = fromHost
      BY <3>1 DEF Replies, IsReply
    <3> QED BY <1>1, <2>1, <3>1, EventAdds
  <2>3. /\ session'.id = session.id \/ session'.id = 0
        /\ Live(session)' => Live(session) /\ session'.id = session.id
        /\ session'.id = 0 => session'.status = "none"
    <3>1. CASE session' = session
      BY <1>3, <3>1 DEF Live
    <3>2. CASE session' = [status |-> "none", id |-> 0]
      BY <3>2 DEF Live
    <3>3. CASE /\ session.status \in {"listening", "connected"}
               /\ \E t \in {"connected", "gone"} : session' = [session EXCEPT !.status = t]
      BY <1>3, <3>3 DEF Live
    <3> QED BY <1>12, <3>1, <3>2, <3>3
            DEF Expire, RouteLost, Connect, ClientGone, NoSession, NoId
  <2> QED BY <1>1, <1>2, <2>1, <2>2, <2>3, TellingKeepsTracked
<1> QED BY <1>7, <1>8, <1>9, <1>10, <1>11, <1>12

(* At first nothing is asked and there is no session.                       *)
LEMMA TrackedAtFirst == LanInit => Tracked
<1> SUFFICES ASSUME LanInit PROVE Tracked
  OBVIOUS
<1>1. /\ issued = <<>> /\ panel = 0 /\ queued = <<>> /\ fromHost = <<>> /\ active = 0
      /\ starting = 0 /\ session.id = 0 /\ session.status = "none"
  BY DEF LanInit, NoId, NoSession
<1>2. \A x : Known(x) => x = 0
  BY <1>1 DEF Known
<1>3. Ordered /\ Asking /\ Replied /\ Accounted
  BY <1>1 DEF Ordered, Asking, Replied, Accounted, Replies, Ends, Kind
<1>4. Named
  BY <1>1, <1>2 DEF Named
<1> QED BY <1>3, <1>4 DEF Tracked

(* When all that was asked is answered, the panel shows the session.        *)
LEMMA TrackedIsShown ==
  ASSUME Numbered, ~crossed => Tracked
  PROVE  LiveIsShown
<1> SUFFICES ASSUME Quiet, Live(session), open, ~crossed
             PROVE  \/ panel = session.id
                    \/ TimedOut
                    \/ \E n \in DOMAIN issued : /\ issued[n].kind = "renew"
                                                /\ issued[n].id < session.id /\ session.id < n
  BY DEF LiveIsShown, TimedOut
<1> PICK s : s = session.id
  OBVIOUS
<1> SUFFICES ASSUME ~Excused(s)
             PROVE  panel = s
  BY DEF Excused
<1>1. \A n : ~Waits(n)
  BY DEF Quiet, Waits, InQueue
<1>2. \A n : ~Pending(n)
  <2>1. \A n \in DOMAIN issued : ~Pending(n)
    BY <1>1, Numbers DEF Tracked, Ordered, Quiet, NoId
  <2> QED BY <2>1, Numbers DEF Pending
<1>3. Seen(s)
  BY LiveIsStarted DEF Tracked, Accounted
<1> QED BY <1>1, <1>2, <1>3 DEF Seen, Remounting, Ending

(* A listener that is open is one its user can see and stop: once all that  *)
(* was asked is answered, an open panel shows the session, but for the      *)
(* cases the property names (Pair.tsx, background.js, lan.ts).              *)
THEOREM SessionIsShown == LanSpec => []LiveIsShown
<1> DEFINE Inv == Served /\ (~crossed => Tracked)
<1>1. LanInit => Inv
  BY ServedAtFirst, TrackedAtFirst
<1>2. Inv /\ [LanNext]_lanVars => Inv'
  <2> SUFFICES ASSUME Inv, [LanNext]_lanVars, ~crossed' PROVE Tracked'
    BY ServedGoesOn
  <2>1. Served' /\ Served
    BY ServedGoesOn
  <2>2. ~crossed
    BY DEF LanNext, SendEnvelope, Activate, StopListener, NewCode, Poll, ReopenPanel,
           PageReload, Timeout, Pump, OnMessage, OnDisconnect, GetLanSession,
           SendLanEnvelope, StopLanSession, StartLanSession, Started, Expire,
           RouteLost, Connect, ClientGone, Issue, lanVars, hist
  <2>3. Numbered /\ Tracked
    BY <2>1, <2>2 DEF Served
  <2>4. CASE \/ SendEnvelope \/ Activate \/ StopListener \/ NewCode
             \/ Poll \/ ReopenPanel \/ PageReload
    BY <2>3, <2>4, PageKeepsTracked
  <2>5. CASE \E n \in DOMAIN issued : Timeout(n)
    BY <2>3, <2>5, TimeoutKeepsTracked
  <2>6. CASE Pump \/ OnMessage \/ OnDisconnect
    BY <2>1, <2>2, <2>3, <2>6, PumpKeepsTracked, MessageKeepsTracked, LostPortKeepsTracked
  <2>7. CASE \/ GetLanSession \/ SendLanEnvelope \/ StopLanSession
             \/ StartLanSession \/ Started \/ Expire \/ RouteLost
             \/ Connect \/ ClientGone
    BY <2>1, <2>2, <2>3, <2>7, AgentKeepsTracked
  <2>8. CASE UNCHANGED lanVars
    BY <2>3, <2>8
       DEF lanVars, page, ext, pipes, agent, hist, Tracked, Ordered, Named, Asking, Replied,
           Accounted, Replies, Kind, Ends, InQueue, Waits, Known, Pending, OfPanel, Excused,
           TimedOut, Coming, Seen, Remounting, Ending, Live
  <2> QED BY <2>4, <2>5, <2>6, <2>7, <2>8 DEF LanNext
<1>3. Inv => LiveIsShown
  BY TrackedIsShown DEF Served
<1> QED BY <1>1, <1>2, <1>3, PTL DEF LanSpec

-----------------------------------------------------------------------------
(* TextEdit.                                                               *)

(* Null is no record, neither a document nor a task, and no type.          *)
NullIsApart == (\A f \in {"ins", "pc", "saw"} : f \notin DOMAIN Null) /\ Null # "text"

IsDoc(x) == x = [ins |-> x.ins, del |-> x.del]
UserTask == {"call", "pc", "ref", "state"}
InboundTask == {"pc", "ref", "state", "update", "at", "saw"}

(* What the proofs need of the types.                                      *)
Rows ==
    /\ row = [d \in Device |-> row[d]]
    /\ \A d \in Device :
         row[d] = [type |-> row[d].type, content |-> row[d].content, at |-> row[d].at]
           /\ row[d].at \in Nat
Tables ==
    /\ docs = [d \in Device |-> docs[d]] /\ disk = [d \in Device |-> disk[d]]
    /\ known = [d \in Device |-> known[d]]
Users ==
    /\ user = [d \in Device |-> user[d]]
    /\ \A d \in Device : user[d] # Null => UserTask \subseteq DOMAIN user[d]
Inbounds ==
    /\ inbound = [d \in Device |-> inbound[d]]
    /\ \A d \in Device : inbound[d] # Null =>
         InboundTask \subseteq DOMAIN inbound[d] /\ inbound[d].at \in Nat
Rewrites ==
    /\ retyping = [d \in Device |-> retyping[d]]
    /\ replacing = [d \in Device |-> replacing[d]]
    /\ \A d \in Device : retyping[d] # Null =>
         retyping[d].type \in {"text", "checklist"} /\ retyping[d].at \in Nat
    /\ \A d \in Device : replacing[d] # Null =>
         /\ replacing[d].update.op = "update" /\ replacing[d].update.at \in Nat
         /\ replacing[d].update.at >= replacing[d].saw.at
Counts == spent \in [save : Nat, event : Nat]

(* The steps of one device.                                                *)
Acts(d) ==
    \/ OpenEditor(d) \/ Save(d) \/ Toggle(d) \/ Reload(d)
    \/ \E type \in {"text", "checklist"} : Retype(d, type)
    \/ RetypeRow(d)
    \/ UserDoc(d) \/ UserBuild(d) \/ UserRow(d) \/ UserSend(d)
    \/ InboundDoc(d) \/ InboundBuild(d) \/ InboundRow(d) \/ InboundWrite(d)
    \/ UpdateRow(d)
    \/ \E e \in Others(d) : HandOff(d, e)
    \/ \E m \in {x \in updates : x.to = d} : TakeUpdate(d, m) \/ TakeYjs(d, m)

(* The messages of UPDATE_OBJECT carry a time.                             *)
Upd == {m \in updates : m.op = "update"}
Dated == \A m \in Upd : m.at \in Nat

Shaped == Rows /\ Tables /\ Users /\ Inbounds /\ Rewrites /\ Counts /\ Dated

(* Rows, tables and tasks have their fields at first ...                   *)
LEMMA ShapedInit == TextInit => Shaped
BY DEF TextInit, Shaped, Rows, Tables, Users, Inbounds, Rewrites, Counts, Dated,
   Upd, Created, Empty

(* ... the counters stay numbers ...                                       *)
LEMMA CountsStep == ASSUME Shaped, NEW d \in Device, Acts(d) PROVE Counts'
<1>. Counts BY DEF Shaped
<1>1. Use("save") \/ Use("event") \/ spent' = spent
  BY DEF Acts, OpenEditor, tasks, Save, Toggle, Reload, Retype, RetypeRow,
     Overtakes, UserDoc, UserBuild, UserRow, UserSend, InboundDoc, InboundBuild,
     InboundRow, InboundWrite, Handled, HandOff, TakeUpdate, UpdateRow, TakeYjs
<1>. QED BY <1>1 DEF Counts, Use

(* ... a row keeps its three fields ...                                    *)
LEMMA RowsStep == ASSUME Shaped, NEW d \in Device, Acts(d) PROVE Rows'
<1>. Rows /\ Inbounds /\ Rewrites /\ Counts /\ Dated BY DEF Shaped
<1>0. now(d) \in Nat /\ soon(d) \in Nat
  BY DEF now, soon, Counts
<1>1. CASE Toggle(d)
  <2>1. PICK c : row' \in {[row EXCEPT ![d].content = c, ![d].at = soon(d)]}
    BY <1>1 DEF Toggle, tasks
  <2>. QED BY <2>1, <1>0 DEF Rows
<1>2. CASE RetypeRow(d)
  <2>1. PICK t \in Nat : t = retyping[d].at
    BY <1>2 DEF RetypeRow, Rewrites
  <2>2. PICK n, c : row' = [row EXCEPT ![d] = [type |-> n, content |-> c, at |-> t]]
    BY <1>2, <2>1 DEF RetypeRow
  <2>. QED BY <2>2 DEF Rows
<1>3. CASE UserRow(d)
  <2>1. PICK c : row' \in {[row EXCEPT ![d].at = now(d), ![d].content = c]}
    BY <1>3 DEF UserRow
  <2>. QED BY <2>1, <1>0 DEF Rows
<1>4. CASE InboundWrite(d)
  <2>1. PICK t \in Nat : t = inbound[d].at
    BY <1>4 DEF InboundWrite, Inbounds
  <2>2. PICK c : row' = row \/ row' = [row EXCEPT ![d].content = c, ![d].at = t]
    BY <1>4, <2>1 DEF InboundWrite
  <2>. QED BY <2>2 DEF Rows
<1>5. CASE UpdateRow(d)
  <2>1. PICK t \in Nat : t = replacing[d].update.at
    BY <1>5 DEF UpdateRow, Rewrites
  <2>2. PICK n, c : row' = [row EXCEPT ![d] = [type |-> n, content |-> c, at |-> t]]
    BY <1>5, <2>1 DEF UpdateRow
  <2>. QED BY <2>2 DEF Rows
<1>6. CASE row' = row
  BY <1>6 DEF Rows
<1>. QED
  BY <1>1, <1>2, <1>3, <1>4, <1>5, <1>6 DEF Acts, OpenEditor, tasks, Save, Reload,
     Retype, UserDoc, UserBuild, UserSend, InboundDoc, InboundBuild, InboundRow,
     HandOff, TakeUpdate, TakeYjs, store

(* ... a table stays a function of the device ...                          *)
LEMMA TablesStep == ASSUME Shaped, NEW d \in Device, Acts(d) PROVE Tables'
<1>. Tables BY DEF Shaped
<1>1. CASE Reload(d)
  BY <1>1 DEF Reload, Tables
<1>2. CASE UserDoc(d)
  BY <1>2 DEF UserDoc, WithDoc, Tables, ghosts
<1>3. CASE UserBuild(d)
  BY <1>3 DEF UserBuild, WithDoc, Tables
<1>4. CASE UserSend(d)
  BY <1>4 DEF UserSend, store, Tables
<1>5. CASE InboundDoc(d)
  BY <1>5 DEF InboundDoc, Applied, Tables, ghosts
<1>6. CASE InboundBuild(d)
  BY <1>6 DEF InboundBuild, Applied, Tables
<1>7. CASE InboundRow(d) \/ InboundWrite(d)
  BY <1>7 DEF InboundRow, InboundWrite, Handled, Tables, store
<1>8. CASE docs' = docs /\ disk' = disk /\ known' = known
  BY <1>8 DEF Tables
<1>. QED
  BY <1>1, <1>2, <1>3, <1>4, <1>5, <1>6, <1>7, <1>8 DEF Acts, OpenEditor, tasks,
     Save, Retype, RetypeRow, Overtakes, Toggle, UserRow, HandOff, TakeYjs,
     TakeUpdate, UpdateRow, store, ghosts

(* ... a call of the user keeps its fields ...                             *)
LEMMA UsersStep == ASSUME Shaped, NEW d \in Device, Acts(d) PROVE Users'
<1>. Users BY DEF Shaped
<1>1. CASE Reload(d)
  BY <1>1 DEF Reload, Users
<1>2. CASE Save(d)
  <2>1. PICK t, r, z :
          user' = [user EXCEPT ![d] = [call |-> "edit", pc |-> "doc", text |-> t, ref |-> 0,
                     state |-> Empty, removed |-> r, seed |-> z]]
    <3>1. PICK t : user' = [user EXCEPT ![d] =
              [call |-> "edit", pc |-> "doc", text |-> t, ref |-> 0,
               state |-> Empty, removed |-> draft[d] \ t,
               seed |-> IF docs[d] = <<>> /\ disk[d] = Null
                        THEN row[d].content.text ELSE {}]]
      BY <1>2 DEF Save
    <3>. QED BY <3>1, Zenon
  <2> PICK u : u = [call |-> "edit", pc |-> "doc", text |-> t, ref |-> 0,
                     state |-> Empty, removed |-> r, seed |-> z]
    OBVIOUS
  <2>2. user' = [user EXCEPT ![d] = u]
    BY <2>1
  <2>3. UserTask \subseteq DOMAIN u
    BY DEF UserTask
  <2>4. \A e \in Device : user'[e] = IF e = d THEN u ELSE user[e]
    BY <2>2 DEF Users
  <2>. QED BY <2>2, <2>3, <2>4 DEF Users
<1>3. CASE UserDoc(d)
  BY <1>3 DEF UserDoc, WithDoc, Reads, Users
<1>4. CASE UserBuild(d)
  BY <1>4 DEF UserBuild, WithDoc, Users
<1>5. CASE UserRow(d)
  BY <1>5 DEF UserRow, Users
<1>6. CASE UserSend(d)
  BY <1>6 DEF UserSend, Users
<1>7. CASE \E e \in Others(d) : HandOff(d, e)
  BY <1>7 DEF HandOff, Users, UserTask
<1>8. CASE user' = user
  BY <1>8 DEF Users
<1>. QED
  BY <1>1, <1>2, <1>3, <1>4, <1>5, <1>6, <1>7, <1>8 DEF Acts, OpenEditor, tasks,
     Retype, RetypeRow, Overtakes, Toggle, InboundDoc, InboundBuild, InboundRow,
     InboundWrite, Handled, TakeYjs, TakeUpdate, UpdateRow

(* ... and so does the update being handled ...                            *)
LEMMA InboundsStep == ASSUME Shaped, NEW d \in Device, Acts(d) PROVE Inbounds'
<1>. Inbounds /\ Counts BY DEF Shaped
<1>1. CASE Reload(d)
  BY <1>1 DEF Reload, Inbounds
<1>2. CASE \E m \in updates : TakeYjs(d, m)
  <2>1. now(d) \in Nat
    BY DEF now, Counts
  <2> PICK t \in Nat : t = now(d)
    BY <2>1
  <2>2. PICK s : inbound' = [inbound EXCEPT ![d] =
          [pc |-> "doc", update |-> s, state |-> Empty, ref |-> 0, at |-> t, saw |-> {}]]
    BY <1>2 DEF TakeYjs
  <2> PICK u : u = [pc |-> "doc", update |-> s, state |-> Empty, ref |-> 0, at |-> t,
                    saw |-> {}]
    OBVIOUS
  <2>3. InboundTask \subseteq DOMAIN u /\ u.at \in Nat
    BY DEF InboundTask
  <2>. QED BY <2>2, <2>3 DEF Inbounds
<1>3. ASSUME NEW u, DOMAIN u = DOMAIN inbound[d], u.at = inbound[d].at, inbound[d] # Null,
             inbound' = [inbound EXCEPT ![d] = u]
      PROVE  Inbounds'
  BY <1>3 DEF Inbounds
<1>4. CASE InboundDoc(d) \/ InboundBuild(d)
  <2>0. inbound[d] # Null
    BY <1>4 DEF InboundDoc, InboundBuild
  <2>1. \/ inbound' = [inbound EXCEPT ![d] = Reads(inbound[d], d)]
        \/ \E r : inbound' \in {[inbound EXCEPT ![d].pc = "row", ![d].ref = r]}
    BY <1>4 DEF InboundDoc, InboundBuild, Applied, Inbounds
  <2>2. CASE inbound' = [inbound EXCEPT ![d] = Reads(inbound[d], d)]
    <3>1. DOMAIN Reads(inbound[d], d) = DOMAIN inbound[d] /\ Reads(inbound[d], d).at = inbound[d].at
      BY <2>0 DEF Reads, Inbounds, InboundTask
    <3>. QED BY <2>0, <2>2, <3>1, <1>3
  <2>3. ASSUME NEW r, inbound' \in {[inbound EXCEPT ![d].pc = "row", ![d].ref = r]}
        PROVE  Inbounds'
    <3> PICK u : u = [inbound[d] EXCEPT !.pc = "row", !.ref = r]
      OBVIOUS
    <3>1. inbound' = [inbound EXCEPT ![d] = u]
      BY <2>3 DEF Inbounds
    <3>2. DOMAIN u = DOMAIN inbound[d] /\ u.at = inbound[d].at
      BY <2>0 DEF Inbounds, InboundTask
    <3>. QED BY <2>0, <3>1, <3>2, <1>3
  <2>. QED BY <2>1, <2>2, <2>3
<1>5. CASE InboundRow(d) \/ InboundWrite(d)
  <2>1. CASE Handled(d)
    BY <2>1 DEF Handled, Inbounds
  <2>2. CASE InboundRow(d) /\ ~Handled(d)
    <3> PICK u : u = [inbound[d] EXCEPT !.pc = "write", !.saw = row[d].content.text]
      OBVIOUS
    <3>1. inbound' = [inbound EXCEPT ![d] = u] /\ inbound[d] # Null
      BY <2>2 DEF InboundRow, Inbounds
    <3>2. DOMAIN u = DOMAIN inbound[d] /\ u.at = inbound[d].at
      BY <3>1 DEF Inbounds, InboundTask
    <3>. QED BY <3>1, <3>2, <1>3
  <2>. QED BY <1>5, <2>1, <2>2 DEF InboundWrite
<1>6. CASE inbound' = inbound
  BY <1>6 DEF Inbounds
<1>. QED
  BY <1>1, <1>2, <1>3, <1>4, <1>5, <1>6 DEF Acts, OpenEditor, tasks, Retype,
     RetypeRow, Overtakes, Save, Toggle, UserDoc, UserBuild, UserRow, UserSend,
     HandOff, TakeUpdate, UpdateRow

(* ... and the row to be replaced, which is older than the update ...      *)
LEMMA RewritesStep == ASSUME Shaped, NEW d \in Device, Acts(d) PROVE Rewrites'
<1>. Rows /\ Rewrites /\ Dated /\ Counts BY DEF Shaped
<1>1. CASE \E type \in {"text", "checklist"} : Retype(d, type)
  <2>1. PICK type \in {"text", "checklist"} : Retype(d, type)
    BY <1>1
  <2>2. soon(d) \in Nat
    BY DEF soon, now, Counts
  <2> PICK r : r = [type |-> type, saw |-> row[d], at |-> soon(d)]
    OBVIOUS
  <2>3. retyping' = [retyping EXCEPT ![d] = r] /\ replacing' = replacing
    BY <2>1 DEF Retype
  <2>4. r.type \in {"text", "checklist"} /\ r.at \in Nat
    BY <2>2
  <2>. QED BY <2>3, <2>4 DEF Rewrites
<1>2. CASE RetypeRow(d) \/ UpdateRow(d) \/ Reload(d)
  BY <1>2 DEF RetypeRow, UpdateRow, Reload, Rewrites
<1>3. CASE \E m \in updates : TakeUpdate(d, m)
  <2>1. PICK m \in Upd : TakeUpdate(d, m)
    BY <1>3 DEF TakeUpdate, Upd
  <2>2. CASE Wins(m, d)
    <3> PICK r : r = [update |-> m, saw |-> row[d]]
      OBVIOUS
    <3>1. replacing' = [replacing EXCEPT ![d] = r] /\ retyping' = retyping
      BY <2>1, <2>2 DEF TakeUpdate
    <3>2. r.update.op = "update" /\ r.update.at \in Nat /\ r.update.at >= r.saw.at
      BY <2>1, <2>2 DEF Upd, Dated, Wins
    <3>. QED BY <3>1, <3>2 DEF Rewrites
  <2>. QED BY <2>1, <2>2 DEF TakeUpdate, Rewrites
<1>4. CASE retyping' = retyping /\ replacing' = replacing
  BY <1>4 DEF Rewrites
<1>. QED
  BY <1>1, <1>2, <1>3, <1>4 DEF Acts, OpenEditor, tasks, Save, Toggle, UserDoc,
     UserBuild, UserRow, UserSend, InboundDoc, InboundBuild, InboundRow,
     InboundWrite, HandOff, TakeYjs

(* ... and an UPDATE_OBJECT its time.                                      *)
LEMMA DatedStep == ASSUME Shaped, NEW d \in Device, Acts(d) PROVE Dated'
<1>. Dated /\ Counts /\ Rewrites BY DEF Shaped
<1>1. CASE Toggle(d)
  BY <1>1 DEF Toggle, tasks, Update, soon, now, Dated, Upd, Counts
<1>2. CASE RetypeRow(d)
  BY <1>2 DEF RetypeRow, Update, Dated, Upd, Rewrites
<1>3. CASE UserSend(d)
  BY <1>3 DEF UserSend, Dated, Upd
<1>4. CASE updates' \subseteq updates
  BY <1>4 DEF Dated, Upd
<1>. QED
  BY <1>1, <1>2, <1>3, <1>4 DEF Acts, OpenEditor, tasks, Save, Reload, Retype, UserDoc,
     UserBuild, UserRow, InboundDoc, InboundBuild, InboundRow, InboundWrite,
     Handled, HandOff, TakeUpdate, UpdateRow, TakeYjs

(* All of it is kept by a step.                                            *)
LEMMA ShapedStep == ASSUME Shaped, NEW d \in Device, Acts(d) PROVE Shaped'
BY RowsStep, TablesStep, UsersStep, InboundsStep, RewritesStep, CountsStep, DatedStep
   DEF Shaped

(* A step of one device leaves the others' alone, and marks stay.          *)
LEMMA Elsewhere ==
    ASSUME Shaped, NEW d \in Device, Acts(d), NEW e \in Device, e # d
    PROVE  /\ row'[e] = row[e] /\ docs'[e] = docs[e] /\ disk'[e] = disk[e]
           /\ user'[e] = user[e] /\ inbound'[e] = inbound[e] /\ known'[e] = known[e]
           /\ replacing'[e] = replacing[e]
<1>. Rows /\ Tables /\ Users /\ Inbounds /\ Rewrites BY DEF Shaped
<1>1. row'[e] = row[e]
  <2>1. \/ row' = row
        \/ \E r : row' = [row EXCEPT ![d] = r]
        \/ \E c, t : row' \in {[row EXCEPT ![d].content = c, ![d].at = t],
                               [row EXCEPT ![d].at = t, ![d].content = c]}
    BY Zenon DEF Acts, OpenEditor, tasks, Save, Toggle, Reload, Retype, RetypeRow,
       Overtakes, UserDoc, UserBuild, UserRow, UserSend, InboundDoc, InboundBuild,
       InboundRow, InboundWrite, Handled, HandOff, TakeUpdate, UpdateRow, TakeYjs,
       store
  <2>. QED BY <2>1 DEF Rows
<1>2. docs'[e] = docs[e]
  <2>1. docs' = docs \/ \E r : docs' = [docs EXCEPT ![d] = r]
    BY Zenon DEF Acts, OpenEditor, tasks, Save, Toggle, Reload, Retype, RetypeRow,
       Overtakes, UserDoc, UserBuild, UserRow, UserSend, InboundDoc, InboundBuild,
       InboundRow, InboundWrite, Handled, HandOff, TakeUpdate, UpdateRow, TakeYjs,
       store, WithDoc, Applied
  <2>. QED BY <2>1 DEF Tables
<1>3. disk'[e] = disk[e]
  <2>1. disk' = disk \/ \E r : disk' = [disk EXCEPT ![d] = r]
    BY Zenon DEF Acts, OpenEditor, tasks, Save, Toggle, Reload, Retype, RetypeRow,
       Overtakes, UserDoc, UserBuild, UserRow, UserSend, InboundDoc, InboundBuild,
       InboundRow, InboundWrite, Handled, HandOff, TakeUpdate, UpdateRow, TakeYjs,
       store, WithDoc, Applied
  <2>. QED BY <2>1 DEF Tables
<1>4. user'[e] = user[e]
  <2>1. \/ user' = user
        \/ \E r : user' = [user EXCEPT ![d] = r]
        \/ \E c, t : user' = [user EXCEPT ![d].ref = c, ![d].pc = t]
        \/ \E t : user' = [user EXCEPT ![d].pc = t]
    BY ZenonT(40) DEF Acts, OpenEditor, tasks, Save, Toggle, Reload, Retype,
       RetypeRow, Overtakes, UserDoc, UserBuild, UserRow, UserSend, InboundDoc,
       InboundBuild, InboundRow, InboundWrite, Handled, HandOff, TakeUpdate,
       UpdateRow, TakeYjs, store, WithDoc, Applied
  <2>. QED BY <2>1 DEF Users
<1>5. inbound'[e] = inbound[e]
  <2>1. \/ inbound' = inbound
        \/ \E r : inbound' = [inbound EXCEPT ![d] = r]
        \/ \E c, t : inbound' \in {[inbound EXCEPT ![d].pc = t, ![d].ref = c],
                                   [inbound EXCEPT ![d].pc = t, ![d].saw = c]}
    BY Zenon DEF Acts, OpenEditor, tasks, Save, Toggle, Reload, Retype, RetypeRow,
       Overtakes, UserDoc, UserBuild, UserRow, UserSend, InboundDoc, InboundBuild,
       InboundRow, InboundWrite, Handled, HandOff, TakeUpdate, UpdateRow, TakeYjs,
       store, WithDoc, Applied
  <2>. QED BY <2>1 DEF Inbounds
<1>6. known'[e] = known[e]
  <2>1. known' = known \/ \E r : known' = [known EXCEPT ![d] = r]
    BY Zenon DEF Acts, OpenEditor, tasks, Save, Toggle, Reload, Retype, RetypeRow,
       Overtakes, UserDoc, UserBuild, UserRow, UserSend, InboundDoc, InboundBuild,
       InboundRow, InboundWrite, Handled, HandOff, TakeUpdate, UpdateRow, TakeYjs,
       store, ghosts
  <2>. QED BY <2>1 DEF Tables
<1>7. replacing'[e] = replacing[e]
  <2>1. replacing' = replacing \/ \E r : replacing' = [replacing EXCEPT ![d] = r]
    BY Zenon DEF Acts, OpenEditor, tasks, Save, Toggle, Reload, Retype, RetypeRow,
       UserDoc, UserBuild, UserRow, UserSend, InboundDoc, InboundBuild,
       InboundRow, InboundWrite, HandOff, TakeUpdate, UpdateRow, TakeYjs
  <2>. QED BY <2>1 DEF Rewrites
<1>. QED BY <1>1, <1>2, <1>3, <1>4, <1>5, <1>6, <1>7

(* What happened once has happened.                                        *)
LEMMA MarksStay ==
    ASSUME NEW d \in Device, Acts(d)
    PROVE  /\ forked \subseteq forked' /\ reset \subseteq reset'
           /\ overruled \subseteq overruled' /\ clobbered \subseteq clobbered'
           /\ overtaken \subseteq overtaken'
BY DEF Acts, OpenEditor, tasks, Save, Toggle, Reload, Retype, RetypeRow, Overtakes,
   UserDoc, UserBuild, UserRow, UserSend, InboundDoc, InboundBuild, InboundRow,
   InboundWrite, Handled, HandOff, TakeUpdate, UpdateRow, TakeYjs, ghosts, Forks

-----------------------------------------------------------------------------
(* While only one document is built, it is what the database holds; the    *)
(* tasks work on it, and what has been announced is in it.                 *)
Steady(t, d) ==
    /\ (t.pc = "build" /\ docs[d] = <<>>) => t.state = Loaded(disk[d])
    /\ t.pc \in {"row", "write", "send"} => (t.ref = 1 /\ docs[d] # <<>>)

Kept(d) ==
    /\ disk[d] # Null => IsDoc(disk[d])
    /\ docs[d] = <<>> \/ docs[d] = <<Loaded(disk[d])>>
    /\ user[d] # Null => Steady(user[d], d)
    /\ inbound[d] # Null => Steady(inbound[d], d)

Written(d) ==
    /\ user[d] # Null => ((user[d].call = "edit" /\ user[d].pc \in {"row", "send"}) => disk[d] # Null)
    /\ inbound[d] # Null =>
         (inbound[d].pc \in {"row", "write"} =>
            (disk[d] # Null /\ Within(inbound[d].update, disk[d])))
    /\ Within(known[d], Loaded(disk[d]))

(* What a call of the user does when it gets its document: it waits for    *)
(* the database, or changes the document, or passes it on.                 *)
UserWaits(d) ==
    /\ docs[d] = <<>> /\ docs' = docs /\ disk' = disk
    /\ user' = [user EXCEPT ![d] = Reads(@, d)]
UserEdits(d) ==
    \E x : /\ user[d].call = "edit" /\ IsDoc(x) /\ Within(Loaded(disk[d]), x)
           /\ docs' = [docs EXCEPT ![d] = <<x>>] /\ disk' = [disk EXCEPT ![d] = x]
           /\ user' = [user EXCEPT ![d].ref = 1, ![d].pc = "row"]
UserPasses(d) ==
    /\ user[d].call # "edit" /\ disk' = disk
    /\ docs' = [docs EXCEPT ![d] = <<Loaded(disk[d])>>]
    /\ user' = [user EXCEPT ![d].ref = 1, ![d].pc = "send"]

(* Likewise for the handler of an update. *)
InboundWaits(d) ==
    /\ docs[d] = <<>> /\ docs' = docs /\ disk' = disk
    /\ inbound' = [inbound EXCEPT ![d] = Reads(@, d)]
InboundMerges(d) ==
    LET x == Merge(Loaded(disk[d]), inbound[d].update)
    IN  /\ docs' = [docs EXCEPT ![d] = <<x>>] /\ disk' = [disk EXCEPT ![d] = x]
        /\ inbound' = [inbound EXCEPT ![d].pc = "row", ![d].ref = 1]

(* What the sequence of one document is.                                   *)
LEMMA OneCell ==
    ASSUME NEW a, NEW b
    PROVE  /\ [<<a>> EXCEPT ![1] = b] = <<b>> /\ Len(<<a>>) = 1 /\ <<a>>[1] = a
           /\ Append(<<>>, a) = <<a>> /\ Len(<<>>) = 0 /\ <<a>> # <<>>
OBVIOUS

(* An edit adds insertions and deletions and takes none away.              *)
LEMMA EditsGrow ==
    ASSUME NEW x, IsDoc(x), NEW d, NEW y \in Edits(x, d)
    PROVE  IsDoc(y) /\ Within(x, y)
<1>1. \A z, t, i : IsDoc(z) => (IsDoc(Insert(z, t, i)) /\ Within(z, Insert(z, t, i)))
  BY DEF IsDoc, Insert, Within
<1>2. \A z, t, m, i : IsDoc(z) =>
        (IsDoc(Splice(z, t, m, i)) /\ Within(z, Splice(z, t, m, i)))
  <2>. SUFFICES ASSUME NEW z, NEW t, NEW m, NEW i, IsDoc(z)
               PROVE  IsDoc(Splice(z, t, m, i)) /\ Within(z, Splice(z, t, m, i))
    OBVIOUS
  <2>. DEFINE out == {c \in z.ins \ z.del : c.letter \notin t \/ c.letter \in m}
              w == [z EXCEPT !.del = @ \union out]
  <2>1. Splice(z, t, m, i) = Insert(w, (t \ LettersOf(z)) \union m, i)
    BY DEF Splice
  <2>. HIDE DEF out
  <2>2. PICK a, b : z = [ins |-> a, del |-> b]
    BY DEF IsDoc
  <2>3. w = [ins |-> a, del |-> b \union out]
    BY <2>2
  <2>. HIDE DEF w
  <2>4. IsDoc(w) /\ Within(z, w)
    BY <2>2, <2>3 DEF IsDoc, Within
  <2>5. IsDoc(Insert(w, (t \ LettersOf(z)) \union m, i))
          /\ Within(w, Insert(w, (t \ LettersOf(z)) \union m, i))
    BY <2>4, <1>1
  <2>. QED BY <2>1, <2>4, <2>5 DEF Within
<1>. QED BY <1>1, <1>2 DEF Edits, Within

(* The steps do what was said, where one document is kept.                 *)
LEMMA UserSteps ==
    ASSUME Shaped, NEW d \in Device \ forked', Kept(d), UserDoc(d) \/ UserBuild(d)
    PROVE  UserWaits(d) \/ UserEdits(d) \/ UserPasses(d)
<1>1. CASE UserDoc(d) /\ docs[d] = <<>>
  BY <1>1 DEF UserDoc, UserWaits
<1>2. ASSUME WithDoc(d, 1, <<Loaded(disk[d])>>)
      PROVE  UserEdits(d) \/ UserPasses(d)
  <2> PICK x : x = Loaded(disk[d])
    OBVIOUS
  <2>1. IsDoc(x)
    BY DEF Kept, Loaded, IsDoc, Empty
  <2>2. CASE user[d].call = "edit"
    <3>1. PICK y \in Edits(<<x>>[1], d) :
              /\ docs' = [docs EXCEPT ![d] = [<<x>> EXCEPT ![1] = y]]
              /\ disk' = [disk EXCEPT ![d] = y]
              /\ user' = [user EXCEPT ![d].ref = 1, ![d].pc = "row"]
      BY <1>2, <2>2 DEF WithDoc
    <3>2. <<x>>[1] = x /\ [<<x>> EXCEPT ![1] = y] = <<y>>
      BY OneCell
    <3>3. IsDoc(y) /\ Within(x, y)
      BY <2>1, <3>1, <3>2, EditsGrow
    <3>. QED BY <2>2, <3>1, <3>2, <3>3 DEF UserEdits
  <2>3. CASE user[d].call # "edit"
    BY <1>2, <2>3 DEF WithDoc, UserPasses
  <2>. QED BY <2>2, <2>3
<1>3. CASE UserDoc(d) /\ docs[d] # <<>>
  <2>1. docs[d] = <<Loaded(disk[d])>>
    BY <1>3 DEF Kept
  <2>2. WithDoc(d, Len(docs[d]), docs[d])
    BY <1>3 DEF UserDoc
  <2>. QED BY <2>1, <2>2, <1>2, OneCell
<1>4. CASE UserBuild(d)
  <2>1. docs[d] = <<>>
    BY <1>4 DEF UserBuild, Forks
  <2>2. user[d].state = Loaded(disk[d])
    BY <1>4, <2>1 DEF UserBuild, Kept, Steady
  <2>3. WithDoc(d, Len(docs[d]) + 1, Append(docs[d], user[d].state))
    BY <1>4 DEF UserBuild
  <2>4. Len(docs[d]) + 1 = 1 /\ Append(docs[d], user[d].state) = <<Loaded(disk[d])>>
    BY <2>1, <2>2, OneCell
  <2>. QED BY <2>3, <2>4, <1>2
<1>. QED BY <1>1, <1>3, <1>4

(* The same for the handler of an update.                                  *)
LEMMA InboundSteps ==
    ASSUME Shaped, NEW d \in Device \ forked', Kept(d), InboundDoc(d) \/ InboundBuild(d)
    PROVE  InboundWaits(d) \/ InboundMerges(d)
<1>1. CASE InboundDoc(d) /\ docs[d] = <<>>
  BY <1>1 DEF InboundDoc, InboundWaits
<1>2. ASSUME Applied(d, 1, <<Loaded(disk[d])>>)
      PROVE  InboundMerges(d)
  <2> PICK x : x = Loaded(disk[d])
    OBVIOUS
  <2> PICK y : y = Merge(x, inbound[d].update)
    OBVIOUS
  <2>1. <<x>>[1] = x /\ [<<x>> EXCEPT ![1] = y] = <<y>>
    BY OneCell
  <2>2. /\ docs' = [docs EXCEPT ![d] = [<<x>> EXCEPT ![1] = Merge(<<x>>[1], inbound[d].update)]]
        /\ disk' = [disk EXCEPT ![d] = Merge(<<x>>[1], inbound[d].update)]
        /\ inbound' = [inbound EXCEPT ![d].pc = "row", ![d].ref = 1]
    BY <1>2 DEF Applied, Saved
  <2>. QED BY <2>1, <2>2 DEF InboundMerges
<1>3. CASE InboundDoc(d) /\ docs[d] # <<>>
  <2>1. docs[d] = <<Loaded(disk[d])>>
    BY <1>3 DEF Kept
  <2>2. Applied(d, Len(docs[d]), docs[d])
    BY <1>3 DEF InboundDoc
  <2>. QED BY <2>1, <2>2, <1>2, OneCell
<1>4. CASE InboundBuild(d)
  <2>1. docs[d] = <<>>
    BY <1>4 DEF InboundBuild, Forks
  <2>2. inbound[d].state = Loaded(disk[d])
    BY <1>4, <2>1 DEF InboundBuild, Kept, Steady
  <2>3. Applied(d, Len(docs[d]) + 1, Append(docs[d], inbound[d].state))
    BY <1>4 DEF InboundBuild
  <2>4. Len(docs[d]) + 1 = 1 /\ Append(docs[d], inbound[d].state) = <<Loaded(disk[d])>>
    BY <2>1, <2>2, OneCell
  <2>. QED BY <2>3, <2>4, <1>2
<1>. QED BY <1>1, <1>3, <1>4

(* Other devices' documents are left alone.                                *)
LEMMA KeptElsewhere ==
    ASSUME Shaped, NEW p \in Device, Acts(p), NEW d \in Device, d # p
    PROVE  (Kept(d) => Kept(d)') /\ (Written(d) => Written(d)')
BY Elsewhere DEF Kept, Written, Steady

(* A task that begins, goes on to send or ends without touching a document.*)
Undisturbed(d) ==
    /\ docs'[d] = docs[d] \/ docs'[d] = <<>>
    /\ disk'[d] = disk[d]
    /\ \/ user'[d] = user[d] /\ docs'[d] = docs[d]
       \/ user'[d] = Null
       \/ user'[d].pc = "doc"
       \/ /\ user[d] # Null /\ user[d].pc = "row" /\ user'[d].pc = "send"
          /\ user'[d].ref = user[d].ref /\ docs'[d] = docs[d]
    /\ \/ inbound'[d] = inbound[d] /\ docs'[d] = docs[d]
       \/ inbound'[d] = Null
       \/ inbound'[d].pc = "doc"
       \/ /\ inbound[d] # Null /\ inbound[d].pc = "row" /\ inbound'[d].pc = "write"
          /\ inbound'[d].ref = inbound[d].ref /\ inbound'[d].update = inbound[d].update
          /\ docs'[d] = docs[d]

(* Only getting its document makes a task touch one.                       *)
LEMMA QuietSteps ==
    ASSUME Shaped, NEW d \in Device, Acts(d)
    PROVE  \/ Undisturbed(d)
           \/ (UserDoc(d) \/ UserBuild(d)) /\ user[d] # Null /\ inbound' = inbound
                /\ known' = known
           \/ (InboundDoc(d) \/ InboundBuild(d)) /\ inbound[d] # Null /\ user' = user
                /\ known' = known
<1>. Tables /\ Users /\ Inbounds BY DEF Shaped
<1>1. CASE OpenEditor(d) \/ Toggle(d) \/ RetypeRow(d) \/ UpdateRow(d)
             \/ \E type \in {"text", "checklist"} : Retype(d, type)
  BY <1>1 DEF OpenEditor, tasks, Toggle, Retype, RetypeRow, UpdateRow, store,
     ghosts, Undisturbed
<1>2. CASE Save(d)
  <2>1. user'[d].pc = "doc"
    BY <1>2 DEF Save, Users
  <2>. QED BY <1>2, <2>1 DEF Save, store, ghosts, Undisturbed
<1>3. CASE Reload(d)
  BY <1>3 DEF Reload, Undisturbed, Tables, Users, Inbounds
<1>4. CASE UserRow(d)
  BY <1>4 DEF UserRow, Undisturbed, Users, UserTask
<1>5. CASE UserSend(d)
  BY <1>5 DEF UserSend, Undisturbed, Users, store
<1>6. CASE InboundRow(d) \/ InboundWrite(d)
  BY <1>6 DEF InboundRow, InboundWrite, Handled, Undisturbed, Inbounds, InboundTask, store
<1>7. CASE \E e \in Others(d) : HandOff(d, e)
  BY <1>7 DEF HandOff, Undisturbed, Users, store, ghosts
<1>8. CASE \E m \in updates : TakeUpdate(d, m)
  BY <1>8 DEF TakeUpdate, Undisturbed, store
<1>9. CASE \E m \in updates : TakeYjs(d, m)
  BY <1>9 DEF TakeYjs, Undisturbed, Inbounds, store, ghosts
<1>10. CASE UserDoc(d) \/ UserBuild(d)
  BY <1>10 DEF UserDoc, UserBuild, ghosts
<1>11. CASE InboundDoc(d) \/ InboundBuild(d)
  BY <1>11 DEF InboundDoc, InboundBuild, ghosts
<1>. QED
  BY <1>1, <1>2, <1>3, <1>4, <1>5, <1>6, <1>7, <1>8, <1>9, <1>10, <1>11 DEF Acts

(* The one document and the tasks stay in step ...                         *)
LEMMA KeptStep ==
    ASSUME NullIsApart, Shaped, NEW d \in Device \ forked', Kept(d), Acts(d)
    PROVE  Kept(d)'
<1>. Tables /\ Users /\ Inbounds BY DEF Shaped
<1>. DEFINE L == Loaded(disk[d])
<1>0. IsDoc(L)
  BY DEF Kept, Loaded, IsDoc, Empty
<1>1. CASE Undisturbed(d)
  BY <1>1 DEF Undisturbed, Kept, Steady
<1>2. CASE (UserDoc(d) \/ UserBuild(d)) /\ user[d] # Null /\ inbound' = inbound
  <2>1. CASE UserWaits(d)
    BY <1>2, <2>1 DEF UserWaits, Reads, Kept, Steady, Users, UserTask
  <2>2. CASE UserEdits(d)
    <3>1. PICK x : /\ user[d].call = "edit" /\ IsDoc(x) /\ Within(Loaded(disk[d]), x)
                   /\ docs' = [docs EXCEPT ![d] = <<x>>] /\ disk' = [disk EXCEPT ![d] = x]
                   /\ user' = [user EXCEPT ![d].ref = 1, ![d].pc = "row"]
      BY <2>2 DEF UserEdits
    <3>2. docs'[d] = <<x>> /\ disk'[d] = x /\ user'[d].pc = "row" /\ user'[d].ref = 1
      BY <1>2, <3>1 DEF Tables, Users, UserTask
    <3>3. x # Null /\ Loaded(x) = x
      BY <3>1 DEF IsDoc, NullIsApart, Loaded
    <3>4. (inbound[d] # Null /\ inbound[d].pc \in {"row", "write", "send"}) => inbound[d].ref = 1
      BY DEF Kept, Steady
    <3>. QED BY <1>2, <3>1, <3>2, <3>3, <3>4, OneCell DEF Kept, Steady
  <2>3. CASE UserPasses(d)
    <3>1. docs'[d] = <<L>> /\ disk'[d] = disk[d] /\ user'[d].pc = "send" /\ user'[d].ref = 1
      BY <1>2, <2>3 DEF UserPasses, Tables, Users, UserTask
    <3>. QED BY <1>2, <3>1, OneCell DEF Kept, Steady
  <2>. QED BY <1>2, <2>1, <2>2, <2>3, UserSteps
<1>3. CASE (InboundDoc(d) \/ InboundBuild(d)) /\ inbound[d] # Null /\ user' = user
  <2>1. CASE InboundWaits(d)
    BY <1>3, <2>1 DEF InboundWaits, Reads, Kept, Steady, Inbounds, InboundTask
  <2>2. CASE InboundMerges(d)
    <3> PICK x : x = Merge(L, inbound[d].update)
      OBVIOUS
    <3>1. docs'[d] = <<x>> /\ disk'[d] = x /\ inbound'[d].pc = "row" /\ inbound'[d].ref = 1
      BY <1>3, <2>2 DEF InboundMerges, Tables, Inbounds, InboundTask
    <3>2. IsDoc(x)
      BY DEF Merge, IsDoc
    <3>3. x # Null /\ Loaded(x) = x
      BY <3>2 DEF IsDoc, NullIsApart, Loaded
    <3>4. (user[d] # Null /\ user[d].pc \in {"row", "write", "send"}) => user[d].ref = 1
      BY DEF Kept, Steady
    <3>. QED BY <1>3, <3>1, <3>2, <3>3, <3>4, OneCell DEF Kept, Steady
  <2>. QED BY <1>3, <2>1, <2>2, InboundSteps
<1>. QED BY <1>1, <1>2, <1>3, QuietSteps

(* ... and what was announced or taken in is written.                      *)
LEMMA WrittenStep ==
    ASSUME NullIsApart, Shaped, NEW d \in Device \ forked', Kept(d), Written(d), Acts(d)
    PROVE  Written(d)'
<1>. Tables /\ Users /\ Inbounds BY DEF Shaped
<1>. DEFINE L == Loaded(disk[d])
<1>1. CASE Undisturbed(d) /\ ~UserRow(d) /\ ~UserSend(d) /\ ~InboundRow(d) /\ ~InboundWrite(d)
  <2>1. known' = known
    BY <1>1 DEF Acts, OpenEditor, tasks, Save, Toggle, Reload, Retype, RetypeRow,
       Overtakes, UserDoc, UserBuild, InboundDoc, InboundBuild, HandOff, TakeUpdate,
       UpdateRow, TakeYjs, ghosts
  <2>2. \/ user'[d] = user[d] \/ user'[d] = Null \/ user'[d].pc = "doc"
        \/ (user[d] # Null /\ user[d].pc = "row" /\ user'[d].pc = "send" /\ user'[d].call = user[d].call)
    BY <1>1 DEF Acts, OpenEditor, tasks, Save, Toggle, Reload, Retype, RetypeRow,
       Overtakes, UserDoc, UserBuild, WithDoc, Reads, InboundDoc, InboundBuild,
       InboundRow, InboundWrite, Handled, HandOff, TakeUpdate, UpdateRow, TakeYjs,
       store, ghosts, Users, UserTask, Undisturbed
  <2>. QED BY <1>1, <2>1, <2>2 DEF Undisturbed, Written
<1>2. CASE UserRow(d)
  <2>1. /\ user[d] # Null /\ user[d].pc = "row" /\ user'[d].call = user[d].call /\ inbound' = inbound
        /\ disk' = disk /\ known' = known
    BY <1>2 DEF UserRow, Users, UserTask
  <2>. QED BY <2>1 DEF Written
<1>3. CASE UserSend(d)
  <2>1. user[d].ref = 1 /\ docs[d] = <<L>>
    BY <1>3 DEF UserSend, Kept, Steady
  <2>2. docs[d][user[d].ref] = L
    BY <2>1, OneCell
  <2>3. user'[d] = Null /\ inbound' = inbound /\ disk' = disk
    BY <1>3 DEF UserSend, Users, store
  <2>4. known'[d] = known[d] \/ known'[d] = Merge(known[d], L)
    BY <1>3, <2>2 DEF UserSend, Tables
  <2>. QED BY <2>3, <2>4 DEF Written, Merge, Within
<1>4. CASE InboundRow(d) \/ InboundWrite(d)
  <2>1. inbound[d] # Null /\ inbound[d].pc \in {"row", "write"} /\ user' = user /\ disk' = disk
    BY <1>4 DEF InboundRow, InboundWrite, store
  <2>2. CASE Handled(d)
    <3>1. inbound'[d] = Null /\ known'[d] = Merge(known[d], inbound[d].update)
      BY <2>2 DEF Handled, Inbounds, Tables
    <3>. QED BY <2>1, <3>1 DEF Written, Merge, Within, Loaded
  <2>3. CASE InboundRow(d) /\ ~Handled(d)
    <3>1. known' = known /\ inbound'[d].update = inbound[d].update
      BY <2>1, <2>3 DEF InboundRow, Inbounds, InboundTask
    <3>. QED BY <2>1, <3>1 DEF Written
  <2>. QED BY <1>4, <2>2, <2>3 DEF InboundWrite
<1>5. CASE /\ UserDoc(d) \/ UserBuild(d)
           /\ user[d] # Null /\ inbound' = inbound /\ known' = known
  <2>1. CASE UserWaits(d)
    BY <1>5, <2>1 DEF UserWaits, Reads, Written, Users, UserTask
  <2>2. CASE UserEdits(d)
    <3>1. PICK x : /\ user[d].call = "edit" /\ IsDoc(x) /\ Within(L, x)
                   /\ docs' = [docs EXCEPT ![d] = <<x>>] /\ disk' = [disk EXCEPT ![d] = x]
                   /\ user' = [user EXCEPT ![d].ref = 1, ![d].pc = "row"]
      BY <2>2 DEF UserEdits
    <3>2. disk'[d] = x
      BY <3>1 DEF Tables
    <3>3. x # Null /\ Loaded(x) = x
      BY <3>1 DEF IsDoc, NullIsApart, Loaded
    <3>. QED BY <1>5, <3>1, <3>2, <3>3 DEF Written, Within, Loaded
  <2>3. CASE UserPasses(d)
    <3>1. disk'[d] = disk[d] /\ user'[d].call # "edit"
      BY <1>5, <2>3 DEF UserPasses, Tables, Users, UserTask
    <3>. QED BY <1>5, <3>1 DEF Written
  <2>. QED BY <1>5, <2>1, <2>2, <2>3, UserSteps
<1>6. CASE /\ InboundDoc(d) \/ InboundBuild(d)
           /\ inbound[d] # Null /\ user' = user /\ known' = known
  <2>1. CASE InboundWaits(d)
    BY <1>6, <2>1 DEF InboundWaits, Reads, Written, Inbounds, InboundTask
  <2>2. CASE InboundMerges(d)
    <3> PICK x : x = Merge(L, inbound[d].update)
      OBVIOUS
    <3>1. disk'[d] = x /\ inbound'[d].update = inbound[d].update
      BY <1>6, <2>2 DEF InboundMerges, Tables, Inbounds, InboundTask
    <3>2. IsDoc(x) /\ Within(L, x) /\ Within(inbound[d].update, x)
      BY DEF Merge, IsDoc, Within
    <3>3. x # Null /\ Loaded(x) = x
      BY <3>2 DEF IsDoc, NullIsApart, Loaded
    <3>. QED BY <1>6, <3>1, <3>2, <3>3 DEF Written, Within
  <2>. QED BY <1>6, <2>1, <2>2, InboundSteps
<1>. QED BY <1>1, <1>2, <1>3, <1>4, <1>5, <1>6, QuietSteps

(* ... everywhere, for ever.                                               *)
Persisted == \A d \in Device \ forked : Kept(d) /\ Written(d)

(* It holds for the documents the object is created with.                  *)
LEMMA PersistedInit == ASSUME NullIsApart, TextInit PROVE Persisted
<1>1. PICK seed : /\ seed = Null \/ IsDoc(seed)
                  /\ disk = [d \in Device |-> seed]
                  /\ docs = [d \in Device |-> IF seed = Null THEN <<>> ELSE <<seed>>]
  <2>1. \E type, content : \E seed \in {Null, Insert(Empty, {0}, <<Null, 0, "seed">>)} :
          Created(type, content, seed)
    <3>1. CASE Created("checklist", ChecklistContent({0}, {}), Null)
      BY <3>1
    <3>2. CASE \E seed \in {Null, Insert(Empty, {0}, <<Null, 0, "seed">>)} :
                 Created("text", TextContent({0}), seed)
      BY <3>2
    <3>. QED BY <3>1, <3>2 DEF TextInit
  <2>2. IsDoc(Insert(Empty, {0}, <<Null, 0, "seed">>))
    BY DEF Insert, Empty, IsDoc
  <2>. QED BY <2>1, <2>2 DEF Created
<1>. QED
  BY <1>1 DEF Persisted, Kept, Written, TextInit, Loaded, Within, Empty

(* It is kept on every device.                                             *)
LEMMA PersistedStep ==
    ASSUME NullIsApart, Shaped, Persisted, NEW p \in Device, Acts(p)
    PROVE  Persisted'
<1>. SUFFICES ASSUME NEW d \in Device \ forked' PROVE Kept(d)' /\ Written(d)'
  BY DEF Persisted
<1>1. Kept(d) /\ Written(d)
  BY MarksStay DEF Persisted
<1>. QED BY <1>1, KeptElsewhere, KeptStep, WrittenStep

(* The steps of the module, by device.                                     *)
LEMMA NextActs == TextNext <=> \E d \in Device : Acts(d)
BY DEF TextNext, Acts

(* What a device has told the others of, or has taken in from them, is in  *)
(* its database, unless two documents were built at once (docFor).         *)
THEOREM AnnouncedIsSaved == ASSUME NullIsApart PROVE TextSpec => []NothingForgotten
<1>1. TextInit => Shaped /\ Persisted
  BY ShapedInit, PersistedInit
<1>2. Shaped /\ Persisted /\ [TextNext]_textVars => Shaped' /\ Persisted'
  <2>. SUFFICES ASSUME Shaped, Persisted, [TextNext]_textVars PROVE Shaped' /\ Persisted'
    OBVIOUS
  <2>1. CASE TextNext
    BY <2>1, NextActs, ShapedStep, PersistedStep
  <2>2. CASE UNCHANGED textVars
    BY <2>2 DEF textVars, store, tasks, ghosts, Shaped, Rows, Tables, Users, Inbounds,
       Rewrites, Counts, Dated, Upd, Persisted, Kept, Written, Steady
  <2>. QED BY <2>1, <2>2
<1>3. Persisted => NothingForgotten
  BY DEF Persisted, Written, NothingForgotten, Loaded
<1>. QED BY <1>1, <1>2, <1>3, PTL DEF TextSpec

-----------------------------------------------------------------------------
(* A row of text is the text of the document, or about to become it.       *)
Writing(d) ==
    \/ user[d] # Null /\ user[d].call = "edit" /\ user[d].pc = "row"
    \/ /\ inbound[d] # Null
       /\ \/ inbound[d].pc = "row"
          \/ inbound[d].pc = "write" /\ inbound[d].saw = row[d].content.text
Mirrored(d) ==
    row[d].type = "text" =>
      /\ row[d].content = TextContent(row[d].content.text)
      /\ disk[d] # Null => (row[d].content.text = LettersOf(disk[d]) \/ Writing(d))
Excepted == forked \union reset \union overruled \union overtaken
Shown == \A d \in Device \ Excepted : Mirrored(d)

(* Other devices' rows are left alone.                                     *)
LEMMA MirroredElsewhere ==
    ASSUME Shaped, NEW p \in Device, Acts(p), NEW d \in Device, d # p, Mirrored(d)
    PROVE  Mirrored(d)'
BY Elsewhere DEF Mirrored, Writing

(* The writing of a row catches up with its document.                      *)
LEMMA MirroredStep ==
    ASSUME NullIsApart, Shaped, NEW d \in Device, d \notin Excepted',
           Kept(d), Written(d), Mirrored(d), Acts(d)
    PROVE  Mirrored(d)'
<1>. Rows /\ Tables /\ Users /\ Inbounds /\ Rewrites BY DEF Shaped
<1>. d \notin forked' /\ d \notin reset' /\ d \notin overruled' /\ d \notin overtaken'
  BY DEF Excepted
<1>. DEFINE L == Loaded(disk[d])
<1>0. ASSUME row'[d] = row[d], disk'[d] = disk[d], Writing(d) => Writing(d)'
      PROVE  Mirrored(d)'
  BY <1>0 DEF Mirrored
<1>1. CASE OpenEditor(d)
  BY <1>0, <1>1 DEF OpenEditor, tasks, store, ghosts, Writing
<1>2. CASE Save(d) \/ \E e \in Others(d) : HandOff(d, e)
  BY <1>0, <1>2 DEF Save, HandOff, store, ghosts, Writing
<1>3. CASE Toggle(d)
  <2>1. row[d].type = "checklist"
    BY <1>3 DEF Toggle, tasks
  <2>2. PICK c : row' \in {[row EXCEPT ![d].content = c, ![d].at = soon(d)]}
    BY <1>3 DEF Toggle, tasks
  <2>3. row'[d].type = row[d].type
    BY <2>2 DEF Rows
  <2>. QED BY <2>1, <2>3 DEF Mirrored
<1>4. CASE Reload(d)
  BY <1>4 DEF Reload
<1>5. CASE RetypeRow(d)
  <2>1. retyping[d].type = row[d].type /\ retyping[d].saw = row[d]
    BY <1>5 DEF RetypeRow, Overtakes
  <2>2. Converted(row[d].type, row[d].type, row[d].content) = row[d].content
    BY DEF Converted
  <2>3. row' = [row EXCEPT ![d] = [type |-> row[d].type, content |-> row[d].content,
                                    at |-> retyping[d].at]]
    BY <1>5, <2>1, <2>2 DEF RetypeRow
  <2>4. row'[d].type = row[d].type /\ row'[d].content = row[d].content
    BY <2>3 DEF Rows
  <2>5. disk' = disk /\ user' = user /\ inbound' = inbound
    BY <1>5 DEF RetypeRow
  <2>. QED BY <2>4, <2>5 DEF Mirrored, Writing
<1>6. CASE UserDoc(d) \/ UserBuild(d)
  <2>0. /\ row' = row /\ inbound' = inbound /\ user[d] # Null
        /\ user[d].pc \in {"doc", "build"}
    BY <1>6 DEF UserDoc, UserBuild
  <2>1. CASE UserWaits(d) \/ UserPasses(d)
    BY <2>0, <2>1, <1>0 DEF UserWaits, UserPasses, Tables, Writing
  <2>2. CASE UserEdits(d)
    <3>0. user[d].call = "edit" /\ user' \in {[user EXCEPT ![d].ref = 1, ![d].pc = "row"]}
      BY <2>2 DEF UserEdits
    <3> PICK u : u = [user[d] EXCEPT !.ref = 1, !.pc = "row"]
      OBVIOUS
    <3>1. user'[d] = u
      BY <2>0, <3>0 DEF Users
    <3>2. u.pc = "row" /\ u.call = "edit" /\ "pc" \in DOMAIN u
      BY <2>0, <3>0 DEF Users, UserTask
    <3>. QED BY <2>0, <3>1, <3>2 DEF Mirrored, Writing, NullIsApart
  <2>. QED BY <1>6, <2>1, <2>2, UserSteps
<1>7. CASE UserRow(d)
  <2>1. docs[d] = <<L>> /\ user[d].ref = 1
    BY <1>7 DEF UserRow, Kept, Steady
  <2>2. docs[d][user[d].ref] = L
    BY <2>1, OneCell
  <2>3. row' \in {[row EXCEPT ![d].at = now(d), ![d].content = TextContent(LettersOf(L))]}
    BY <1>7, <2>2 DEF UserRow, Merged
  <2>4. row'[d].content = TextContent(LettersOf(L))
    BY <2>3 DEF Rows
  <2>5. disk' = disk
    BY <1>7 DEF UserRow
  <2>. QED BY <2>4, <2>5 DEF Mirrored, TextContent, Loaded
<1>8. CASE UserSend(d)
  BY <1>8, <1>0 DEF UserSend, store, Writing
<1>9. CASE InboundDoc(d) \/ InboundBuild(d)
  <2>0. /\ row' = row /\ user' = user /\ inbound[d] # Null
        /\ inbound[d].pc \in {"doc", "build"}
    BY <1>9 DEF InboundDoc, InboundBuild
  <2>1. CASE InboundWaits(d)
    BY <2>0, <2>1, <1>0 DEF InboundWaits, Tables, Writing
  <2>2. CASE InboundMerges(d)
    <3>1. inbound'[d].pc = "row" /\ inbound'[d] # Null
      BY <2>0, <2>2 DEF InboundMerges, Inbounds, InboundTask, NullIsApart
    <3>. QED BY <2>0, <3>1 DEF Mirrored, Writing
  <2>. QED BY <1>9, <2>1, <2>2, InboundSteps
<1>10. CASE InboundWrite(d)
  <2>1. docs[d] = <<L>> /\ inbound[d].ref = 1 /\ disk[d] # Null
    BY <1>10 DEF InboundWrite, Kept, Steady, Written
  <2>2. docs[d][inbound[d].ref] = disk[d]
    BY <2>1, OneCell DEF Loaded
  <2> PICK text : text = LettersOf(disk[d])
    OBVIOUS
  <2>3. disk' = disk /\ user' = user
    BY <1>10 DEF InboundWrite
  <2>4. CASE text = inbound[d].saw
    <3>1. row' = row
      BY <1>10, <2>2, <2>4 DEF InboundWrite
    <3>2. inbound[d].pc = "write"
      BY <1>10 DEF InboundWrite
    <3>. QED BY <2>3, <2>4, <3>1, <3>2 DEF Mirrored, Writing
  <2>5. CASE text # inbound[d].saw
    <3>1. row' \in {[row EXCEPT ![d].content = TextContent(text), ![d].at = inbound[d].at]}
      BY <1>10, <2>2, <2>5 DEF InboundWrite
    <3>2. row'[d].content = TextContent(text)
      BY <3>1 DEF Rows
    <3>. QED BY <2>3, <3>2 DEF Mirrored, TextContent
  <2>. QED BY <2>4, <2>5
<1>11. CASE InboundRow(d)
  <2>1. row' = row /\ disk' = disk /\ user' = user
    BY <1>11 DEF InboundRow, store
  <2>2. CASE row[d].type = "text"
    <3> PICK u : u = [inbound[d] EXCEPT !.pc = "write", !.saw = row[d].content.text]
      OBVIOUS
    <3>1. inbound'[d] = u
      BY <1>11, <2>2 DEF InboundRow, Inbounds
    <3>2. u.pc = "write" /\ u.saw = row[d].content.text /\ "pc" \in DOMAIN u
      BY <1>11 DEF InboundRow, Inbounds, InboundTask
    <3>. QED BY <2>1, <3>1, <3>2 DEF Mirrored, Writing, NullIsApart
  <2>. QED BY <2>1, <2>2 DEF Mirrored
<1>12. CASE UpdateRow(d)
  BY <1>12 DEF UpdateRow
<1>13. CASE \/ \E m \in updates : TakeUpdate(d, m)
            \/ \E type \in {"text", "checklist"} : Retype(d, type)
  BY <1>13, <1>0 DEF TakeUpdate, Retype, store, Writing
<1>14. CASE \E m \in updates : TakeYjs(d, m)
  BY <1>14, <1>0 DEF TakeYjs, Free, store, Writing
<1>. QED
  BY <1>1, <1>2, <1>3, <1>4, <1>5, <1>6, <1>7, <1>8, <1>9, <1>10, <1>11, <1>12, <1>13, <1>14
     DEF Acts

(* The row of a new object shows its text.                                 *)
LEMMA ShownInit == TextInit => Shown
<1>. SUFFICES ASSUME TextInit, NEW d \in Device PROVE Mirrored(d)
  BY DEF Shown
<1>1. CASE Created("checklist", ChecklistContent({0}, {}), Null)
  BY <1>1 DEF Created, Mirrored
<1>2. CASE \E seed \in {Null, Insert(Empty, {0}, <<Null, 0, "seed">>)} :
             Created("text", TextContent({0}), seed)
  <2>1. PICK seed \in {Null, Insert(Empty, {0}, <<Null, 0, "seed">>)} :
          Created("text", TextContent({0}), seed)
    BY <1>2
  <2>2. row[d].content = TextContent({0}) /\ disk[d] = seed
    BY <2>1 DEF Created
  <2>3. LettersOf(Insert(Empty, {0}, <<Null, 0, "seed">>)) = {0}
    <3> PICK i : i = <<Null, 0, "seed">>
      OBVIOUS
    <3>1. Insert(Empty, {0}, i) = [ins |-> {[letter |-> 0, id |-> i]}, del |-> {}]
      BY DEF Insert, Empty
    <3>2. LettersOf([ins |-> {[letter |-> 0, id |-> i]}, del |-> {}]) = {0}
      BY DEF LettersOf
    <3>. QED BY <3>1, <3>2
  <2>. QED BY <2>1, <2>2, <2>3 DEF Mirrored, TextContent
<1>. QED BY <1>1, <1>2 DEF TextInit

(* It is kept on every device.                                             *)
LEMMA ShownStep ==
    ASSUME NullIsApart, Shaped, Persisted, Shown, NEW p \in Device, Acts(p)
    PROVE  Shown'
<1>. SUFFICES ASSUME NEW d \in Device \ Excepted' PROVE Mirrored(d)'
  BY DEF Shown
<1>1. Kept(d) /\ Written(d) /\ Mirrored(d)
  BY MarksStay DEF Persisted, Shown, Excepted
<1>. QED BY <1>1, MirroredElsewhere, MirroredStep

(* Local edits and updates that interleave leave a row that shows the      *)
(* merged text (editText, YJS_UPDATE), with the exceptions the property    *)
(* names.                                                                  *)
THEOREM RowIsCurrent == ASSUME NullIsApart PROVE TextSpec => []RowShowsDocument
<1>1. TextInit => Shaped /\ Persisted /\ Shown
  BY ShapedInit, PersistedInit, ShownInit
<1>2. Shaped /\ Persisted /\ Shown /\ [TextNext]_textVars => (Shaped /\ Persisted /\ Shown)'
  <2>. SUFFICES ASSUME Shaped, Persisted, Shown, [TextNext]_textVars
               PROVE  Shaped' /\ Persisted' /\ Shown'
    OBVIOUS
  <2>1. CASE TextNext
    BY <2>1, NextActs, ShapedStep, PersistedStep, ShownStep
  <2>2. CASE UNCHANGED textVars
    BY <2>2 DEF textVars, store, tasks, ghosts, Shaped, Rows, Tables, Users, Inbounds,
       Rewrites, Counts, Dated, Upd, Persisted, Kept, Written, Steady, Shown,
       Excepted, Mirrored, Writing
  <2>. QED BY <2>1, <2>2
<1>3. Shown => RowShowsDocument
  BY DEF Shown, Excepted, Mirrored, Writing, RowShowsDocument, Resting, Free
<1>. QED BY <1>1, <1>2, <1>3, PTL DEF TextSpec

-----------------------------------------------------------------------------
(* What a document, a message or an update under way holds is, at every    *)
(* device, in the database, on its way or being handled, unless the device *)
(* that has just edited the document has not announced it yet.             *)
Half == {"ins", "del"}
Reach(e, c, f) ==
    \/ c \in Loaded(disk[e])[f]
    \/ \E m \in updates : m.op = "yjs" /\ m.to = e /\ c \in m.state[f]
    \/ inbound[e] # Null /\ c \in inbound[e].update[f]
Covers(e, x) == \A f \in Half : \A c \in x[f] : Reach(e, c, f)
Everywhere(x) == \A e \in Device : Covers(e, x)
Editing(d) == user[d] # Null /\ user[d].call = "edit" /\ user[d].pc \in {"row", "send"}

Spread ==
    forked = {} /\ reset = {} =>
      /\ \A d \in Device : Editing(d) \/ Everywhere(Loaded(disk[d]))
      /\ \A m \in updates : m.op = "yjs" => Everywhere(m.state)
      /\ \A d \in Device : inbound[d] # Null => Everywhere(inbound[d].update)

(* At first every device has the same document.                            *)
LEMMA SpreadInit == ASSUME NullIsApart, TextInit PROVE Spread
<1>1. updates = {} /\ \A d \in Device : inbound[d] = Null
  BY DEF TextInit
<1>2. \A d, e \in Device : disk[d] = disk[e]
  BY DEF TextInit, Created
<1>. QED BY <1>1, <1>2 DEF Spread, Everywhere, Covers, Reach

(* Nothing is lost from sight in a step, so it is enough to look at what   *)
(* is new.                                                                 *)
Stays == \A e \in Device : \A f \in Half : \A c : Reach(e, c, f) => Reach(e, c, f)'

(* What is everywhere stays there.                                         *)
LEMMA EverywhereStays == ASSUME Stays, NEW x, Everywhere(x) PROVE Everywhere(x)'
BY DEF Stays, Everywhere, Covers

(* So does a part of it.                                                   *)
LEMMA EverywhereWithin ==
    ASSUME NEW x, NEW y, Within(x, y), Everywhere(y) PROVE Everywhere(x)
BY DEF Everywhere, Covers, Within, Half

(* And what is merged of two such documents.                               *)
LEMMA EverywhereMerged ==
    ASSUME NEW x, NEW y, Everywhere(x), Everywhere(y) PROVE Everywhere(Merge(x, y))
BY DEF Everywhere, Covers, Merge, Half

(* Spread stays true if every reach stays, and what is new, in a document   *)
(* or under way, has what is everywhere.                                    *)
LEMMA SpreadNews ==
    ASSUME Spread, forked = {}, reset = {}, Stays,
           \A d \in Device : \/ Editing(d)'
                             \/ disk'[d] = disk[d] /\ ~Editing(d)
                             \/ \E x : x = Loaded(disk'[d]) /\ Everywhere(x)',
           \A m \in updates' : m.op = "yjs" => (m \in updates \/ Everywhere(m.state)'),
           \A d \in Device : inbound'[d] # Null =>
             \/ inbound[d] # Null /\ inbound'[d].update = inbound[d].update
             \/ \E x : x = inbound'[d].update /\ Everywhere(x)'
    PROVE  Spread'
<1>1. ASSUME NEW d \in Device PROVE (Editing(d) \/ Everywhere(Loaded(disk[d])))'
  <2>1. CASE disk'[d] = disk[d] /\ ~Editing(d)
    <3>1. PICK x : x = Loaded(disk[d])
      OBVIOUS
    <3>2. Everywhere(x)
      BY <2>1, <3>1 DEF Spread
    <3>3. Everywhere(x)'
      BY <3>2, EverywhereStays
    <3>4. x = Loaded(disk'[d])
      BY <2>1, <3>1
    <3>. QED BY <3>3, <3>4 DEF Everywhere, Covers
  <2>2. CASE \E x : x = Loaded(disk'[d]) /\ Everywhere(x)'
    BY <2>2 DEF Everywhere, Covers
  <2>. QED BY <2>1, <2>2
<1>2. ASSUME NEW m \in updates', m.op = "yjs" PROVE Everywhere(m.state)'
  <2>1. CASE m \in updates
    BY <1>2, <2>1, EverywhereStays DEF Spread
  <2>. QED BY <1>2, <2>1
<1>3. ASSUME NEW d \in Device, inbound'[d] # Null PROVE Everywhere(inbound[d].update)'
  <2>1. PICK x : x = inbound'[d].update
    OBVIOUS
  <2>2. Everywhere(x)'
    <3>1. CASE inbound[d] # Null /\ x = inbound[d].update
      BY <3>1, EverywhereStays DEF Spread
    <3>. QED BY <1>3, <2>1, <3>1
  <2>. QED BY <2>1, <2>2 DEF Everywhere, Covers
<1>. QED BY <1>1, <1>2, <1>3 DEF Spread

(* The database forgets nothing while one document is built.               *)
LEMMA DiskGrows ==
    ASSUME NullIsApart, Shaped, NEW p \in Device, Acts(p), NEW d \in Device \ forked', Kept(d)
    PROVE  Within(Loaded(disk[d]), Loaded(disk'[d]))
<1>. Tables BY DEF Shaped
<1>1. CASE disk'[d] = disk[d]
  BY <1>1 DEF Within
<1>2. CASE d = p /\ (UserDoc(d) \/ UserBuild(d))
  <2>1. CASE UserEdits(d)
    <3>1. PICK x : IsDoc(x) /\ Within(Loaded(disk[d]), x) /\ disk' = [disk EXCEPT ![d] = x]
      BY <2>1 DEF UserEdits
    <3>2. disk'[d] = x /\ Loaded(x) = x
      BY <3>1 DEF Tables, IsDoc, NullIsApart, Loaded
    <3>. QED BY <3>1, <3>2
  <2>. QED BY <1>1, <1>2, <2>1, UserSteps DEF UserWaits, UserPasses
<1>3. CASE d = p /\ (InboundDoc(d) \/ InboundBuild(d))
  <2>1. CASE InboundMerges(d)
    <3>1. PICK x : x = Merge(Loaded(disk[d]), inbound[d].update)
      OBVIOUS
    <3>2. disk'[d] = x
      BY <2>1, <3>1 DEF InboundMerges, Tables
    <3>3. IsDoc(x) /\ Within(Loaded(disk[d]), x)
      BY <3>1 DEF Merge, IsDoc, Within
    <3>4. Loaded(x) = x
      BY <3>3 DEF IsDoc, NullIsApart, Loaded
    <3>. QED BY <3>2, <3>3, <3>4
  <2>. QED BY <1>1, <1>3, <2>1, InboundSteps DEF InboundWaits
<1>. QED BY <1>1, <1>2, <1>3, Elsewhere, QuietSteps DEF Undisturbed

(* A message stays until its handler takes it.                             *)
LEMMA MessageStays ==
    ASSUME NEW p \in Device, Acts(p), NEW m \in updates, m.op = "yjs"
    PROVE  m \in updates' \/ (m.to = p /\ TakeYjs(p, m))
<1>1. CASE \E n \in {x \in updates : x.to = p} : TakeYjs(p, n)
  BY <1>1 DEF TakeYjs
<1>2. CASE \E n \in updates : TakeUpdate(p, n)
  BY <1>2 DEF TakeUpdate, UpdateRow
<1>3. CASE updates \subseteq updates'
  BY <1>3
<1>. QED
  BY <1>1, <1>2, <1>3 DEF Acts, OpenEditor, tasks, Save, Toggle, Reload, Retype,
     RetypeRow, Overtakes, UserDoc, UserBuild, UserRow, UserSend, InboundDoc,
     InboundBuild, InboundRow, InboundWrite, HandOff, Update, UpdateRow

(* An update stays until it is written.                                    *)
LEMMA InboundStays ==
    ASSUME NullIsApart, Shaped, NEW p \in Device, Acts(p), reset' = {}, NEW d \in Device, inbound[d] # Null
    PROVE  \/ inbound'[d] # Null /\ inbound'[d].update = inbound[d].update
           \/ d = p /\ Handled(d) /\ (InboundRow(d) \/ InboundWrite(d))
<1>. Inbounds BY DEF Shaped
<1>1. CASE inbound' = inbound
  BY <1>1
<1>2. CASE InboundDoc(p) \/ InboundBuild(p)
  <2>1. \/ inbound' = [inbound EXCEPT ![p] = Reads(@, p)]
        \/ \E r : inbound' \in {[inbound EXCEPT ![p].pc = "row", ![p].ref = r]}
    BY <1>2 DEF InboundDoc, InboundBuild, Applied
  <2>2. CASE inbound' = [inbound EXCEPT ![p] = Reads(@, p)]
    <3>1. d = p => inbound'[d] = Reads(inbound[d], d)
      BY <2>2 DEF Inbounds
    <3>2. /\ "pc" \in DOMAIN Reads(inbound[d], d)
          /\ Reads(inbound[d], d).update = inbound[d].update
      BY DEF Inbounds, InboundTask, Reads
    <3>. QED BY <3>1, <3>2, Elsewhere DEF NullIsApart
  <2>3. ASSUME NEW r, inbound' \in {[inbound EXCEPT ![p].pc = "row", ![p].ref = r]}, d = p
        PROVE  "pc" \in DOMAIN inbound'[d] /\ inbound'[d].update = inbound[d].update
    <3>1. "pc" \in DOMAIN inbound'[d]
      BY <2>3 DEF Inbounds, InboundTask
    <3>2. inbound'[d].update = inbound[d].update
      BY <2>3 DEF Inbounds, InboundTask
    <3>. QED BY <3>1, <3>2
  <2>. QED BY <2>1, <2>2, <2>3, Elsewhere DEF NullIsApart
<1>3. CASE InboundRow(d) /\ ~Handled(d)
  <2> PICK u : u = [inbound[d] EXCEPT !.pc = "write", !.saw = row[d].content.text]
    OBVIOUS
  <2>1. inbound'[d] = u
    BY <1>3 DEF InboundRow, Inbounds
  <2>2. "pc" \in DOMAIN u /\ u.update = inbound[d].update
    BY DEF Inbounds, InboundTask
  <2>. QED BY <2>1, <2>2 DEF NullIsApart
<1>4. CASE p # d
  BY <1>4, Elsewhere
<1>5. CASE InboundRow(p) \/ InboundWrite(p)
  BY <1>3, <1>4, <1>5 DEF InboundWrite
<1>. QED
  BY <1>1, <1>2, <1>4, <1>5 DEF Acts, OpenEditor, tasks, Save, Toggle, Reload, Retype,
     RetypeRow, UserDoc, UserBuild, UserRow, UserSend, HandOff,
     TakeUpdate, UpdateRow, TakeYjs, Free

(* So nothing is lost from sight.                                          *)
LEMMA StaysStep ==
    ASSUME NullIsApart, Shaped, Persisted, NEW p \in Device, Acts(p), forked' = {}, reset' = {}
    PROVE  Stays
<1>. SUFFICES ASSUME NEW e \in Device, NEW f \in Half, NEW c, Reach(e, c, f) PROVE Reach(e, c, f)'
  BY DEF Stays
<1>. Inbounds BY DEF Shaped
<1>0. Kept(e) /\ Written(e)
  BY MarksStay DEF Persisted
<1>1. CASE c \in Loaded(disk[e])[f]
  BY <1>0, <1>1, DiskGrows DEF Reach, Within, Half
<1>2. CASE \E m \in updates : m.op = "yjs" /\ m.to = e /\ c \in m.state[f]
  <2>1. PICK m \in updates : m.op = "yjs" /\ m.to = e /\ c \in m.state[f]
    BY <1>2
  <2>2. CASE m \in updates'
    BY <2>1, <2>2 DEF Reach
  <2>3. CASE m.to = p /\ TakeYjs(p, m)
    <3> PICK u : u = [pc |-> "doc", update |-> m.state, state |-> Empty, ref |-> 0,
                      at |-> now(p), saw |-> {}]
      OBVIOUS
    <3>1. inbound'[e] = u
      BY <2>1, <2>3 DEF TakeYjs, Inbounds
    <3>2. inbound'[e].update = m.state
      BY <3>1
    <3>3. "pc" \in DOMAIN inbound'[e]
      BY <3>1
    <3>. QED BY <2>1, <3>2, <3>3 DEF Reach, NullIsApart
  <2>. QED BY <2>1, <2>2, <2>3, MessageStays
<1>3. CASE inbound[e] # Null /\ c \in inbound[e].update[f]
  <2>1. CASE inbound'[e] # Null /\ inbound'[e].update = inbound[e].update
    BY <1>3, <2>1 DEF Reach
  <2>2. CASE e = p /\ (InboundRow(e) \/ InboundWrite(e))
    <3>1. disk' = disk /\ inbound[e].pc \in {"row", "write"}
      BY <2>2 DEF InboundRow, InboundWrite, store
    <3>2. c \in Loaded(disk[e])[f]
      BY <1>0, <1>3, <3>1 DEF Written, Within, Loaded, Half
    <3>. QED BY <3>1, <3>2 DEF Reach
  <2>. QED BY <1>3, <2>1, <2>2, InboundStays
<1>. QED BY <1>1, <1>2, <1>3 DEF Reach

(* The message of editText reaches everyone; a hand-off tells nothing new. *)
LEMMA Announced ==
    ASSUME NullIsApart, Shaped, Spread, NEW p \in Device, Kept(p), UserSend(p), Stays,
           forked = {}, reset = {}, NEW x, x = Loaded(disk[p])
    PROVE  /\ Everywhere(x)' /\ disk' = disk
           /\ \A m \in updates' : m.op = "yjs" => (m \in updates \/ m.state = x)
<1>1. docs[p] = <<x>> /\ user[p].ref = 1
  BY DEF Kept, Steady, UserSend
<1>2. docs[p][user[p].ref] = x
  BY <1>1, OneCell
<1>3. disk' = disk
  BY DEF UserSend, store
<1>4. updates' = updates \union
        {[op |-> "yjs", to |-> e, state |-> x] :
           e \in (IF user[p].call = "edit" THEN Others(p) ELSE {user[p].to})}
  BY <1>2 DEF UserSend
<1>5. CASE user[p].call = "edit"
  <2>1. ASSUME NEW e \in Device PROVE Covers(e, x)'
    <3>1. CASE e = p
      BY <1>3, <3>1 DEF Covers, Reach
    <3>2. CASE e # p
      <4>1. [op |-> "yjs", to |-> e, state |-> x] \in updates'
        BY <1>4, <1>5, <3>2 DEF Others
      <4>. QED BY <4>1 DEF Covers, Reach
    <3>. QED BY <3>1, <3>2
  <2>. QED BY <1>3, <1>4, <2>1 DEF Everywhere
<1>6. CASE user[p].call # "edit"
  <2>1. Everywhere(x)
    BY <1>6 DEF Spread, Editing
  <2>. QED BY <2>1, EverywhereStays, <1>3, <1>4
<1>. QED BY <1>5, <1>6

(* Only sending a document adds such messages.                             *)
LEMMA NewMessages ==
    ASSUME NEW p \in Device, Acts(p), ~UserSend(p), NEW m \in updates', m.op = "yjs"
    PROVE  m \in updates
<1>1. CASE Toggle(p)
  BY <1>1 DEF Toggle, tasks, Update
<1>2. CASE RetypeRow(p)
  BY <1>2 DEF RetypeRow, Update
<1>. QED
  BY <1>1, <1>2 DEF Acts, OpenEditor, tasks, Save, Reload, Retype, UserDoc, UserBuild,
     UserRow, InboundDoc, InboundBuild, InboundRow, InboundWrite, HandOff,
     TakeUpdate, UpdateRow, TakeYjs

(* An update being handled was a message.                                  *)
LEMMA NewInbound ==
    ASSUME Shaped, NEW p \in Device, Acts(p), NEW d \in Device, inbound'[d] # Null, inbound[d] = Null
    PROVE  d = p /\ \E m \in updates : m.op = "yjs" /\ inbound'[d].update = m.state
<1>. Inbounds BY DEF Shaped
<1>1. d = p
  BY Elsewhere
<1>2. CASE \E m \in updates : TakeYjs(p, m)
  BY <1>1, <1>2 DEF TakeYjs, Inbounds
<1>3. CASE InboundDoc(p) \/ InboundBuild(p) \/ InboundRow(p) \/ InboundWrite(p)
  BY <1>1, <1>3 DEF InboundDoc, InboundBuild, InboundRow, InboundWrite, Handled
<1>4. CASE inbound'[d] = Null
  BY <1>4
<1>. QED
  BY <1>1, <1>2, <1>3, <1>4 DEF Acts, OpenEditor, tasks, Save, Toggle, Reload,
     Retype, RetypeRow, Overtakes, UserDoc, UserBuild, UserRow, UserSend, HandOff,
     TakeUpdate, UpdateRow, Inbounds

(* Every step keeps what there is in reach of everyone.                    *)
LEMMA SpreadStep ==
    ASSUME NullIsApart, Shaped, Persisted, Spread, NEW p \in Device, Acts(p)
    PROVE  Spread'
<1>. SUFFICES ASSUME forked' = {}, reset' = {} PROVE Spread'
  BY DEF Spread
<1>0. Stays /\ forked = {} /\ reset = {} /\ Kept(p)
  BY StaysStep, MarksStay DEF Persisted
<1>. Tables /\ Users /\ Inbounds BY DEF Shaped
<1>1. ASSUME NEW d \in Device
      PROVE  \/ Editing(d)'
             \/ disk'[d] = disk[d] /\ ~Editing(d)
             \/ \E x : x = Loaded(disk'[d]) /\ Everywhere(x)'
  <2>1. CASE disk'[d] = disk[d] /\ user'[d] = user[d]
    BY <2>1 DEF Editing
  <2>2. CASE UserSend(d) /\ d = p
    BY <1>0, <2>2, Announced
  <2>3. CASE UserRow(d) /\ d = p
    <3>1. user'[d].pc = "send" /\ user'[d].call = user[d].call /\ "pc" \in DOMAIN user'[d] /\ disk' = disk
      BY <2>3 DEF UserRow, Users, UserTask
    <3>. QED BY <3>1 DEF Editing, NullIsApart
  <2>4. CASE (UserDoc(d) \/ UserBuild(d)) /\ d = p
    <3>0. ~Editing(d) /\ user[d] # Null
      BY <2>4 DEF UserDoc, UserBuild, Editing
    <3>1. CASE UserEdits(d)
      <4>0. user[d].call = "edit" /\ user' \in {[user EXCEPT ![d].ref = 1, ![d].pc = "row"]}
        BY <3>1 DEF UserEdits
      <4>1. user'[d].pc = "row" /\ user'[d].call = "edit"
        BY <3>0, <4>0 DEF Users, UserTask
      <4>2. "pc" \in DOMAIN user'[d]
        BY <3>0, <4>0 DEF Users, UserTask
      <4>. QED BY <4>1, <4>2 DEF Editing, NullIsApart
    <3>2. CASE disk' = disk
      BY <3>0, <3>2
    <3>. QED BY <1>0, <2>4, <3>1, <3>2, UserSteps DEF UserWaits, UserPasses
  <2>5. CASE (InboundDoc(d) \/ InboundBuild(d)) /\ d = p
    <3>0. user' = user /\ inbound[d] # Null
      BY <2>5 DEF InboundDoc, InboundBuild
    <3>1. CASE Editing(d) \/ InboundWaits(d)
      BY <3>0, <3>1 DEF Editing, InboundWaits
    <3>2. CASE ~Editing(d) /\ InboundMerges(d)
      <4>1. PICK x : x = Merge(Loaded(disk[d]), inbound[d].update)
        OBVIOUS
      <4>2. Everywhere(x)
        BY <1>0, <3>0, <3>2, <4>1, EverywhereMerged DEF Spread
      <4>3. disk'[d] = x
        BY <3>2, <4>1 DEF InboundMerges, Tables
      <4>4. Loaded(x) = x
        BY <4>1 DEF Merge, NullIsApart, Loaded
      <4>5. Everywhere(x)'
        BY <1>0, <4>2, EverywhereStays
      <4>. QED BY <4>3, <4>4, <4>5
    <3>. QED BY <1>0, <2>5, <3>1, <3>2, InboundSteps
  <2>6. CASE (Save(d) \/ \E e \in Others(d) : HandOff(d, e)) /\ d = p
    BY <2>6 DEF Save, HandOff, store, Editing
  <2>7. CASE Reload(p)
    BY <2>7 DEF Reload
  <2>. QED
    BY <2>1, <2>2, <2>3, <2>4, <2>5, <2>6, <2>7, Elsewhere DEF Acts, OpenEditor,
       tasks, Toggle, Retype, RetypeRow, Overtakes, InboundRow, InboundWrite,
       Handled, TakeUpdate, UpdateRow, TakeYjs, store
<1>2. ASSUME NEW m \in updates', m.op = "yjs" PROVE m \in updates \/ Everywhere(m.state)'
  <2>1. CASE UserSend(p)
    <3>1. PICK x : x = Loaded(disk[p])
      OBVIOUS
    <3>. QED BY <1>0, <1>2, <2>1, <3>1, Announced
  <2>. QED BY <1>2, <2>1, NewMessages
<1>3. ASSUME NEW d \in Device, inbound'[d] # Null
      PROVE  \/ inbound[d] # Null /\ inbound'[d].update = inbound[d].update
             \/ \E x : x = inbound'[d].update /\ Everywhere(x)'
  <2>1. CASE inbound[d] = Null
    <3>1. PICK m \in updates : m.op = "yjs" /\ inbound'[d].update = m.state
      BY <1>3, <2>1, NewInbound
    <3>2. Everywhere(m.state)'
      BY <1>0, <3>1, EverywhereStays DEF Spread
    <3>. QED BY <3>1, <3>2
  <2>2. CASE inbound[d] # Null
    <3>1. ~Handled(d)
      BY <1>3 DEF Handled, Inbounds
    <3>. QED BY <2>2, <3>1, InboundStays
  <2>. QED BY <2>1, <2>2
<1>. QED BY <1>0, <1>1, <1>2, <1>3, SpreadNews

-----------------------------------------------------------------------------
(* Devices whose row was never replaced agree on the type, and nobody      *)
(* writes a text into a checklist on them.                                 *)
Sided ==
    /\ \A d, e \in Device \ overruled : row[d].type = row[e].type
    /\ \A d \in Device \ overruled :
         /\ row[d].type \in {"text", "checklist"}
         /\ row[d].type = "checklist" =>
              /\ d \notin clobbered /\ user[d] = Null
              /\ inbound[d] # Null => inbound[d].pc # "write"

(* At first they agree.                                                    *)
LEMMA SidedInit == TextInit => Sided
BY DEF TextInit, Created, Sided

(* The type changes only when the row is replaced.                         *)
LEMMA TypeStays ==
    ASSUME Shaped, NEW p \in Device, Acts(p), NEW d \in Device \ overruled'
    PROVE  row'[d].type = row[d].type
<1>. Rows BY DEF Shaped
<1>1. CASE d # p
  BY <1>1, Elsewhere
<1>2. CASE row' = row
  BY <1>2
<1>3. CASE d = p /\ RetypeRow(p)
  <2>1. retyping[d].type = row[d].type
    BY <1>3 DEF RetypeRow
  <2>2. PICK k, t : row' = [row EXCEPT ![d] = [type |-> row[d].type, content |-> k, at |-> t]]
    BY <1>3, <2>1 DEF RetypeRow
  <2>. QED BY <2>2 DEF Rows
<1>4. CASE \E c, t : row' \in {[row EXCEPT ![p].content = c, ![p].at = t],
                               [row EXCEPT ![p].at = t, ![p].content = c]}
  BY <1>4 DEF Rows
<1>5. CASE d = p /\ UpdateRow(p)
  BY <1>5 DEF UpdateRow
<1>6. CASE Toggle(p) \/ UserRow(p) \/ InboundWrite(p)
  BY <1>2, <1>4, <1>6 DEF Toggle, UserRow, InboundWrite
<1>. QED
  BY <1>1, <1>2, <1>3, <1>5, <1>6 DEF Acts, OpenEditor, Save, Reload, Retype, UserDoc,
     UserBuild, UserSend, InboundDoc, InboundBuild, InboundRow, HandOff, TakeUpdate,
     TakeYjs, store

(* So they agree for ever.                                                 *)
LEMMA SidedStep ==
    ASSUME NullIsApart, Shaped, Sided, NEW p \in Device, Acts(p)
    PROVE  Sided'
<1>. Users /\ Inbounds BY DEF Shaped
<1>1. ASSUME NEW d \in Device \ overruled', NEW e \in Device \ overruled'
      PROVE  row'[d].type = row'[e].type
  <2>1. row[d].type = row[e].type
    BY MarksStay DEF Sided
  <2>. QED BY <2>1, TypeStays
<1>2. ASSUME NEW d \in Device \ overruled', row'[d].type = "checklist"
      PROVE  /\ d \notin clobbered' /\ user'[d] = Null
             /\ inbound'[d] # Null => inbound'[d].pc # "write"
  <2>1. row[d].type = "checklist"
    BY <1>2, TypeStays
  <2>2. /\ d \notin clobbered /\ user[d] = Null
        /\ inbound[d] # Null => inbound[d].pc # "write"
    BY <2>1, MarksStay DEF Sided
  <2>3. d \notin clobbered'
    <3>1. CASE clobbered' = clobbered
      BY <2>2, <3>1
    <3>2. CASE UserRow(p) \/ InboundWrite(p)
      BY <2>2, <3>2 DEF UserRow, InboundWrite
    <3>. QED
      BY <3>1, <3>2 DEF Acts, OpenEditor, Save, Toggle, Reload, Retype, RetypeRow,
         UserDoc, UserBuild, UserSend, InboundDoc, InboundBuild, InboundRow, HandOff,
         TakeUpdate, UpdateRow, TakeYjs, ghosts
  <2>4. ASSUME d = p PROVE user'[d] = Null
    <3>1. CASE Reload(p)
      BY <2>4, <3>1 DEF Reload, Users
    <3>2. ~Save(p) /\ ~UserDoc(p) /\ ~UserBuild(p) /\ ~UserRow(p) /\ ~UserSend(p)
            /\ ~\E e \in Others(p) : HandOff(p, e)
      BY <2>1, <2>2, <2>4 DEF Save, UserDoc, UserBuild, UserRow, UserSend, HandOff
    <3>3. CASE user' = user
      BY <2>2, <3>3
    <3>. QED
      BY <3>1, <3>2, <3>3 DEF Acts, OpenEditor, tasks, Toggle, Retype, RetypeRow,
         InboundDoc, InboundBuild, InboundRow, InboundWrite,
         TakeUpdate, UpdateRow, TakeYjs
  <2>5. ASSUME d = p, inbound'[d] # Null PROVE inbound'[d].pc # "write"
    <3>1. CASE InboundRow(p)
      BY <2>1, <2>5, <3>1 DEF InboundRow, Handled, Inbounds
    <3>2. CASE InboundDoc(p) \/ InboundBuild(p)
      <4>1. inbound'[d].pc \in {"build", "row"}
        BY <2>5, <3>2 DEF InboundDoc, InboundBuild, Applied, Reads, Inbounds, InboundTask
      <4>. QED BY <4>1
    <3>3. CASE \E m \in updates : TakeYjs(p, m)
      <4>1. PICK m \in updates : TakeYjs(p, m)
        BY <3>3
      <4> PICK u : u = [pc |-> "doc", update |-> m.state, state |-> Empty, ref |-> 0,
                        at |-> now(p), saw |-> {}]
        OBVIOUS
      <4>2. inbound'[d] = u
        BY <2>5, <4>1 DEF TakeYjs, Inbounds
      <4>. QED BY <4>2
    <3>4. CASE inbound' = inbound
      BY <2>2, <2>5, <3>4
    <3>5. CASE InboundWrite(p) \/ Reload(p)
      BY <2>5, <3>5 DEF InboundWrite, Handled, Reload, Inbounds
    <3>. QED
      BY <3>1, <3>2, <3>3, <3>4, <3>5 DEF Acts, OpenEditor, tasks, Save, Toggle, Retype,
         RetypeRow, UserDoc, UserBuild, UserRow, UserSend, HandOff, TakeUpdate, UpdateRow
  <2>. QED BY <2>2, <2>3, <2>4, <2>5, Elsewhere
<1>3. \A d \in Device \ overruled' : row'[d].type \in {"text", "checklist"}
  BY MarksStay, TypeStays DEF Sided
<1>. QED BY <1>1, <1>2, <1>3 DEF Sided

-----------------------------------------------------------------------------
(* No time lies ahead of the clock, a device handles one thing, and the    *)
(* time a retyping is to write is its own: later than the row it has read, *)
(* and that of no update or other retyping.                                *)
Clock == spent.save + spent.event
InTime ==
    /\ \A m \in Upd : m.at <= Clock
    /\ \A d \in Device :
         /\ row[d].at <= Clock
         /\ inbound[d] # Null => inbound[d].at <= Clock /\ replacing[d] = Null
         /\ replacing[d] # Null => replacing[d].update.at <= Clock
         /\ retyping[d] # Null =>
              /\ retyping[d].saw.at < retyping[d].at /\ retyping[d].at <= Clock
              /\ \A m \in Upd : m.at # retyping[d].at
              /\ \A e \in Device \ {d} : retyping[e] # Null =>
                   retyping[e].at # retyping[d].at

(* Time goes on.                                                           *)
LEMMA ClockStep ==
    ASSUME Fast = {}, Shaped, Shaped', NEW p \in Device, Acts(p)
    PROVE  /\ now(p) = Clock /\ soon(p) = Clock + 1 /\ Clock \in Nat /\ Clock' \in Nat
           /\ Clock' = Clock \/ Clock' = Clock + 1
           /\ Toggle(p) \/ Use("event") => Clock' = Clock + 1
<1>. Counts /\ Counts' BY DEF Shaped
<1>1. now(p) = Clock /\ soon(p) = Clock + 1 /\ Clock \in Nat /\ Clock' \in Nat
  BY DEF now, soon, Clock, Counts
<1>2. Use("save") \/ Use("event") => Clock' = Clock + 1
  BY DEF Use, Clock, Counts
<1>3. Toggle(p) \/ Use("event") => Clock' = Clock + 1
  BY <1>2 DEF Toggle
<1>4. Use("save") \/ Use("event") \/ spent' = spent
  BY DEF Acts, OpenEditor, Save, Toggle, Reload, Retype, RetypeRow, UserDoc, UserBuild,
     UserRow, UserSend, InboundDoc, InboundBuild, InboundRow, InboundWrite, HandOff,
     TakeUpdate, UpdateRow, TakeYjs
<1>. QED BY <1>1, <1>2, <1>3, <1>4 DEF Clock

(* The time of an update that replaces the row, from a tick or a retyping. *)
Stamps(p, s) == (Toggle(p) /\ s = soon(p)) \/ (RetypeRow(p) /\ s = retyping[p].at)

(* A new UPDATE_OBJECT comes from one of them.                             *)
LEMMA UpdStep ==
    ASSUME NEW p \in Device, Acts(p)
    PROVE  \/ Upd' \subseteq Upd
           \/ \E s : Stamps(p, s) /\ \A m \in Upd' : m \in Upd \/ m.at = s
<1>1. CASE Toggle(p) \/ RetypeRow(p)
  <2>1. PICK n, k, s : Update(p, n, k, s) /\ Stamps(p, s)
    BY <1>1, Zenon DEF Toggle, RetypeRow, Stamps
  <2>. QED BY <2>1 DEF Update, Upd
<1>2. CASE UserSend(p)
  BY <1>2 DEF UserSend, Upd
<1>3. CASE updates' \subseteq updates
  BY <1>3 DEF Upd
<1>. QED
  BY <1>1, <1>2, <1>3 DEF Acts, OpenEditor, Save, Reload, Retype, UserDoc, UserBuild,
     UserRow, InboundDoc, InboundBuild, InboundRow, InboundWrite, HandOff, TakeUpdate,
     UpdateRow, TakeYjs

(* A row is written with the time of its writer.                           *)
LEMMA RowTimes ==
    ASSUME Shaped, NEW p \in Device, Acts(p)
    PROVE  \/ row'[p].at = row[p].at \/ row'[p].at = now(p)
           \/ Stamps(p, row'[p].at)
           \/ inbound[p] # Null /\ row'[p].at = inbound[p].at
           \/ replacing[p] # Null /\ row'[p].at = replacing[p].update.at
<1>. Rows BY DEF Shaped
<1>1. CASE Toggle(p)
  <2>1. PICK c : row' \in {[row EXCEPT ![p].content = c, ![p].at = soon(p)]}
    BY <1>1 DEF Toggle
  <2>. QED BY <1>1, <2>1 DEF Rows, Stamps
<1>2. CASE RetypeRow(p)
  BY <1>2 DEF RetypeRow, Rows, Stamps
<1>3. CASE UserRow(p)
  <2>1. PICK c : row' \in {[row EXCEPT ![p].at = now(p), ![p].content = c]}
    BY <1>3 DEF UserRow
  <2>. QED BY <2>1 DEF Rows
<1>4. CASE InboundWrite(p)
  <2>1. PICK c : row' = row \/ row' \in {[row EXCEPT ![p].content = c, ![p].at = inbound[p].at]}
    BY <1>4 DEF InboundWrite
  <2>. QED BY <1>4, <2>1 DEF Rows, InboundWrite
<1>5. CASE UpdateRow(p)
  BY <1>5 DEF UpdateRow, Rows
<1>6. CASE row' = row
  BY <1>6
<1>. QED
  BY <1>1, <1>2, <1>3, <1>4, <1>5, <1>6 DEF Acts, OpenEditor, Save, Reload, Retype, UserDoc,
     UserBuild, UserSend, InboundDoc, InboundBuild, InboundRow, HandOff, TakeUpdate,
     TakeYjs, store

(* A handler keeps the time at which it began.                             *)
LEMMA InboundTimes ==
    ASSUME Shaped, NEW p \in Device, Acts(p), inbound'[p] # Null
    PROVE  \/ /\ inbound[p] # Null /\ inbound'[p].at = inbound[p].at
              /\ replacing' = replacing \/ replacing'[p] = Null
           \/ inbound'[p].at = now(p) /\ replacing'[p] = Null
<1>. Inbounds /\ Rewrites BY DEF Shaped
<1>1. CASE \E m \in updates : TakeYjs(p, m)
  <2>1. PICK m \in updates : TakeYjs(p, m)
    BY <1>1
  <2> PICK u : u = [pc |-> "doc", update |-> m.state, state |-> Empty, ref |-> 0,
                    at |-> now(p), saw |-> {}]
    OBVIOUS
  <2>2. inbound'[p] = u
    BY <2>1 DEF TakeYjs, Inbounds
  <2>. QED BY <2>1, <2>2 DEF TakeYjs, Free
<1>2. CASE InboundDoc(p) \/ InboundBuild(p) \/ (InboundRow(p) /\ ~Handled(p))
  <2>0. inbound[p] # Null /\ replacing' = replacing
    BY <1>2 DEF InboundDoc, InboundBuild, InboundRow
  <2>1. \/ inbound' = [inbound EXCEPT ![p] = Reads(inbound[p], p)]
        \/ \E r : inbound' \in {[inbound EXCEPT ![p].pc = "row", ![p].ref = r]}
        \/ \E r : inbound' \in {[inbound EXCEPT ![p].pc = "write", ![p].saw = r]}
    BY <1>2 DEF InboundDoc, InboundBuild, InboundRow, Applied, Inbounds
  <2>2. Reads(inbound[p], p).at = inbound[p].at
    BY <2>0 DEF Reads, Inbounds, InboundTask
  <2>3. inbound'[p].at = inbound[p].at
    BY <2>0, <2>1, <2>2 DEF Inbounds, InboundTask
  <2>. QED BY <2>0, <2>3
<1>3. CASE inbound' = inbound /\ (replacing' = replacing \/ UpdateRow(p))
  BY <1>3 DEF UpdateRow, Rewrites
<1>4. CASE Handled(p) \/ Reload(p)
  BY <1>4 DEF Handled, Reload, Inbounds
<1>5. CASE \E m \in updates : TakeUpdate(p, m)
  BY <1>5 DEF TakeUpdate, Free
<1>. QED
  BY <1>1, <1>2, <1>3, <1>4, <1>5 DEF Acts, OpenEditor, tasks, Save, Toggle, Retype,
     RetypeRow, UserDoc, UserBuild, UserRow, UserSend, InboundRow, InboundWrite, HandOff,
     UpdateRow

(* What replaces a row was an UPDATE_OBJECT on its way.                    *)
LEMMA ReplacingTimes ==
    ASSUME Shaped, NEW p \in Device, Acts(p), replacing'[p] # Null
    PROVE  \/ replacing'[p] = replacing[p]
           \/ \E m \in Upd : TakeUpdate(p, m) /\ m.to = p /\ replacing'[p].update = m
<1>. Rewrites BY DEF Shaped
<1>1. CASE \E m \in {x \in updates : x.to = p} : TakeUpdate(p, m)
  <2>1. PICK m \in updates : TakeUpdate(p, m) /\ m.to = p
    BY <1>1
  <2>2. m \in Upd
    BY <2>1 DEF TakeUpdate, Upd
  <2> PICK r : r = [update |-> m, saw |-> row[p]]
    OBVIOUS
  <2>3. replacing' = replacing \/ replacing' = [replacing EXCEPT ![p] = r]
    BY <2>1 DEF TakeUpdate
  <2>. QED BY <2>1, <2>2, <2>3 DEF Rewrites
<1>2. CASE UpdateRow(p) \/ Reload(p)
  BY <1>2 DEF UpdateRow, Reload, Rewrites
<1>3. CASE replacing' = replacing
  BY <1>3
<1>. QED
  BY <1>1, <1>2, <1>3 DEF Acts, OpenEditor, tasks, Save, Toggle, Retype, RetypeRow,
     UserDoc, UserBuild, UserRow, UserSend, InboundDoc, InboundBuild, InboundRow,
     InboundWrite, HandOff, TakeYjs

(* A retyping keeps what it has read and its time, until it writes.        *)
LEMMA RetypingTimes ==
    ASSUME Shaped, NEW p \in Device, Acts(p), NEW d \in Device, retyping'[d] # Null
    PROVE  \/ retyping'[d] = retyping[d] /\ (RetypeRow(p) => d # p)
           \/ /\ d = p /\ retyping'[d].saw = row[p] /\ retyping'[d].at = soon(p)
              /\ Upd' = Upd /\ Use("event")
              /\ \A e \in Device \ {p} : retyping'[e] = retyping[e]
<1>. Rewrites BY DEF Shaped
<1>1. CASE \E type \in {"text", "checklist"} : Retype(p, type)
  <2>1. PICK type : Retype(p, type)
    BY <1>1
  <2> PICK r : r = [type |-> type, saw |-> row[p], at |-> soon(p)]
    OBVIOUS
  <2>2. retyping' = [retyping EXCEPT ![p] = r]
    BY <2>1 DEF Retype
  <2>3. updates' = updates /\ Use("event") /\ ~RetypeRow(p)
    BY <2>1 DEF Retype, RetypeRow
  <2>. QED BY <2>2, <2>3 DEF Rewrites, Upd
<1>2. CASE RetypeRow(p) \/ Reload(p)
  BY <1>2 DEF RetypeRow, Reload, Rewrites
<1>3. CASE retyping' = retyping /\ ~RetypeRow(p)
  BY <1>3
<1>. QED
  BY <1>1, <1>2, <1>3 DEF Acts, OpenEditor, tasks, Save, Toggle, UserDoc, UserBuild,
     UserRow, UserSend, InboundDoc, InboundBuild, InboundRow, InboundWrite, HandOff,
     TakeUpdate, UpdateRow, TakeYjs

(* At first it is time 0.                                                  *)
LEMMA InTimeInit == TextInit => InTime
<1>. SUFFICES ASSUME TextInit PROVE InTime
  OBVIOUS
<1>1. \A d \in Device : row[d].at = 0
  <2>1. ASSUME NEW type, NEW c, NEW seed, Created(type, c, seed)
        PROVE  \A d \in Device : row[d].at = 0
    BY <2>1 DEF Created
  <2>. QED BY <2>1, Zenon DEF TextInit
<1>. QED BY <1>1 DEF TextInit, InTime, Upd, Clock

(* And no step writes a time ahead of it.                                  *)
LEMMA InTimeStep ==
    ASSUME Fast = {}, Shaped, Shaped', InTime, NEW p \in Device, Acts(p)
    PROVE  InTime'
<1>. Rows /\ Inbounds /\ Rewrites /\ Dated /\ Rows' BY DEF Shaped
<1>0. /\ now(p) = Clock /\ soon(p) = Clock + 1 /\ Clock \in Nat /\ Clock' \in Nat
      /\ Clock <= Clock' /\ (Toggle(p) \/ Use("event") => soon(p) <= Clock')
  BY ClockStep
<1>s. ASSUME NEW s, Stamps(p, s) PROVE s <= Clock'
  BY <1>0, <1>s DEF Stamps, RetypeRow, InTime, Rewrites
<1>1. ASSUME NEW m \in Upd' PROVE m.at <= Clock'
  <2>1. CASE m \in Upd
    BY <1>0, <2>1 DEF InTime, Dated
  <2>. QED BY <1>s, <2>1, UpdStep
<1>2. ASSUME NEW d \in Device PROVE row'[d].at <= Clock'
  <2>1. CASE d = p
    BY <1>0, <1>s, <2>1, RowTimes DEF InTime, Rows, Inbounds, Rewrites
  <2>. QED BY <1>0, <2>1, Elsewhere DEF InTime, Rows
<1>3. ASSUME NEW d \in Device, inbound'[d] # Null
      PROVE  inbound'[d].at <= Clock' /\ replacing'[d] = Null
  <2>1. CASE d = p
    BY <1>0, <1>3, <2>1, InboundTimes DEF InTime, Inbounds
  <2>. QED BY <1>0, <1>3, <2>1, Elsewhere DEF InTime, Inbounds
<1>4. ASSUME NEW d \in Device, replacing'[d] # Null
      PROVE  replacing'[d].update.at <= Clock'
  <2>1. CASE d = p
    BY <1>0, <1>4, <2>1, ReplacingTimes DEF InTime, Rewrites, Dated
  <2>. QED BY <1>0, <1>4, <2>1, Elsewhere DEF InTime, Rewrites
<1>5. ASSUME NEW d \in Device, retyping'[d] # Null
      PROVE  retyping'[d].saw.at < retyping'[d].at /\ retyping'[d].at <= Clock'
  <2>1. CASE retyping'[d] = retyping[d]
    <3>1. retyping[d].at \in Nat /\ retyping[d].at <= Clock /\ retyping[d].saw.at < retyping[d].at
      BY <1>5, <2>1 DEF InTime, Rewrites
    <3>. QED BY <1>0, <2>1, <3>1
  <2>2. CASE retyping'[d].saw = row[p] /\ retyping'[d].at = soon(p) /\ Use("event")
    <3>1. row[p].at \in Nat /\ row[p].at <= Clock
      BY DEF InTime, Rows
    <3>. QED BY <1>0, <2>2, <3>1
  <2>. QED BY <1>5, <2>1, <2>2, RetypingTimes
<1>6. ASSUME NEW d \in Device, retyping'[d] # Null, NEW m \in Upd'
      PROVE  m.at # retyping'[d].at
  <2>1. CASE retyping'[d] = retyping[d] /\ m \in Upd
    BY <1>6, <2>1 DEF InTime
  <2>2. CASE retyping'[d] = retyping[d] /\ (RetypeRow(p) => d # p) /\ Stamps(p, m.at)
    <3>1. retyping[d].at \in Nat /\ retyping[d].at <= Clock
      BY <1>6, <2>2 DEF InTime, Rewrites
    <3>2. RetypeRow(p) => retyping[p] # Null
      BY DEF RetypeRow
    <3>. QED BY <1>0, <1>6, <2>2, <3>1, <3>2 DEF Stamps, InTime
  <2>3. CASE Upd' = Upd /\ retyping'[d].at = soon(p)
    BY <1>0, <2>3 DEF InTime, Dated
  <2>. QED BY <1>6, <2>1, <2>2, <2>3, RetypingTimes, UpdStep
<1>7. ASSUME NEW d \in Device, NEW e \in Device \ {d}, retyping'[d] # Null, retyping'[e] # Null
      PROVE  retyping'[e].at # retyping'[d].at
  <2>1. CASE retyping'[d] = retyping[d] /\ retyping'[e] = retyping[e]
    BY <1>7, <2>1 DEF InTime
  <2>2. CASE retyping'[d] = retyping[d] /\ retyping'[e].at = soon(p)
    BY <1>0, <1>7, <2>2 DEF InTime, Rewrites
  <2>3. CASE retyping'[d].at = soon(p) /\ retyping'[e] = retyping[e]
    BY <1>0, <1>7, <2>3 DEF InTime, Rewrites
  <2>. QED BY <1>7, <2>1, <2>2, <2>3, RetypingTimes
<1>. QED BY <1>1, <1>2, <1>3, <1>4, <1>5, <1>6, <1>7 DEF InTime

-----------------------------------------------------------------------------
(* The latest update u of the whole row, of device u.by.  A device whose   *)
(* row was not spoilt has it, or it is on its way or being handled there;  *)
(* if it made the object a text, only the device it comes from may turn    *)
(* back, by an update that is older than it.                               *)
Spoilt(d) == d \in clobbered \union overtaken
Fits(m, d, u) ==
    /\ m.at <= u.at
    /\ m.at = u.at => m.content = u.content /\ m.type = u.type /\ d # u.by
Due(d, u) ==
    \/ \E m \in Upd : m.to = d /\ m.at = u.at
    \/ replacing[d] # Null /\ replacing[d].update.at = u.at
UpToDate(d, u) ==
    /\ row[d].at >= u.at
    /\ row[d].type = "checklist" => row[d].content = u.content /\ u.type # "text"
    /\ d = u.by => row[d].type = "checklist"
    /\ inbound[d] # Null /\ d # u.by => inbound[d].at >= u.at
Informed(d, u) ==
    \/ Spoilt(d)
    \/ /\ row[d].type = "checklist" => row[d].at <= u.at
       /\ Due(d, u) \/ (d = u.by /\ u.type = "text") \/ UpToDate(d, u)
LastUpdate(u) ==
    /\ u.at \in Nat /\ u.at <= Clock
    /\ \A m \in Upd : Fits(m, m.to, u)
    /\ \A d \in Device : replacing[d] # Null => Fits(replacing[d].update, d, u)
    /\ \A d \in Device : retyping[d] # Null => retyping[d].at # u.at
    /\ \A d \in Device : Informed(d, u)
Latest == reset = {} => \E u : LastUpdate(u)

(* At first it is the content the object was created with.                 *)
LEMMA LatestInit == ASSUME TextInit, NEW o PROVE Latest
<1>1. PICK n, c : \A d \in Device : row[d].type = n /\ row[d].content = c /\ row[d].at = 0
  <2>1. ASSUME NEW type, NEW c, NEW seed, Created(type, c, seed)
        PROVE  \A d \in Device : row[d].type = type /\ row[d].content = c /\ row[d].at = 0
    BY <2>1 DEF Created
  <2>. QED BY <2>1, Zenon DEF TextInit
<1> PICK u : u = [by |-> o, type |-> n, content |-> c, at |-> 0]
  OBVIOUS
<1>2. n \in {"text", "checklist"} \/ Device = {}
  BY <1>1 DEF TextInit, Created
<1>3. /\ updates = {} /\ Clock = 0
      /\ \A d \in Device : inbound[d] = Null /\ replacing[d] = Null /\ retyping[d] = Null
  BY DEF TextInit, Clock
<1>4. ASSUME NEW d \in Device PROVE Informed(d, u)
  BY <1>1, <1>2, <1>3 DEF Informed, UpToDate
<1>5. LastUpdate(u)
  BY <1>3, <1>4 DEF LastUpdate, Upd
<1>. QED BY <1>5 DEF Latest

(* Who does not act stays informed, unless a message to it is lost.        *)
LEMMA InformedElsewhere ==
    ASSUME Shaped, NEW p \in Device, Acts(p), NEW d \in Device, d # p, NEW u, Informed(d, u),
           \A m \in Upd : m \in Upd' \/ m.to = p
    PROVE  Informed(d, u)'
<1>1. /\ row'[d] = row[d] /\ inbound'[d] = inbound[d] /\ replacing'[d] = replacing[d]
      /\ Spoilt(d) => Spoilt(d)'
  BY Elsewhere, MarksStay DEF Spoilt
<1>2. Due(d, u) => Due(d, u)'
  BY <1>1 DEF Due
<1>3. UpToDate(d, u) => UpToDate(d, u)'
  BY <1>1 DEF UpToDate
<1>. QED BY <1>1, <1>2, <1>3 DEF Informed

(* So it is enough to look at the device that acts, when no update is new. *)
LEMMA LatestStays ==
    ASSUME Fast = {}, Shaped, Shaped', NEW p \in Device, Acts(p), NEW u, LastUpdate(u),
           \A m \in Upd' : m \in Upd \/ m.at < u.at,
           \A m \in Upd : m \in Upd' \/ m.to = p, Informed(p, u)'
    PROVE  LastUpdate(u)'
<1>. Rewrites BY DEF Shaped
<1>1. u.at \in Nat /\ u.at <= Clock'
  BY ClockStep DEF LastUpdate
<1>2. ASSUME NEW m \in Upd' PROVE Fits(m, m.to, u)'
  <2>1. CASE m \in Upd
    BY <2>1 DEF LastUpdate, Fits
  <2>2. CASE m.at < u.at
    <3>1. m.at \in Nat
      BY DEF Shaped, Dated
    <3>. QED BY <1>1, <2>2, <3>1 DEF Fits
  <2>. QED BY <2>1, <2>2
<1>3. ASSUME NEW d \in Device, replacing'[d] # Null PROVE Fits(replacing[d].update, d, u)'
  <2>1. CASE replacing'[d] = replacing[d]
    BY <1>3, <2>1 DEF LastUpdate, Fits
  <2>2. CASE d = p /\ \E m \in Upd : m.to = p /\ replacing'[d].update = m
    BY <2>2 DEF LastUpdate, Fits
  <2>. QED BY <1>3, <2>1, <2>2, ReplacingTimes, Elsewhere
<1>4. \A d \in Device : Informed(d, u)'
  BY InformedElsewhere DEF LastUpdate
<1>5. ASSUME NEW d \in Device, retyping'[d] # Null PROVE retyping'[d].at # u.at
  <2>1. CASE retyping'[d] = retyping[d]
    BY <1>5, <2>1 DEF LastUpdate
  <2>2. CASE retyping'[d].at = soon(p)
    <3>1. soon(p) = Clock + 1 /\ Clock \in Nat /\ u.at \in Nat /\ u.at <= Clock
      BY ClockStep DEF LastUpdate
    <3>. QED BY <2>2, <3>1
  <2>. QED BY <1>5, <2>1, <2>2, RetypingTimes
<1>. QED BY <1>1, <1>2, <1>3, <1>4, <1>5 DEF LastUpdate

(* An update with a later time is the latest, and on its way to everyone   *)
(* else.                                                                   *)
LEMMA LatestAnew ==
    ASSUME Fast = {}, Shaped, Shaped', InTime', NEW p \in Device, Acts(p), NEW v,
           LastUpdate(v), NEW s \in Nat, Stamps(p, s), s > v.at, s <= Clock',
           NEW n, NEW k, Update(p, n, k, s),
           \A d \in Device : retyping'[d] # Null => retyping'[d].at # s,
           \/ Spoilt(p)'
           \/ /\ row'[p].at = s
              /\ n # "text" => row'[p].type = "checklist" /\ row'[p].content = k
    PROVE  \E u : LastUpdate(u)'
<1>. Rows /\ Dated /\ Rewrites /\ Rows' BY DEF Shaped
<1>0. v.at \in Nat
  BY DEF LastUpdate
<1> PICK u : u = [by |-> p, type |-> n, content |-> k, at |-> s]
  OBVIOUS
<1>1. updates' = updates \union
         {[op |-> "update", to |-> e, type |-> n, content |-> k, at |-> s] : e \in Others(p)}
  BY DEF Update
<1>2. ASSUME NEW m \in Upd' PROVE Fits(m, m.to, u)'
  <2>1. CASE m \in Upd
    <3>1. m.at <= v.at /\ m.at \in Nat
      BY <2>1 DEF LastUpdate, Fits, Dated
    <3>2. m.at <= s /\ m.at # s
      BY <1>0, <3>1
    <3>. QED BY <3>2 DEF Fits
  <2>2. CASE m \notin Upd
    <3>1. PICK e \in Others(p) :
             m = [op |-> "update", to |-> e, type |-> n, content |-> k, at |-> s]
      BY <1>1, <2>2 DEF Upd
    <3>. QED BY <3>1 DEF Fits, Others
  <2>. QED BY <2>1, <2>2
<1>3. replacing' = replacing /\ inbound' = inbound
  BY DEF Stamps, Toggle, RetypeRow, tasks
<1>4. ASSUME NEW d \in Device, replacing'[d] # Null PROVE Fits(replacing[d].update, d, u)'
  <2>1. replacing[d].update.at <= v.at /\ replacing[d].update.at \in Nat
    BY <1>3, <1>4 DEF LastUpdate, Fits, Rewrites
  <2>2. replacing[d].update.at <= s /\ replacing[d].update.at # s
    BY <1>0, <2>1
  <2>. QED BY <1>3, <2>2 DEF Fits
<1>5. ASSUME NEW d \in Device PROVE Informed(d, u)'
  <2>1. CASE d # p
    <3>0. Spoilt(d)' \/ (row'[d].type = "checklist" => row'[d].at <= s)
      <4>1. Informed(d, v)
        BY DEF LastUpdate
      <4>2. row'[d] = row[d] /\ row[d].at \in Nat /\ (Spoilt(d) => Spoilt(d)')
        BY <2>1, Elsewhere, MarksStay DEF Spoilt, Rows
      <4>. QED BY <1>0, <4>1, <4>2 DEF Informed
    <3>1. [op |-> "update", to |-> d, type |-> n, content |-> k, at |-> s] \in Upd'
      BY <1>1, <2>1 DEF Upd, Others
    <3>2. Due(d, u)'
      BY <3>1 DEF Due
    <3>. QED BY <3>0, <3>2 DEF Informed
  <2>2. CASE d = p /\ (Spoilt(p)' \/ (n = "text" /\ row'[p].at = s))
    BY <2>2 DEF Informed
  <2>3. CASE d = p /\ row'[p].type = "checklist" /\ row'[p].content = k
               /\ row'[p].at = s /\ n # "text"
    <3>1. UpToDate(d, u)'
      BY <2>3 DEF UpToDate
    <3>. QED BY <2>3, <3>1 DEF Informed
  <2>. QED BY <2>1, <2>2, <2>3
<1>6. LastUpdate(u)'
  BY <1>2, <1>4, <1>5 DEF LastUpdate
<1>. QED BY <1>6

(* What a step that leaves row and updates alone leaves true.              *)
LEMMA InformedQuiet ==
    ASSUME Fast = {}, Shaped, Shaped', NEW p \in Device, Acts(p), NEW u,
           LastUpdate(u), row'[p] = row[p], Upd' = Upd, replacing'[p] = replacing[p]
    PROVE  Informed(p, u)'
<1>1. Informed(p, u) /\ u.at \in Nat /\ u.at <= Clock
  BY DEF LastUpdate
<1>2. \/ inbound'[p] = Null \/ inbound'[p].at = Clock
      \/ inbound[p] # Null /\ inbound'[p].at = inbound[p].at
  <2>1. now(p) = Clock
    BY ClockStep
  <2>2. CASE inbound'[p] # Null
    BY <2>1, <2>2, InboundTimes
  <2>. QED BY <2>2
<1>3. Spoilt(p) => Spoilt(p)'
  BY MarksStay DEF Spoilt
<1>4. Due(p, u) => Due(p, u)'
  BY DEF Due
<1>5. UpToDate(p, u) => UpToDate(p, u)'
  BY <1>1, <1>2, ClockStep DEF UpToDate
<1>. QED BY <1>1, <1>3, <1>4, <1>5 DEF Informed

(* The handler of an UPDATE_OBJECT keeps the later of update and row.      *)
LEMMA InformedTakes ==
    ASSUME NullIsApart, Shaped, InTime, NEW p \in Device, Acts(p), NEW u, LastUpdate(u),
           NEW m \in Upd, m.to = p, TakeUpdate(p, m)
    PROVE  Informed(p, u)'
<1>. Rows /\ Rewrites /\ Dated BY DEF Shaped
<1>1. Informed(p, u) /\ u.at \in Nat /\ Fits(m, p, u)
  BY DEF LastUpdate
<1>2. /\ row' = row /\ inbound' = inbound /\ inbound[p] = Null /\ replacing[p] = Null
      /\ Upd' = Upd \ {m} /\ clobbered' = clobbered /\ overtaken' = overtaken
  BY DEF TakeUpdate, Free, store, ghosts, Upd
<1>3. CASE Spoilt(p)
  BY <1>2, <1>3 DEF Spoilt, Informed
<1>4. CASE ~Spoilt(p) /\ m.at = u.at /\ Wins(m, p)
  <2> PICK r : r = [update |-> m, saw |-> row[p]]
    OBVIOUS
  <2>1. replacing'[p] = r /\ r # Null
    BY <1>4 DEF TakeUpdate, Rewrites, NullIsApart
  <2>2. Due(p, u)'
    BY <1>4, <2>1 DEF Due
  <2>. QED BY <1>1, <1>2, <1>4, <2>2 DEF Informed
<1>5. CASE ~Spoilt(p) /\ m.at = u.at /\ ~Wins(m, p)
  <2>1. row[p].at > u.at /\ row[p].at \in Nat /\ p # u.by
    BY <1>1, <1>5 DEF Wins, Fits, Dated, Rows
  <2>2. row[p].type # "checklist" /\ row[p].at >= u.at
    BY <1>1, <1>5, <2>1 DEF Informed
  <2>3. UpToDate(p, u)'
    BY <1>2, <2>1, <2>2 DEF UpToDate
  <2>. QED BY <1>2, <2>2, <2>3 DEF Informed
<1>6. CASE ~Spoilt(p) /\ m.at # u.at
  <2>1. Due(p, u) => Due(p, u)'
    BY <1>2, <1>6 DEF Due
  <2>2. UpToDate(p, u) => UpToDate(p, u)'
    BY <1>2 DEF UpToDate
  <2>. QED BY <1>1, <1>2, <1>6, <2>1, <2>2 DEF Informed
<1>. QED BY <1>3, <1>4, <1>5, <1>6

(* When it writes, the row is the one it has read, or is spoilt.           *)
LEMMA InformedReplaces ==
    ASSUME NullIsApart, Shaped, InTime, NEW p \in Device, Acts(p), NEW u, LastUpdate(u),
           UpdateRow(p)
    PROVE  Informed(p, u)'
<1>. Rows /\ Rewrites /\ Inbounds BY DEF Shaped
<1> PICK m : m = replacing[p].update
  OBVIOUS
<1>1. Informed(p, u) /\ u.at \in Nat /\ Fits(m, p, u) /\ m.at \in Nat
  BY DEF LastUpdate, UpdateRow, Rewrites
<1>2. /\ replacing[p] # Null /\ inbound' = inbound /\ inbound[p] = Null /\ Upd' = Upd
      /\ clobbered' = clobbered
  BY DEF UpdateRow, InTime, Upd
<1>3. /\ row'[p].at = m.at /\ row'[p].content = m.content
      /\ row'[p].type = IF m.type = Null THEN row[p].type ELSE m.type
  BY DEF UpdateRow, Rows
<1>4. CASE Spoilt(p) \/ row[p] # replacing[p].saw
  <2>1. Spoilt(p)'
    BY <1>4, MarksStay DEF UpdateRow, Overtakes, Spoilt
  <2>. QED BY <2>1 DEF Informed
<1>5. CASE ~Spoilt(p) /\ row[p] = replacing[p].saw
  <2>1. m.at >= row[p].at /\ row[p].at \in Nat /\ m.at <= u.at
    BY <1>1, <1>2, <1>5 DEF Rewrites, Rows, Fits
  <2>2. CASE m.at = u.at
    <3>1. m.content = u.content /\ m.type = u.type /\ p # u.by
      BY <1>1, <2>2 DEF Fits
    <3>2. UpToDate(p, u)'
      BY <1>1, <1>2, <1>3, <2>2, <3>1 DEF UpToDate, NullIsApart
    <3>. QED BY <1>1, <1>3, <2>1, <3>2 DEF Informed
  <2>3. CASE m.at < u.at
    <3>1. ~UpToDate(p, u)
      BY <1>1, <2>1, <2>3 DEF UpToDate
    <3>2. Due(p, u) => Due(p, u)'
      BY <1>1, <1>2, <2>3 DEF Due
    <3>. QED BY <1>1, <1>3, <1>5, <2>1, <3>1, <3>2 DEF Informed
  <2>. QED BY <1>1, <2>1, <2>2, <2>3
<1>. QED BY <1>4, <1>5

(* A text that is written, over a text, is later than the last update or   *)
(* leaves the device as it is.                                             *)
LEMMA InformedWrites ==
    ASSUME Shaped, Shaped', NEW p \in Device, Acts(p), NEW u, LastUpdate(u), Upd' = Upd,
           replacing' = replacing, inbound'[p] = inbound[p] \/ inbound'[p] = Null,
           row'[p].type = row[p].type, row[p].type = "text" \/ p \in clobbered',
           \/ row'[p].at >= u.at
           \/ inbound[p] # Null /\ row'[p].at = inbound[p].at
    PROVE  Informed(p, u)'
<1>1. Informed(p, u)
  BY DEF LastUpdate
<1>2. CASE Spoilt(p) \/ p \in clobbered'
  BY <1>2, MarksStay DEF Spoilt, Informed
<1>3. CASE ~Spoilt(p) /\ row[p].type = "text"
  <2>1. Due(p, u) => Due(p, u)'
    BY DEF Due
  <2>2. UpToDate(p, u) => UpToDate(p, u)'
    BY <1>3 DEF UpToDate
  <2>. QED BY <1>1, <1>3, <2>1, <2>2 DEF Informed
<1>. QED BY <1>2, <1>3

(* A retyping that is older than the last update has read a row that is    *)
(* older yet; if the row is another by now, it is spoilt.                  *)
LEMMA InformedLate ==
    ASSUME Shaped, InTime, NEW p \in Device, Acts(p), NEW u, LastUpdate(u),
           RetypeRow(p), retyping[p].at < u.at, row'[p].at = retyping[p].at
    PROVE  Informed(p, u)'
<1>. Rows /\ Rewrites BY DEF Shaped
<1>1. /\ Informed(p, u) /\ u.at \in Nat /\ retyping[p].at \in Nat
      /\ retyping[p].saw.at < retyping[p].at
  BY DEF LastUpdate, RetypeRow, Rewrites, InTime
<1>2. Due(p, u) => Due(p, u)'
  <2>1. Upd \subseteq Upd' /\ replacing' = replacing
    BY DEF RetypeRow, Update, Upd
  <2>. QED BY <2>1 DEF Due
<1>3. CASE Spoilt(p) \/ row[p] # retyping[p].saw
  <2>1. Spoilt(p)'
    BY <1>3, MarksStay DEF RetypeRow, Overtakes, Spoilt
  <2>. QED BY <2>1 DEF Informed
<1>4. CASE ~Spoilt(p) /\ row[p] = retyping[p].saw
  <2>1. row[p].at \in Nat /\ row[p].at < u.at
    BY <1>1, <1>4 DEF Rows
  <2>2. ~UpToDate(p, u)
    BY <1>1, <2>1 DEF UpToDate
  <2>. QED BY <1>1, <1>2, <1>4, <2>2 DEF Informed
<1>. QED BY <1>3, <1>4

(* A replacement of the row is the latest update, or older than it and of  *)
(* a row that is not up to date; any other writing of a row is of its time *)
(* or of a text.                                                           *)
LEMMA LatestStep ==
    ASSUME NullIsApart, Fast = {}, Shaped, Shaped', InTime, InTime', Latest,
           NEW p \in Device, Acts(p)
    PROVE  Latest'
<1>. SUFFICES ASSUME reset' = {} PROVE \E u : LastUpdate(u)'
  BY DEF Latest
<1>. Rows /\ Inbounds /\ Rewrites /\ Dated BY DEF Shaped
<1>0. reset = {} /\ ~Reload(p)
  BY MarksStay DEF Reload
<1> PICK u : LastUpdate(u)
  BY <1>0 DEF Latest
<1>1. now(p) = Clock /\ u.at \in Nat /\ u.at <= Clock
  BY ClockStep DEF LastUpdate
<1>2. CASE row' = row /\ Upd' = Upd /\ replacing' = replacing
  BY <1>2, InformedQuiet, LatestStays
<1>3. CASE Toggle(p)
  <2>0. soon(p) = Clock + 1 /\ Clock' = Clock + 1 /\ Clock \in Nat
    BY <1>3, ClockStep
  <2>1. PICK k : /\ row' = [row EXCEPT ![p].content = k, ![p].at = soon(p)]
                 /\ Update(p, Null, k, soon(p))
    BY <1>3, Zenon DEF Toggle, tasks
  <2>2. row[p].type = "checklist"
    BY <1>3 DEF Toggle
  <2>3. row'[p].type = "checklist" /\ row'[p].content = k /\ row'[p].at = soon(p)
    <3>1. row' \in {[row EXCEPT ![p].content = k, ![p].at = soon(p)]}
      BY <2>1
    <3>. QED BY <2>2, <3>1 DEF Rows
  <2>4. \A d \in Device : retyping'[d] # Null => retyping'[d].at # soon(p)
    BY <1>3, <2>0 DEF Toggle, tasks, InTime, Rewrites
  <2>5. Stamps(p, soon(p)) /\ soon(p) \in Nat /\ soon(p) > u.at /\ soon(p) <= Clock'
    BY <1>1, <1>3, <2>0 DEF Stamps
  <2>. QED BY <2>1, <2>3, <2>4, <2>5, LatestAnew
<1>4. CASE RetypeRow(p)
  <2> PICK n, k, s : /\ n = retyping[p].type /\ s = retyping[p].at
                     /\ k = Converted(retyping[p].saw.type, n, retyping[p].saw.content)
    OBVIOUS
  <2>1. /\ row'[p] = [type |-> n, content |-> k, at |-> s] /\ Update(p, n, k, s)
        /\ retyping[p] # Null /\ replacing' = replacing /\ inbound' = inbound
    BY <1>4 DEF RetypeRow, Rows
  <2>2. n \in {"text", "checklist"} /\ s \in Nat /\ s <= Clock /\ s # u.at
    BY <2>1 DEF Rewrites, InTime, LastUpdate
  <2>3. s <= Clock' /\ Stamps(p, s)
    BY <1>4, <2>2, ClockStep DEF Stamps
  <2>4. \A d \in Device : retyping'[d] # Null => retyping'[d].at # s
    <3>1. \A d \in Device : retyping'[d] # Null => d # p /\ retyping'[d] = retyping[d]
      BY <1>4 DEF RetypeRow, Rewrites
    <3>. QED BY <2>1, <3>1 DEF InTime
  <2>5. CASE s > u.at
    <3>1. n # "text" => row'[p].type = "checklist" /\ row'[p].content = k
      BY <2>1, <2>2
    <3>2. row'[p].at = s
      BY <2>1
    <3>. QED BY <2>1, <2>2, <2>3, <2>4, <2>5, <3>1, <3>2, LatestAnew
  <2>6. CASE s < u.at
    <3>1. Informed(p, u)'
      BY <1>4, <2>1, <2>2, <2>6, InformedLate
    <3>2. \A m \in Upd' : m \in Upd \/ m.at < u.at
      BY <2>1, <2>6 DEF Update, Upd
    <3>3. Upd \subseteq Upd'
      BY <2>1 DEF Update, Upd
    <3>. QED BY <3>1, <3>2, <3>3, LatestStays
  <2>. QED BY <1>1, <2>2, <2>5, <2>6
<1>5. CASE UserRow(p)
  <2>1. PICK k : row' \in {[row EXCEPT ![p].at = now(p), ![p].content = k]}
    BY <1>5 DEF UserRow
  <2>2. row'[p].type = row[p].type /\ row'[p].at = Clock
    BY <1>1, <2>1 DEF Rows
  <2>3. /\ Upd' = Upd /\ inbound' = inbound /\ replacing' = replacing
        /\ row[p].type = "text" \/ p \in clobbered'
    BY <1>5 DEF UserRow, Upd
  <2>4. Informed(p, u)'
    BY <1>1, <2>2, <2>3, InformedWrites
  <2>. QED BY <2>3, <2>4, LatestStays
<1>6. CASE InboundWrite(p)
  <2>1. Upd' = Upd /\ replacing' = replacing /\ inbound[p] # Null
    BY <1>6 DEF InboundWrite, Upd
  <2>2. CASE row' = row
    BY <1>2, <2>1, <2>2
  <2>3. CASE row' # row
    <3>1. PICK k : row' \in {[row EXCEPT ![p].content = k, ![p].at = inbound[p].at]}
      BY <1>6, <2>3 DEF InboundWrite
    <3>2. row'[p].type = row[p].type /\ row'[p].at = inbound[p].at
      BY <3>1 DEF Rows
    <3>3. inbound'[p] = Null /\ (row[p].type = "text" \/ p \in clobbered')
      BY <1>6, <2>3 DEF InboundWrite, Handled, Inbounds
    <3>4. Informed(p, u)'
      BY <2>1, <3>2, <3>3, InformedWrites
    <3>. QED BY <2>1, <3>4, LatestStays
  <2>. QED BY <2>2, <2>3
<1>7. CASE \E m \in {x \in updates : x.to = p} : TakeUpdate(p, m)
  <2>1. PICK m \in Upd : TakeUpdate(p, m) /\ m.to = p
    BY <1>7 DEF TakeUpdate, Upd
  <2>2. Upd' = Upd \ {m}
    BY <2>1 DEF TakeUpdate, Upd
  <2>3. Informed(p, u)'
    BY <2>1, InformedTakes
  <2>. QED BY <2>1, <2>2, <2>3, LatestStays
<1>8. CASE UpdateRow(p)
  <2>1. Upd' = Upd
    BY <1>8 DEF UpdateRow, Upd
  <2>2. Informed(p, u)'
    BY <1>8, InformedReplaces
  <2>. QED BY <2>1, <2>2, LatestStays
<1>9. CASE UserSend(p) \/ \E m \in updates : TakeYjs(p, m)
  BY <1>2, <1>9 DEF UserSend, TakeYjs, Upd, store
<1>. QED
  BY <1>0, <1>2, <1>3, <1>4, <1>5, <1>6, <1>7, <1>8, <1>9 DEF Acts, OpenEditor, tasks,
     Save, Retype, UserDoc, UserBuild, InboundDoc, InboundBuild, InboundRow, HandOff,
     store, Upd

(* When nothing is on its way and nobody is at work, devices show the same *)
(* text and the same items, in whatever order the edits arrived (editText, *)
(* updateObjectContent), with the exceptions the property names and while  *)
(* the clocks agree.                                                       *)
THEOREM DevicesAgree ==
    ASSUME NullIsApart, Fast = {}
    PROVE  TextSpec => []Agree
<1>. DEFINE IInv == Shaped /\ Persisted /\ Shown /\ Spread /\ Sided /\ InTime /\ Latest
<1>1. TextInit => IInv
  BY ShapedInit, PersistedInit, ShownInit, SpreadInit, SidedInit, InTimeInit, LatestInit
<1>2. IInv /\ [TextNext]_textVars => IInv'
  <2>. SUFFICES ASSUME IInv, [TextNext]_textVars PROVE IInv'
    OBVIOUS
  <2>1. CASE TextNext
    <3> PICK p \in Device : Acts(p)
      BY <2>1, NextActs
    <3>1. Shaped' /\ Persisted' /\ Shown' /\ Spread' /\ Sided'
      BY ShapedStep, PersistedStep, ShownStep, SpreadStep, SidedStep
    <3>2. InTime'
      BY <3>1, InTimeStep
    <3>. QED BY <3>1, <3>2, LatestStep
  <2>2. CASE UNCHANGED textVars
    <3>1. Shaped' /\ Persisted'
      BY <2>2 DEF textVars, store, tasks, ghosts, Shaped, Rows, Tables, Users, Inbounds,
         Rewrites, Counts, Dated, Upd, Persisted, Kept, Written, Steady
    <3>2. Shown' /\ Sided'
      BY <2>2 DEF textVars, store, tasks, ghosts, Shown, Excepted, Mirrored, Writing, Sided
    <3>3. Spread'
      BY <2>2 DEF textVars, store, tasks, ghosts, Spread, Editing, Everywhere, Covers,
         Reach
    <3>4. InTime'
      BY <2>2 DEF textVars, store, tasks, ghosts, InTime, Upd, Clock
    <3>5. Latest'
      BY <2>2 DEF textVars, store, tasks, ghosts, Latest, LastUpdate, Fits, Informed,
         Spoilt, Due, UpToDate, Upd, Clock
    <3>. QED BY <3>1, <3>2, <3>3, <3>4, <3>5
  <2>. QED BY <2>1, <2>2
<1>3. IInv => Agree
  <2>. SUFFICES ASSUME IInv, AtRest, reset = {} PROVE TextsAgree /\ ListsAgree
    BY DEF Agree, TextsAgree, ListsAgree
  <2>1. updates = {}
        /\ \A d \in Device : user[d] = Null /\ inbound[d] = Null /\ replacing[d] = Null
    BY DEF AtRest, Resting, Free
  <2>2. ListsAgree
    <3> PICK u : LastUpdate(u)
      BY DEF Latest
    <3>1. \A d \in Device : ~Due(d, u)
      BY <2>1 DEF Due, Upd
    <3>2. \A d \in Checklists \ (clobbered \union overtaken) :
            \/ d = u.by /\ u.type = "text"
            \/ row[d].content = u.content /\ u.type # "text"
      <4>. TAKE d \in Checklists \ (clobbered \union overtaken)
      <4>1. d \in Device /\ row[d].type = "checklist" /\ ~Spoilt(d)
        BY DEF Checklists, Spoilt
      <4>2. Informed(d, u) /\ ~Due(d, u)
        BY <3>1, <4>1 DEF LastUpdate
      <4>. QED BY <4>1, <4>2 DEF Informed, UpToDate
    <3>. QED BY <3>2 DEF ListsAgree
  <2>3. ASSUME forked = {}, NEW d \in Device \ (overruled \union overtaken),
               NEW e \in Device \ (overruled \union overtaken),
               disk[d] # Null, disk[e] # Null
        PROVE  row[d].content = row[e].content
    <3>1. CASE row[d].type = "checklist"
      BY <2>2, <3>1 DEF Sided, ListsAgree, Checklists
    <3>2. CASE row[d].type = "text"
      <4>1. ASSUME NEW a \in Device, NEW b \in Device, disk[a] # Null, disk[b] # Null
            PROVE  Within(disk[a], disk[b])
        <5>1. Everywhere(Loaded(disk[a]))
          BY <2>1, <2>3, <4>1 DEF Spread, Editing
        <5>. QED BY <2>1, <4>1, <5>1 DEF Everywhere, Covers, Reach, Within, Loaded,
             Half
      <4>2. LettersOf(disk[d]) = LettersOf(disk[e])
        BY <2>3, <4>1 DEF Within, LettersOf
      <4>3. row[e].type = "text"
        BY <3>2 DEF Sided
      <4>4. row[d].content = TextContent(LettersOf(disk[d]))
              /\ row[e].content = TextContent(LettersOf(disk[e]))
        BY <2>1, <2>3, <3>2, <4>3 DEF Shown, Excepted, Mirrored, Writing
      <4>. QED BY <4>2, <4>4
    <3>3. row[d].type \in {"text", "checklist"}
      BY DEF Sided
    <3>. QED BY <3>1, <3>2, <3>3
  <2>. QED BY <2>2, <2>3 DEF TextsAgree
<1>. QED BY <1>1, <1>2, <1>3, PTL DEF TextSpec
=============================================================================
