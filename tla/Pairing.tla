------------------------------ MODULE Pairing ------------------------------
(***************************************************************************)
(* Pairing over the HTTP API: the workspace record of the registry         *)
(* (apps/server/src/registry.ts, workspaces.ts, owner-auth.ts), the panel  *)
(* of the owner that shows a code (Pair.tsx) and the devices that redeem   *)
(* one: pages (app.ts) and agents (apps/agent/src/join.ts, state.ts).      *)
(*                                                                         *)
(* A code stands for the pairing token and for everything made with it:    *)
(* the rotation request that installs the token, its nonce and its         *)
(* signature.  A rotation request may reach the server more than once, and *)
(* late.  Time is counted in units of which AuthWindow make one minute;    *)
(* the clock of the owner may be ahead of the server's.                    *)
(***************************************************************************)
EXTENDS Integers, Sequences, FiniteSets

CONSTANTS
  Guest,        (* the devices that join                                    *)
  Agent,        (* those of them that are agents; the others are pages      *)
  Code, NoCode,
  First,        (* the code made with the workspace; the others are rotated in *)
  Ttl,          (* DEFAULT_PAIRING_TTL_MS                                   *)
  AuthWindow,   (* PAIRING_ROTATION_AUTH_MAX_AGE_MS                         *)
  MaxSkew,      (* MAX_FUTURE_SKEW_MS                                       *)
  Ahead,        (* by how much the owner's clock may be ahead               *)
  MaxTime       (* bound on the clock                                       *)

ASSUME AgentsAreGuests == Agent \subseteq Guest
ASSUME NoCodeIsNone == NoCode \notin Code /\ First \in Code
ASSUME Durations ==
  /\ Ttl \in Nat /\ AuthWindow \in Nat \ {0} /\ MaxSkew \in Nat /\ MaxTime \in Nat
  /\ Ahead \subseteq Nat

VARIABLES
  now, ahead,
  exists,     \* the registry holds the workspace
  pairing,    \* its current pairing: token, expiry, whether it is used
  nonces,     \* pairingRotationNonces: until when each is remembered
  devices,    \* the guests in the record
  issuedAt,   \* issuedAt[c]: when the owner made code c, -1 if it has not
  checking,   \* the requests whose signature is being checked
  pending,    \* the requests the panel waits for
  answered,   \* those of them the server has granted
  initial,    \* initialPairing: the code of the creation, until a reload
  shown,      \* the code on the panel, NoCode when it is closed
  unclear,    \* history: a request came while or after another was served
  legible,    \* the codes that were on the panel: what a guest can redeem
  stage,      \* stage[d]: where the joining of d stands
  installs,   \* history: installs[c]: when c became the pairing
  joins       \* history: joins[c]: how often c was redeemed

server  == <<exists, pairing, nonces, devices, checking>>
panel   == <<issuedAt, pending, answered, initial, shown, legible, unclear>>
history == <<installs, joins>>
vars    == <<now, ahead, server, panel, stage, history>>

NoPairing == [code |-> NoCode, expiresAt |-> 0, used |-> TRUE]
Fresh(c) == [code |-> c, expiresAt |-> issuedAt'[c] + Ttl, used |-> FALSE]
Unmade == {c \in Code : issuedAt[c] = -1}

Init ==
  /\ now = 0 /\ ahead \in Ahead
  /\ exists = FALSE /\ pairing = NoPairing /\ nonces = {} /\ devices = {}
  /\ issuedAt = [c \in Code |-> -1]
  /\ checking = {} /\ pending = {} /\ answered = {}
  /\ initial = NoCode /\ shown = NoCode /\ legible = {} /\ unclear = FALSE
  /\ stage = [d \in Guest |-> "out"]
  /\ installs = [c \in Code |-> <<>>]
  /\ joins = [c \in Code |-> 0]

InstallIfUsed(c) ==                 \* mutant: an unused token is left in place
  /\ pairing' = IF pairing.used THEN Fresh(c) ELSE pairing
  /\ installs' = [installs EXCEPT ![c] = Append(@, now)]
Install(c) ==
  /\ pairing' = Fresh(c)
  /\ installs' = [installs EXCEPT ![c] = Append(@, now)]

Tick ==
  /\ now < MaxTime /\ now' = now + 1
  /\ UNCHANGED <<ahead, server, panel, stage, history>>

----------------------------------------------------------------------------
(* The owner                                                                *)

(* createPairingPayload, with the owner's clock.                            *)
Make(c) ==
  /\ c \in Unmade
  /\ issuedAt' = [issuedAt EXCEPT ![c] = now + ahead]

(* The code is on the panel and in the link to copy: the token, the expiry  *)
(* and the workspace secret, but not the address of the relay.              *)
Display(c) == shown' = c /\ legible' = legible \cup {c}

(* createWorkspaceOnServer, and create of the registry.                     *)
Create ==
  /\ Make(First)
  /\ exists' = TRUE /\ nonces' = {} /\ devices' = {}
  /\ Install(First)
  /\ initial' = First
  /\ UNCHANGED <<now, ahead, checking, pending, answered, shown, legible, unclear, stage,
                 joins>>

(* rotatePairing: the request is signed over the new token, its expiry, the *)
(* time and a nonce, and sent.                                              *)
Asks(c) ==
  /\ First \notin Unmade /\ Make(c)
  /\ pending' = pending \cup {c}

(* regenerate: nothing keeps it from running twice.                         *)
Regenerate(c) ==
  /\ Asks(c)
  /\ unclear' = (unclear \/ pending # {} \/ checking # {})
  /\ UNCHANGED <<now, ahead, server, answered, initial, shown, legible, stage, history>>

(* The panel opens with the code of the creation, whatever became of it.    *)
OpenPanel ==
  /\ shown = NoCode /\ initial # NoCode /\ Display(initial)
  /\ unclear' = (unclear \/ pairing.code # initial)
  /\ UNCHANGED <<now, ahead, server, issuedAt, pending, answered, initial, stage,
                 history>>

ClosePanel ==
  /\ shown # NoCode /\ shown' = NoCode
  /\ UNCHANGED <<now, ahead, server, issuedAt, pending, answered, initial,
                 legible, unclear, stage, history>>

(* The answer of the server reaches the panel.                              *)
Show(c) ==
  /\ c \in answered
  /\ Display(c)
  /\ pending' = pending \ {c} /\ answered' = answered \ {c}
  /\ UNCHANGED <<now, ahead, server, issuedAt, initial, unclear, stage, history>>

(* The request fails, or seems to.                                          *)
Fail(c) ==
  /\ c \in pending \ answered
  /\ pending' = pending \ {c} /\ unclear' = TRUE
  /\ UNCHANGED <<now, ahead, server, issuedAt, answered, initial, shown, legible,
                 stage, history>>

(* The page is reloaded: its requests stay on their way to the server.      *)
Reload ==
  /\ shown' = NoCode /\ initial' = NoCode /\ answered' = {}
  /\ unclear' = (unclear \/ pending # {})
  /\ pending' = {}
  /\ UNCHANGED <<now, ahead, server, issuedAt, legible, stage, history>>

----------------------------------------------------------------------------
(* The server                                                               *)

InTime(c) ==
  /\ now - issuedAt[c] <= AuthWindow
  /\ issuedAt[c] - now <= MaxSkew

(* The request arrives, for the first time or again, and its signature is   *)
(* being checked.                                                           *)
Check(c) ==
  /\ exists /\ c \notin Unmade /\ c # First /\ c \notin checking
  /\ InTime(c)
  /\ checking' = checking \cup {c}
  /\ unclear' = (unclear \/ c \notin pending \ answered)
  /\ UNCHANGED <<now, ahead, exists, pairing, nonces, devices, issuedAt, pending,
                 answered, initial, shown, legible, stage, history>>

ForgetsAll == {}                                \* mutant: the map is cleared
Remembered == {n \in nonces : n.until > now}

Grant(c) == IF c \in pending THEN answered \cup {c} ELSE answered

(* rotatePairing, after the signature check.                                *)
Rotate(c) ==
  /\ c \in checking
  /\ checking' = checking \ {c}
  /\ IF ~exists THEN UNCHANGED <<pairing, nonces, installs, answered>>
     ELSE IF \E n \in Remembered : n.code = c
     THEN /\ nonces' = Remembered
          /\ UNCHANGED <<pairing, installs, answered>>
     ELSE /\ nonces' = Remembered \cup {[code |-> c, until |-> now + AuthWindow]}
          /\ UNCHANGED issuedAt /\ Install(c)
          /\ answered' = Grant(c)
  /\ UNCHANGED <<now, ahead, exists, devices, issuedAt, pending, initial, shown,
                 legible, unclear, stage, joins>>

(* The process of the relay is started anew: the registry is in memory.     *)
Restart ==
  /\ exists
  /\ exists' = FALSE /\ pairing' = NoPairing /\ nonces' = {} /\ devices' = {}
  /\ checking' = {}
  /\ UNCHANGED <<now, ahead, panel, stage, history>>

----------------------------------------------------------------------------
(* A device that redeems a code                                             *)

(* A page reads the code from a link, or as it is typed in, also while it   *)
(* is in a workspace; it keeps one identity.                                *)
PageReads(d, c) == d \notin Agent /\ stage[d] \in {"out", "in"} /\ c \in legible

(* An agent reads it once, with an identity made for this attempt.          *)
AgentReads(d, c) == d \in Agent /\ stage[d] = "out" /\ c \in legible

Redeems(d, c) == PageReads(d, c) \/ AgentReads(d, c)

StillOpen(p) == p                            \* mutant: the token is not spent
Spent(p) == [p EXCEPT !.used = TRUE]

(* join, and the answer with the roster.                                    *)
Join(d, c) ==
  /\ exists /\ Redeems(d, c)
  /\ pairing.code = c /\ ~pairing.used /\ now <= pairing.expiresAt
  /\ pairing' = Spent(pairing)
  /\ devices' = devices \cup {d}
  /\ stage' = [stage EXCEPT ![d] = "answered"]
  /\ joins' = [joins EXCEPT ![c] = @ + 1]
  /\ UNCHANGED <<now, ahead, exists, nonces, checking, panel, installs>>

(* The workspace is written to the settings of the page.                    *)
Store(d) ==
  /\ d \notin Agent /\ stage[d] = "answered"
  /\ stage' = [stage EXCEPT ![d] = "in"]
  /\ UNCHANGED <<now, ahead, server, panel, history>>

(* An agent writes its identity with the workspace, once it has joined; it  *)
(* redeems another code only under another identity.                        *)
SaveState(d) ==
  /\ d \in Agent /\ stage[d] = "answered"
  /\ stage' = [stage EXCEPT ![d] = "saved"]
  /\ UNCHANGED <<now, ahead, server, panel, history>>

(* The page goes before that: the code is spent, the device is listed, and  *)
(* knows nothing of it.                                                     *)
Abandon(d) ==
  /\ d \notin Agent /\ stage[d] = "answered"
  /\ stage' = [stage EXCEPT ![d] = "out"]
  /\ UNCHANGED <<now, ahead, server, panel, history>>

(* So does the agent, and takes its identity with it.                       *)
Dies(d) ==
  /\ d \in Agent /\ stage[d] = "answered"
  /\ stage' = [stage EXCEPT ![d] = "gone"]
  /\ UNCHANGED <<now, ahead, server, panel, history>>

Next ==
  \/ Tick \/ Create \/ OpenPanel \/ ClosePanel \/ Reload \/ Restart
  \/ \E c \in Code : Regenerate(c) \/ Show(c) \/ Fail(c) \/ Check(c) \/ Rotate(c)
  \/ \E d \in Guest :
       \/ Store(d) \/ SaveState(d) \/ Abandon(d) \/ Dies(d)
       \/ \E c \in Code : Join(d, c)

Spec == Init /\ [][Next]_vars

----------------------------------------------------------------------------
TypeOK ==
  /\ now \in 0..MaxTime /\ ahead \in Ahead
  /\ exists \in BOOLEAN /\ unclear \in BOOLEAN
  /\ pairing \in [code : Code \cup {NoCode}, expiresAt : Nat, used : BOOLEAN]
  /\ nonces \subseteq [code : Code, until : Nat]
  /\ devices \subseteq Guest
  /\ issuedAt \in [Code -> Nat \cup {-1}]
  /\ checking \subseteq Code /\ pending \subseteq Code /\ answered \subseteq pending
  /\ initial \in Code \cup {NoCode} /\ shown \in Code \cup {NoCode}
  /\ legible \subseteq Code
  /\ stage \in [Guest -> {"out", "answered", "in", "saved", "gone"}]
  /\ installs \in [Code -> Seq(Nat)]
  /\ joins \in [Code -> Nat]

(* A pairing token is single-use (registry.ts, "single-use, short-lived"):  *)
(* each time it is installed it lets in one device at most.                 *)
SingleUse == \A c \in Code : joins[c] <= Len(installs[c])

(* A rotation request that arrives twice takes effect once, for as long as  *)
(* its nonce is remembered.  It is remembered for a minute, and a request   *)
(* is good until a minute after it was made: one that comes again at that   *)
(* very moment, that was made on a clock ahead of the server's, or whose    *)
(* signature takes that long to check, is served again.                     *)
OnceInWindow ==
  \A c \in Code : \A i, j \in DOMAIN installs[c] :
    i < j => installs[c][j] - installs[c][i] >= AuthWindow

(* The code on the panel is the registry's current one, used or not, unless *)
(* one is under way, rotations overlapped, came again or went unanswered,   *)
(* the panel was opened anew after one, or the relay was restarted.         *)
ShownIsCurrent ==
  shown # NoCode /\ exists /\ ~unclear /\ pending = {} => pairing.code = shown
=============================================================================
