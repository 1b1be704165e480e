---------------------------- MODULE PairingProofs ----------------------------
(***************************************************************************)
(* Proofs about pairing: types, that a code lets in one device each time   *)
(* it is installed, and that a rotation request which arrives again takes  *)
(* effect at most once in the time its nonce is remembered, and that the   *)
(* panel shows the current code, for any number of codes and devices, any  *)
(* durations and any clocks.                                               *)
(***************************************************************************)
EXTENDS Pairing, SequenceTheorems, TLAPS

(* A code that has not been spent yet was installed more often than joined. *)
Unspent(c) == pairing.code = c /\ ~pairing.used
Backed ==
  \A c \in Code :
    /\ joins[c] <= Len(installs[c])
    /\ Unspent(c) => joins[c] < Len(installs[c])

(* Codes are made before they are used, and the first before the others;    *)
(* nobody asks for the first one to be rotated in.                          *)
Ordered ==
  /\ First \notin checking
  /\ \A c \in Unmade : installs[c] = <<>> /\ c \notin checking
  /\ First \in Unmade => Unmade = Code

Past == \A c \in Code : \A i \in DOMAIN installs[c] : installs[c][i] <= now

(* What was installed less than AuthWindow ago has a nonce that says so.    *)
Covered(c, t) ==
  \/ t + AuthWindow <= now
  \/ \E n \in nonces : n.code = c /\ n.until = t + AuthWindow
Remembers ==
  exists => \A c \in Code \ {First} : \A i \in DOMAIN installs[c] :
              Covered(c, installs[c][i])

(* The inductive invariant.                                                 *)
Core == TypeOK /\ Backed /\ Ordered /\ Past /\ Remembers /\ OnceInWindow

-----------------------------------------------------------------------------
(* Appending a later time keeps the times in their window.                  *)
LEMMA AppendedElements ==
  ASSUME NEW q \in Seq(Nat), NEW t \in Nat, NEW i \in DOMAIN Append(q, t)
  PROVE  \/ i = Len(q) + 1 /\ Append(q, t)[i] = t
         \/ i \in DOMAIN q /\ Append(q, t)[i] = q[i]
OBVIOUS

(* A code was installed at instants of time.                                *)
LEMMA Instants ==
  ASSUME TypeOK, NEW c \in Code, NEW i \in DOMAIN installs[c]
  PROVE  installs[c][i] \in Nat /\ installs[c][i] + AuthWindow \in Nat
<1>1. installs[c] \in Seq(Nat)
  BY DEF TypeOK
<1>2. installs[c][i] \in Nat
  BY <1>1
<1> QED BY <1>2, Durations

(* No code was made at first.                                               *)
LEMMA InitCore == Init => Core
<1> SUFFICES ASSUME Init PROVE Core
  OBVIOUS
<1>1. TypeOK
  <2>1. <<>> \in Seq(Nat)
    OBVIOUS
  <2>2. now \in 0..MaxTime
    BY Durations DEF Init
  <2>3. pairing \in [code : Code \cup {NoCode}, expiresAt : Nat, used : BOOLEAN]
    BY DEF Init, NoPairing
  <2>4. issuedAt \in [Code -> Nat \cup {-1}] /\ installs \in [Code -> Seq(Nat)]
    BY <2>1 DEF Init
  <2> QED BY <2>2, <2>3, <2>4 DEF Init, TypeOK
<1>2. Backed
  BY NoCodeIsNone DEF Init, Backed, Unspent, NoPairing
<1>3. Ordered
  BY DEF Init, Ordered, Unmade
<1>4. Past /\ Remembers /\ OnceInWindow
  BY DEF Init, Past, Remembers, OnceInWindow
<1> QED BY <1>1, <1>2, <1>3, <1>4 DEF Core

(* Steps that touch neither the record nor its history.                     *)
LEMMA QuietKeepsCore ==
  ASSUME Core, TypeOK',
         UNCHANGED <<now, exists, pairing, nonces, issuedAt, checking, installs, joins>>
  PROVE  Core'
<1>1. Backed'
  BY DEF Core, Backed, Unspent
<1>2. Ordered'
  BY DEF Core, Ordered, Unmade
<1>3. Past' /\ OnceInWindow'
  BY DEF Core, Past, OnceInWindow
<1>4. Remembers'
  BY DEF Core, Remembers, Covered
<1> QED BY <1>1, <1>2, <1>3, <1>4 DEF Core

-----------------------------------------------------------------------------
(* Types                                                                    *)

(* A code that is made gets its time.                                       *)
LEMMA MakeType ==
  ASSUME TypeOK, NEW c \in Code, Make(c)
  PROVE  issuedAt' \in [Code -> Nat \cup {-1}] /\ issuedAt'[c] \in Nat
BY Durations DEF TypeOK, Make

(* A code that is installed becomes the record and is noted.                *)
LEMMA InstallType ==
  ASSUME TypeOK, NEW c \in Code, issuedAt'[c] \in Nat, Install(c)
  PROVE  /\ pairing' \in [code : Code \cup {NoCode}, expiresAt : Nat, used : BOOLEAN]
         /\ installs' \in [Code -> Seq(Nat)]
         /\ installs'[c] = Append(installs[c], now)
         /\ \A b \in Code \ {c} : installs'[b] = installs[b]
         /\ pairing'.code = c
<1>1. now \in Nat /\ installs[c] \in Seq(Nat)
  BY DEF TypeOK
<1>2. Append(installs[c], now) \in Seq(Nat)
  BY <1>1
<1>3. issuedAt'[c] + Ttl \in Nat
  BY Durations
<1> QED BY <1>1, <1>2, <1>3 DEF Install, Fresh, TypeOK

(* Every step keeps the types.                                              *)
LEMMA TypeStep ==
  ASSUME Core, [Next]_vars
  PROVE  TypeOK'
<1> USE Durations, NoCodeIsNone, AgentsAreGuests
<1>0. TypeOK /\ Ordered
  BY DEF Core
<1>1. CASE UNCHANGED vars
  BY <1>0, <1>1 DEF TypeOK, vars, server, panel, history
<1>2. CASE Tick
  <2>1. now' \in 0..MaxTime
    BY <1>0, <1>2 DEF TypeOK, Tick
  <2> QED BY <1>2, <2>1, <1>0 DEF TypeOK, Tick, server, panel, history
<1>3. CASE Create
  <2>1. issuedAt' \in [Code -> Nat \cup {-1}] /\ issuedAt'[First] \in Nat
    BY <1>0, <1>3, MakeType DEF Create
  <2>2. /\ pairing' \in [code : Code \cup {NoCode}, expiresAt : Nat, used : BOOLEAN]
        /\ installs' \in [Code -> Seq(Nat)]
    BY <1>0, <1>3, <2>1, InstallType DEF Create
  <2> QED BY <1>0, <1>3, <2>1, <2>2 DEF TypeOK, Create
<1>4. CASE OpenPanel \/ ClosePanel \/ Reload
  BY <1>0, <1>4 DEF TypeOK, OpenPanel, ClosePanel, Reload, Display, server, history
<1>5. CASE Restart
  BY <1>0, <1>5 DEF TypeOK, Restart, NoPairing, panel, history
<1>6. ASSUME NEW c \in Code, Regenerate(c)
      PROVE  TypeOK'
  <2>1. issuedAt' \in [Code -> Nat \cup {-1}]
    BY <1>0, <1>6, MakeType DEF Regenerate, Asks
  <2> QED BY <1>0, <1>6, <2>1 DEF TypeOK, Regenerate, Asks, server, history
<1>7. ASSUME NEW c \in Code, Show(c) \/ Fail(c) \/ Check(c)
      PROVE  TypeOK'
  BY <1>0, <1>7 DEF TypeOK, Show, Fail, Check, Display, server, history
<1>8. ASSUME NEW c \in Code, Rotate(c)
      PROVE  TypeOK'
  <2>1. issuedAt' = issuedAt /\ issuedAt'[c] \in Nat
    BY <1>0, <1>8 DEF Rotate, Ordered, Unmade, TypeOK
  <2>2. /\ pairing' \in [code : Code \cup {NoCode}, expiresAt : Nat, used : BOOLEAN]
        /\ installs' \in [Code -> Seq(Nat)]
    BY <1>0, <1>8, <2>1, InstallType DEF Rotate, TypeOK
  <2>3. nonces' \subseteq [code : Code, until : Nat]
    BY <1>0, <1>8 DEF Rotate, Remembered, TypeOK
  <2>4. answered' \subseteq pending'
    BY <1>0, <1>8 DEF Rotate, Grant, TypeOK
  <2>5. /\ checking' \subseteq Code
        /\ UNCHANGED <<now, ahead, exists, devices, issuedAt, pending, initial, shown,
                       legible, unclear, stage, joins>>
    BY <1>0, <1>8 DEF Rotate, TypeOK
  <2> QED BY <1>0, <2>2, <2>3, <2>4, <2>5 DEF TypeOK
<1>9. ASSUME NEW d \in Guest, Store(d) \/ SaveState(d) \/ Abandon(d) \/ Dies(d)
      PROVE  TypeOK'
  BY <1>0, <1>9 DEF TypeOK, Store, SaveState, Abandon, Dies, server, panel, history
<1>10. ASSUME NEW d \in Guest, NEW c \in Code, Join(d, c)
       PROVE  TypeOK'
  <2>1. pairing' \in [code : Code \cup {NoCode}, expiresAt : Nat, used : BOOLEAN]
    BY <1>0, <1>10 DEF TypeOK, Join, Spent
  <2>2. joins' \in [Code -> Nat]
    BY <1>0, <1>10 DEF TypeOK, Join
  <2>3. stage' \in [Guest -> {"out", "answered", "in", "saved", "gone"}]
    BY <1>0, <1>10 DEF TypeOK, Join
  <2>4. devices' \subseteq Guest
    BY <1>0, <1>10 DEF TypeOK, Join
  <2> QED BY <1>0, <1>10, <2>1, <2>2, <2>3, <2>4 DEF TypeOK, Join, panel
<1> QED BY <1>1, <1>2, <1>3, <1>4, <1>5, <1>6, <1>7, <1>8, <1>9, <1>10 DEF Next

-----------------------------------------------------------------------------
(* The steps that matter                                                    *)

(* Time passes, and nonces run out no earlier than they may.                *)
LEMMA TickKeepsCore ==
  ASSUME Core, TypeOK', Tick
  PROVE  Core'
<1> USE DEF Tick, server, panel, history
<1>1. Backed' /\ Ordered' /\ OnceInWindow'
  BY DEF Core, Backed, Unspent, Ordered, Unmade, OnceInWindow
<1>2. Past'
  <2> SUFFICES ASSUME NEW c \in Code, NEW i \in DOMAIN installs[c]
               PROVE  installs[c][i] <= now + 1
    BY DEF Past
  <2>1. installs[c][i] \in Nat /\ now \in Nat /\ installs[c][i] <= now
    BY DEF Core, TypeOK, Past
  <2> QED BY <2>1
<1>3. Remembers'
  <2> SUFFICES ASSUME exists, NEW c \in Code \ {First}, NEW i \in DOMAIN installs[c]
               PROVE  Covered(c, installs[c][i])'
    BY DEF Remembers
  <2>1. Covered(c, installs[c][i])
    BY DEF Core, Remembers
  <2>2. installs[c][i] \in Nat /\ now \in Nat
    BY DEF Core, TypeOK
  <2> QED BY <2>1, <2>2, Durations DEF Covered
<1> QED BY <1>1, <1>2, <1>3 DEF Core

(* Installing a code that was not installed within the window.              *)
LEMMA InstallKeeps ==
  ASSUME Core, NEW c \in Code, issuedAt'[c] \in Nat, Install(c),
         UNCHANGED <<now, joins>>,
         \A i \in DOMAIN installs[c] : installs[c][i] + AuthWindow <= now
  PROVE  Backed' /\ Past' /\ OnceInWindow'
<1>0. /\ now \in Nat /\ installs[c] \in Seq(Nat)
      /\ \A b \in Code : installs[b] \in Seq(Nat) /\ joins[b] \in Nat
  BY DEF Core, TypeOK
<1>1. /\ installs'[c] = Append(installs[c], now)
      /\ \A b \in Code \ {c} : installs'[b] = installs[b]
      /\ pairing'.code = c
  BY InstallType DEF Core
<1>2. Backed'
  <2>1. Len(installs'[c]) = Len(installs[c]) + 1 /\ Len(installs[c]) \in Nat
    BY <1>0, <1>1
  <2>2. joins[c] <= Len(installs[c])
    BY DEF Core, Backed
  <2>3. joins[c] < Len(installs'[c])
    BY <1>0, <2>1, <2>2
  <2>4. \A b \in Code \ {c} : joins[b] <= Len(installs'[b]) /\ ~Unspent(b)'
    BY <1>1 DEF Core, Backed, Unspent
  <2> QED BY <1>0, <1>1, <2>1, <2>3, <2>4 DEF Backed
<1>3. Past'
  <2> SUFFICES ASSUME NEW b \in Code, NEW i \in DOMAIN installs'[b]
               PROVE  installs'[b][i] <= now
    BY DEF Past
  <2>1. CASE b = c
    <3>1. i \in DOMAIN Append(installs[c], now) /\ installs'[b][i] = Append(installs[c], now)[i]
      BY <1>1, <2>1
    <3>2. CASE installs'[b][i] = now
      BY <1>0, <3>2
    <3>3. CASE i \in DOMAIN installs[c] /\ installs'[b][i] = installs[c][i]
      BY <3>3 DEF Core, Past
    <3> QED BY <1>0, <3>1, <3>2, <3>3, AppendedElements
  <2>2. CASE b # c
    BY <1>1, <2>2 DEF Core, Past
  <2> QED BY <2>1, <2>2
<1>4. OnceInWindow'
  <2> SUFFICES ASSUME NEW b \in Code, NEW i \in DOMAIN installs'[b],
                      NEW j \in DOMAIN installs'[b], i < j
               PROVE  installs'[b][j] - installs'[b][i] >= AuthWindow
    BY DEF OnceInWindow
  <2>1. CASE b # c
    BY <1>1, <2>1 DEF Core, OnceInWindow
  <2>2. CASE b = c
    <3>1. i \in DOMAIN installs[c] /\ installs'[c][i] = installs[c][i]
      BY <1>0, <1>1, <2>2
    <3>2. installs[c][i] \in Nat
      BY <1>0, <3>1
    <3>3. CASE j \in DOMAIN installs[c]
      <4>1. installs'[c][j] = installs[c][j]
        BY <1>0, <1>1, <3>3
      <4>2. installs[c][j] - installs[c][i] >= AuthWindow
        BY <3>1, <3>3 DEF Core, OnceInWindow
      <4> QED BY <2>2, <3>1, <4>1, <4>2
    <3>4. CASE j = Len(installs[c]) + 1
      <4>1. installs'[c][j] = now
        BY <1>0, <1>1, <3>4
      <4>2. installs[c][i] + AuthWindow <= now
        BY <3>1
      <4> QED BY <1>0, <2>2, <3>1, <3>2, <4>1, <4>2, Durations
    <3> QED BY <1>0, <1>1, <2>2, <3>3, <3>4, AppendedElements
  <2> QED BY <2>1, <2>2
<1> QED BY <1>2, <1>3, <1>4

(* The creation of the workspace installs the first code.                   *)
LEMMA CreateKeepsCore ==
  ASSUME Core, TypeOK', Create
  PROVE  Core'
<1>0. TypeOK /\ Ordered /\ First \in Code
  BY NoCodeIsNone DEF Core
<1>1. First \in Unmade /\ Unmade = Code
  BY <1>0 DEF Create, Make, Ordered
<1>2. \A c \in Code : installs[c] = <<>>
  BY <1>0, <1>1 DEF Ordered
<1>3. issuedAt'[First] \in Nat /\ Install(First)
  BY <1>0, MakeType DEF Create
<1>4. Backed' /\ Past' /\ OnceInWindow'
  BY <1>0, <1>2, <1>3, InstallKeeps DEF Create
<1>5. \A c \in Code \ {First} : installs'[c] = <<>>
  BY <1>0, <1>2, <1>3, InstallType
<1>6. Ordered'
  <2>1. First \notin Unmade'
    BY <1>3 DEF Unmade
  <2>2. checking' = checking /\ \A c \in Code : c \notin checking
    BY <1>0, <1>1 DEF Create, Ordered
  <2>3. Unmade' \subseteq Code
    BY DEF Unmade
  <2> QED BY <1>0, <1>5, <2>1, <2>2, <2>3 DEF Ordered
<1>7. Remembers'
  BY <1>5 DEF Remembers
<1> QED BY <1>4, <1>6, <1>7 DEF Core

(* A rotation finds no nonce of its code and leaves one.                    *)
LEMMA RotateKeepsCore ==
  ASSUME Core, TypeOK', NEW c \in Code, Rotate(c)
  PROVE  Core'
<1>0. /\ TypeOK /\ Ordered /\ now \in Nat
      /\ c \in checking /\ c # First /\ c \notin Unmade
      /\ issuedAt' = issuedAt /\ now' = now /\ exists' = exists /\ joins' = joins
      /\ checking' = checking \ {c}
  <2>1. TypeOK /\ Ordered
    BY DEF Core
  <2>2. now \in Nat
    BY <2>1, Durations DEF TypeOK
  <2>3. c \in checking /\ c # First /\ c \notin Unmade
    BY <2>1 DEF Rotate, Ordered
  <2>4. issuedAt' = issuedAt /\ now' = now /\ exists' = exists /\ joins' = joins
        /\ checking' = checking \ {c}
    BY DEF Rotate
  <2> QED BY <2>1, <2>2, <2>3, <2>4
<1>1. CASE pairing' = pairing /\ installs' = installs /\ (exists => nonces' = Remembered)
  <2>1. Backed' /\ Past' /\ OnceInWindow'
    BY <1>0, <1>1 DEF Core, Backed, Unspent, Past, OnceInWindow
  <2>2. Ordered'
    BY <1>0, <1>1 DEF Ordered, Unmade
  <2>3. Remembers'
    <3> SUFFICES ASSUME exists, NEW b \in Code \ {First}, NEW i \in DOMAIN installs[b]
                 PROVE  Covered(b, installs[b][i])'
      BY <1>0, <1>1 DEF Remembers
    <3>1. Covered(b, installs[b][i])
      BY DEF Core, Remembers
    <3>2. installs[b][i] + AuthWindow \in Nat
      BY <1>0, Instants
    <3> QED BY <1>0, <1>1, <3>1, <3>2 DEF Covered, Remembered
  <2> QED BY <2>1, <2>2, <2>3 DEF Core
<1>2. CASE /\ exists /\ ~\E n \in Remembered : n.code = c
           /\ nonces' = Remembered \cup {[code |-> c, until |-> now + AuthWindow]}
           /\ Install(c)
  <2>1. issuedAt'[c] \in Nat
    BY <1>0 DEF TypeOK, Unmade
  <2>2. \A b \in Code \ {First} : \A i \in DOMAIN installs[b] :
          /\ installs[b][i] + AuthWindow \in Nat
          /\ \/ installs[b][i] + AuthWindow <= now
             \/ \E n \in Remembered : n.code = b /\ n.until = installs[b][i] + AuthWindow
    <3> SUFFICES ASSUME NEW b \in Code \ {First}, NEW i \in DOMAIN installs[b]
                 PROVE  /\ installs[b][i] + AuthWindow \in Nat
                        /\ \/ installs[b][i] + AuthWindow <= now
                           \/ \E n \in Remembered :
                                n.code = b /\ n.until = installs[b][i] + AuthWindow
      OBVIOUS
    <3>1. installs[b][i] + AuthWindow \in Nat
      BY <1>0, Instants
    <3>2. Covered(b, installs[b][i])
      BY <1>2 DEF Core, Remembers
    <3> QED BY <1>0, <3>1, <3>2 DEF Covered, Remembered
  <2>3. \A i \in DOMAIN installs[c] : installs[c][i] + AuthWindow <= now
    BY <1>0, <1>2, <2>2
  <2>4. Backed' /\ Past' /\ OnceInWindow'
    BY <1>0, <1>2, <2>1, <2>3, InstallKeeps
  <2>5. /\ installs'[c] = Append(installs[c], now) /\ installs[c] \in Seq(Nat)
        /\ \A b \in Code \ {c} : installs'[b] = installs[b]
    BY <1>0, <1>2, <2>1, InstallType DEF TypeOK
  <2>6. Ordered'
    BY <1>0, <2>5 DEF Ordered, Unmade
  <2>7. Remembers'
    <3> SUFFICES ASSUME NEW b \in Code \ {First}, NEW i \in DOMAIN installs'[b]
                 PROVE  Covered(b, installs[b][i])'
      BY DEF Remembers
    <3>1. CASE i \in DOMAIN installs[b] /\ installs'[b][i] = installs[b][i]
      <4>1. \/ installs[b][i] + AuthWindow <= now
            \/ \E n \in nonces' : n.code = b /\ n.until = installs[b][i] + AuthWindow
        BY <1>2, <2>2, <3>1
      <4> QED BY <1>0, <3>1, <4>1 DEF Covered
    <3>2. CASE b = c /\ installs'[b][i] = now
      <4> DEFINE n == [code |-> c, until |-> now + AuthWindow]
      <4>1. n \in nonces' /\ n.code = b /\ n.until = installs'[b][i] + AuthWindow
        BY <1>2, <3>2
      <4> HIDE DEF n
      <4> QED BY <4>1 DEF Covered
    <3>3. CASE b # c
      BY <2>5, <3>1, <3>3
    <3>4. CASE b = c
      <4>1. /\ installs[c] \in Seq(Nat) /\ now \in Nat
            /\ i \in DOMAIN Append(installs[c], now)
        BY <1>0, <2>5, <3>4
      <4>2. \/ i = Len(installs[c]) + 1 /\ Append(installs[c], now)[i] = now
            \/ i \in DOMAIN installs[c] /\ Append(installs[c], now)[i] = installs[c][i]
        BY <4>1, AppendedElements
      <4> QED BY <2>5, <3>1, <3>2, <3>4, <4>2
    <3> QED BY <3>3, <3>4
  <2> QED BY <2>4, <2>6, <2>7 DEF Core
<1> QED BY <1>1, <1>2 DEF Rotate

(* A join spends the code.                                                  *)
LEMMA JoinKeepsCore ==
  ASSUME Core, TypeOK', NEW d \in Guest, NEW c \in Code, Join(d, c)
  PROVE  Core'
<1>0. /\ TypeOK /\ Unspent(c) /\ pairing'.used
      /\ joins' = [joins EXCEPT ![c] = @ + 1]
      /\ UNCHANGED <<now, exists, nonces, issuedAt, checking, installs>>
  BY DEF Core, TypeOK, Join, Unspent, Spent, panel
<1>1. Backed'
  <2>1. joins[c] < Len(installs[c]) /\ Len(installs[c]) \in Nat /\ joins[c] \in Nat
    BY <1>0 DEF Core, Backed, TypeOK
  <2>2. joins'[c] <= Len(installs[c])
    BY <1>0, <2>1 DEF TypeOK
  <2> QED BY <1>0, <2>2 DEF Core, Backed, Unspent, TypeOK
<1>2. Ordered' /\ Past' /\ OnceInWindow'
  BY <1>0 DEF Core, Ordered, Unmade, Past, OnceInWindow
<1>3. Remembers'
  BY <1>0 DEF Core, Remembers, Covered
<1> QED BY <1>1, <1>2, <1>3 DEF Core

(* A code is made, a request is being checked, the relay is restarted.      *)
LEMMA OtherKeepsCore ==
  ASSUME Core, TypeOK', Restart \/ \E c \in Code : Regenerate(c) \/ Check(c)
  PROVE  Core'
<1>0. TypeOK /\ Ordered /\ UNCHANGED <<now, installs, joins>>
  BY DEF Core, Restart, Regenerate, Check, history
<1>1. Past' /\ OnceInWindow'
  BY <1>0 DEF Core, Past, OnceInWindow
<1>2. CASE Restart
  <2>1. Backed'
    BY <1>0, <1>2, NoCodeIsNone DEF Core, Backed, Unspent, Restart, NoPairing
  <2>2. Ordered' /\ Remembers'
    BY <1>0, <1>2 DEF Ordered, Unmade, Remembers, Restart, panel
  <2> QED BY <1>1, <2>1, <2>2 DEF Core
<1>3. ASSUME NEW c \in Code, Regenerate(c)
      PROVE  Core'
  <2>1. UNCHANGED <<exists, pairing, nonces, checking>>
    BY <1>3 DEF Regenerate, server
  <2>2. Backed' /\ Remembers'
    BY <1>0, <2>1 DEF Core, Backed, Unspent, Remembers, Covered
  <2>3. Unmade' \subseteq Unmade /\ First \notin Unmade
    BY <1>0, <1>3, Durations DEF Regenerate, Asks, Make, Unmade, TypeOK
  <2>4. Ordered'
    BY <1>0, <2>1, <2>3 DEF Ordered
  <2> QED BY <1>1, <2>2, <2>4 DEF Core
<1>4. ASSUME NEW c \in Code, Check(c)
      PROVE  Core'
  <2>1. UNCHANGED <<exists, pairing, nonces, issuedAt>>
    BY <1>4 DEF Check
  <2>2. Backed' /\ Remembers'
    BY <1>0, <2>1 DEF Core, Backed, Unspent, Remembers, Covered
  <2>3. Ordered'
    BY <1>0, <1>4, <2>1 DEF Ordered, Unmade, Check
  <2> QED BY <1>1, <2>2, <2>3 DEF Core
<1> QED BY <1>2, <1>3, <1>4

-----------------------------------------------------------------------------
(* The invariant holds in every reachable state.                            *)
THEOREM CoreAlways == Spec => []Core
<1>1. Init => Core
  BY InitCore
<1>2. Core /\ [Next]_vars => Core'
  <2> SUFFICES ASSUME Core, [Next]_vars PROVE Core'
    OBVIOUS
  <2>1. TypeOK'
    BY TypeStep
  <2> DEFINE Same == UNCHANGED <<now, exists, pairing, nonces, issuedAt, checking,
                                 installs, joins>>
  <2>2. ASSUME \/ UNCHANGED vars \/ OpenPanel \/ ClosePanel \/ Reload
               \/ \E c \in Code : Show(c) \/ Fail(c)
               \/ \E d \in Guest : Store(d) \/ SaveState(d) \/ Abandon(d) \/ Dies(d)
        PROVE  Same
    BY <2>2 DEF vars, OpenPanel, ClosePanel, Reload, Show, Fail, Store, SaveState,
                Abandon, Dies, server, panel, history
  <2>3. Same => Core'
    BY <2>1, QuietKeepsCore
  <2> QED BY <2>1, <2>2, <2>3, TickKeepsCore, CreateKeepsCore, RotateKeepsCore,
             JoinKeepsCore, OtherKeepsCore DEF Next
<1> QED BY <1>1, <1>2, PTL DEF Spec

(* Every variable of pairing has its type, whatever arrives late or again.  *)
THEOREM TypeCorrect == Spec => []TypeOK
BY CoreAlways, PTL DEF Core

(* A code lets in at most one device each time the registry installs it     *)
(* (registry.ts: "single-use, short-lived").                                *)
THEOREM TokensAreSingleUse == Spec => []SingleUse
<1>1. Core => SingleUse
  BY DEF Core, Backed, SingleUse
<1> QED BY <1>1, CoreAlways, PTL

(* A rotation request that arrives again takes effect only after the time   *)
(* its nonce is remembered for (registry.ts, pairingRotationNonces).        *)
THEOREM RequestsWorkOnce == Spec => []OnceInWindow
BY CoreAlways, PTL DEF Core
-----------------------------------------------------------------------------
(* What the panel shows                                                     *)

(* Until something made it unclear what the server has done, the panel has  *)
(* one request at most, the server checks no other and none it has granted, *)
(* and what it has granted, or the panel shows, is the current code.        *)
Attended ==
  /\ First \in Unmade => shown = NoCode /\ initial = NoCode /\ pending = {}
  /\ ~unclear =>
       /\ \A a, b \in pending : a = b
       /\ checking \subseteq pending \ answered
       /\ exists => \A c \in answered : pairing.code = c
       /\ exists /\ pending = {} /\ shown # NoCode => pairing.code = shown

(* Steps that leave alone what the panel and the server have in common.     *)
LEMMA QuietKeepsAttended ==
  ASSUME TypeOK, Attended, pairing'.code = pairing.code,
         UNCHANGED <<exists, issuedAt, checking, pending, answered, initial, shown, unclear>>
  PROVE  Attended'
BY DEF Attended, Unmade

(* The panel's steps leave it clear, or unclear for good.                   *)
LEMMA OwnerKeepsAttended ==
  ASSUME TypeOK, TypeOK', Attended,
         \/ Create \/ OpenPanel \/ ClosePanel \/ Reload
         \/ \E c \in Code : Regenerate(c) \/ Show(c) \/ Fail(c)
  PROVE  Attended'
<1> USE NoCodeIsNone
<1>1. CASE Create
  <2>1. /\ First \in Unmade /\ issuedAt'[First] \in Nat /\ pairing'.code = First
    BY <1>1, MakeType, InstallType DEF Create, Make
  <2>2. First \notin Unmade'
    BY <2>1 DEF Unmade
  <2>3. shown' = NoCode /\ pending' = {} /\ answered' = {} /\ checking' = checking
        /\ (~unclear' => ~unclear)
    BY <1>1, <2>1 DEF Create, Attended, TypeOK
  <2>4. ~unclear' => checking' = {}
    BY <2>1, <2>3 DEF Attended
  <2> QED BY <2>2, <2>3, <2>4 DEF Attended
<1>2. CASE OpenPanel
  <2>1. /\ UNCHANGED <<exists, pairing, issuedAt, checking, pending, answered, initial>>
        /\ shown' = initial /\ initial # NoCode
        /\ ~unclear' => ~unclear /\ pairing.code = initial
    BY <1>2 DEF OpenPanel, Display, server, TypeOK
  <2>2. Unmade' = Unmade /\ First \notin Unmade
    BY <2>1 DEF Attended, Unmade
  <2> QED BY <2>1, <2>2 DEF Attended
<1>3. CASE ClosePanel
  <2>1. /\ UNCHANGED <<exists, pairing, issuedAt, checking, pending, answered, initial, unclear>>
        /\ shown' = NoCode
    BY <1>3 DEF ClosePanel, server
  <2> QED BY <2>1 DEF Attended, Unmade
<1>4. CASE Reload
  <2>1. /\ UNCHANGED <<exists, pairing, issuedAt, checking>>
        /\ shown' = NoCode /\ initial' = NoCode /\ pending' = {} /\ answered' = {}
        /\ ~unclear' => ~unclear /\ pending = {}
    BY <1>4 DEF Reload, server, TypeOK
  <2>2. ~unclear' => checking' = {}
    BY <2>1 DEF Attended
  <2> QED BY <2>1, <2>2 DEF Attended
<1>5. ASSUME NEW c \in Code, Regenerate(c)
      PROVE  Attended'
  <2>1. /\ UNCHANGED <<exists, pairing, checking, answered, initial, shown>>
        /\ pending' = pending \cup {c} /\ First \notin Unmade
        /\ ~unclear' => ~unclear /\ pending = {} /\ checking = {}
    BY <1>5 DEF Regenerate, Asks, server, TypeOK
  <2>2. First \notin Unmade'
    BY <1>5, <2>1, Durations DEF Regenerate, Asks, Make, Unmade, TypeOK
  <2> QED BY <2>1, <2>2 DEF Attended, TypeOK
<1>6. ASSUME NEW c \in Code, Show(c)
      PROVE  Attended'
  <2>1. /\ UNCHANGED <<exists, pairing, issuedAt, checking, initial, unclear>>
        /\ c \in answered /\ c \in pending /\ shown' = c
        /\ pending' = pending \ {c} /\ answered' = answered \ {c}
    BY <1>6 DEF Show, Display, server, TypeOK
  <2>2. Unmade' = Unmade /\ First \notin Unmade
    BY <2>1 DEF Attended, Unmade
  <2> QED BY <2>1, <2>2 DEF Attended
<1>7. ASSUME NEW c \in Code, Fail(c)
      PROVE  Attended'
  <2>1. unclear' = TRUE /\ UNCHANGED <<issuedAt, shown, initial>> /\ pending' \subseteq pending
    BY <1>7 DEF Fail
  <2>2. Unmade' = Unmade
    BY <2>1 DEF Unmade
  <2> QED BY <2>1, <2>2 DEF Attended
<1> QED BY <1>1, <1>2, <1>3, <1>4, <1>5, <1>6, <1>7

(* The server installs only codes that the panel has asked for.             *)
LEMMA ServerKeepsAttended ==
  ASSUME Core, TypeOK', Attended, Restart \/ \E c \in Code : Check(c) \/ Rotate(c)
  PROVE  Attended'
<1>0. TypeOK /\ Ordered
  BY DEF Core
<1>1. CASE Restart
  <2>1. UNCHANGED <<issuedAt, pending, answered, initial, shown, unclear>>
        /\ exists' = FALSE /\ checking' = {}
    BY <1>1 DEF Restart, panel
  <2> QED BY <2>1 DEF Attended, Unmade
<1>2. ASSUME NEW c \in Code, Check(c)
      PROVE  Attended'
  <2>1. /\ UNCHANGED <<exists, pairing, issuedAt, pending, answered, initial, shown>>
        /\ checking' = checking \cup {c}
        /\ ~unclear' => ~unclear /\ c \in pending \ answered
    BY <1>2 DEF Check
  <2> QED BY <2>1 DEF Attended, Unmade
<1>3. ASSUME NEW c \in Code, Rotate(c)
      PROVE  Attended'
  <2>1. /\ UNCHANGED <<exists, issuedAt, pending, initial, shown, unclear>>
        /\ c \in checking /\ checking' = checking \ {c}
    BY <1>3 DEF Rotate
  <2>2. Unmade' = Unmade
    BY <2>1 DEF Unmade
  <2>3. CASE UNCHANGED <<pairing, answered>>
    BY <2>1, <2>2, <2>3 DEF Attended
  <2>4. CASE Install(c) /\ answered' = Grant(c)
    <3>1. issuedAt'[c] \in Nat
      BY <1>0, <2>1 DEF Ordered, Unmade, TypeOK
    <3>2. pairing'.code = c
      BY <1>0, <2>4, <3>1, InstallType
    <3>3. ~unclear => c \in pending /\ checking' = {} /\ answered' = {c}
      BY <1>0, <2>1, <2>4 DEF Attended, Grant, TypeOK
    <3> QED BY <2>1, <2>2, <3>2, <3>3 DEF Attended
  <2> QED BY <1>3, <2>3, <2>4 DEF Rotate
<1> QED BY <1>1, <1>2, <1>3

(* The code on the panel is the registry's current one: as long as the      *)
(* relay runs, a rotation neither overlapped another nor came again nor     *)
(* went unanswered, and the panel was not opened anew after one.            *)
THEOREM PanelIsCurrent == Spec => []ShownIsCurrent
<1>1. Init => Attended
  BY DEF Init, Attended
<1>2. Core /\ TypeOK' /\ Attended /\ [Next]_vars => Attended'
  <2> SUFFICES ASSUME Core, TypeOK', Attended, [Next]_vars
               PROVE  Attended'
    OBVIOUS
  <2>1. TypeOK
    BY DEF Core
  <2>2. ASSUME \/ UNCHANGED vars \/ Tick
               \/ \E d \in Guest : Store(d) \/ SaveState(d) \/ Abandon(d) \/ Dies(d)
        PROVE  Attended'
    BY <2>1, <2>2, QuietKeepsAttended DEF vars, Tick, Store, SaveState, Abandon, Dies,
       server, panel
  <2>3. ASSUME NEW d \in Guest, NEW c \in Code, Join(d, c)
        PROVE  Attended'
    <3>1. pairing'.code = pairing.code
      BY <2>1, <2>3 DEF Join, Spent, TypeOK
    <3> QED BY <2>1, <2>3, <3>1, QuietKeepsAttended DEF Join, panel
  <2> QED BY <2>1, <2>2, <2>3, OwnerKeepsAttended, ServerKeepsAttended DEF Next
<1>3. Attended => ShownIsCurrent
  BY DEF Attended, ShownIsCurrent
<1> QED BY <1>1, <1>2, <1>3, CoreAlways, TypeCorrect, PTL DEF Spec
=============================================================================
