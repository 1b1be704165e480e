--------------------------- MODULE RatchetProofs ---------------------------
(***************************************************************************)
(* For every value of the constants: Ratchet's type invariant and that a   *)
(* session heals; and, when only one of the two devices may send first,    *)
(* that the two sides stay in sync and that no key is used twice or kept   *)
(* after its use.  Three inductive invariants carry this:                  *)
(*   Core    until a cap is hit: which of the two devices is a DH step     *)
(*           ahead (Phase), and where the key of every envelope not yet    *)
(*           opened lies at its recipient (Located);                       *)
(*   Spent   whatever the caps do: what each key pair, root and chain      *)
(*           position has been used for (Fit, Signed), and that the two    *)
(*           devices never begin the same root (NoMirror);                 *)
(*   Rolled  whoever starts: the key pair in use is the last generated.    *)
(* The last section is about SessionTasks: with one task at a time and no  *)
(* cap hit it implements Ratchet.  Its invariant Settled says where each   *)
(* task stands relative to the session that was saved last.                *)
(***************************************************************************)
EXTENDS Ratchet, FiniteSetTheorems, TLAPS

(* At most one of the two devices sends before it has received.            *)
OneStarter == \E d \in Device : Starters \subseteq {d}

From(d) == {m \in network : m.from = d}
Cache(s) == {s.skipped[i] : i \in DOMAIN s.skipped}

----------------------------------------------------------------------------
(* The phases of the turn between two devices.                              *)

Fresh == network = {} /\ \A d \in Device : session[d] = InitSession(d)

(* p has begun a chain that q has not received anything on yet.             *)
Behind(p, q) ==
  LET sp == session[p]  sq == session[q]
  IN  /\ sp.sendChain # NoChain
      /\ sp.sendChain.root = sp.root
      /\ sp.theirKey = sq.myKey
      /\ sp.root = Append(sq.root, DH(sp.myKey, sq.myKey))
      /\ sq.recvChain = NoChain \/ sq.theirKey # sp.myKey
      /\ \/ /\ sq.recvChain = NoChain
            /\ sq.sendChain = NoChain
            /\ q \notin Starters
         \/ /\ sq.sendChain # NoChain
            /\ sq.sendChain.root = sq.root
            /\ sp.recvChain # NoChain
            /\ sp.recvChain.root = sq.root

(* q has received on the chain of p and not answered yet.                   *)
Level(p, q) ==
  LET sp == session[p]  sq == session[q]
  IN  /\ sp.sendChain # NoChain
      /\ sp.sendChain.root = sp.root
      /\ sq.root = sp.root
      /\ sq.recvChain # NoChain
      /\ sq.recvChain.root = sp.root
      /\ sq.theirKey = sp.myKey
      /\ sq.sendChain = NoChain
      /\ sp.theirKey # sq.myKey

Phase == Fresh \/ \E p \in Device : Behind(p, Peer(p)) \/ Level(p, Peer(p))

----------------------------------------------------------------------------
(* Key pairs are generated in order and never used before they exist.       *)
KeysExist ==
  \A d \in Device :
    /\ session[d].myKey = <<d, generated[d]>>
    /\ session[d].theirKey \in {Peer(d)} \X (0..generated[Peer(d)])
    /\ \A m \in From(d) : m.ratchetKey \in {d} \X (0..generated[d])
    /\ \A e \in Cache(session[d]) :
         e.ratchetKey \in {Peer(d)} \X (0..generated[Peer(d)])

(* The envelopes a device sent with its current key are its sending chain.  *)
SendingChain ==
  \A d \in Device :
    /\ session[d].sendChain # NoChain =>
         session[d].sendChain.pos = session[d].sendN
    /\ \A m \in From(d) : m.ratchetKey = session[d].myKey =>
         /\ session[d].sendChain # NoChain
         /\ m.num < session[d].sendN
         /\ m.prev = session[d].prevLen
         /\ m.key = [root |-> session[d].sendChain.root, pos |-> m.num]

(* A header position names one envelope of a sender.                        *)
HeadersUnique ==
  \A d \in Device : \A m, n \in From(d) :
    m.ratchetKey = n.ratchetKey /\ m.num = n.num => m = n

(* The receiving chain yields the keys of the envelopes sent on it.         *)
ReceivingChain ==
  \A d \in Device : session[d].recvChain # NoChain =>
    /\ session[d].recvChain.pos = session[d].recvN
    /\ session[d].theirKey = session[Peer(d)].myKey =>
         session[d].recvN <= session[Peer(d)].sendN
    /\ \A m \in From(Peer(d)) : m.ratchetKey = session[d].theirKey =>
         /\ m.key = [root |-> session[d].recvChain.root, pos |-> m.num]
         /\ Behind(Peer(d), d) => m.num < session[Peer(d)].prevLen
         /\ Level(d, Peer(d)) => m.num < session[Peer(d)].sendN

(* The cache holds keys of envelopes already sent, and the right ones.      *)
CacheRight ==
  \A d \in Device : \A e \in Cache(session[d]) :
    /\ e.ratchetKey = session[Peer(d)].myKey =>
         session[Peer(d)].sendChain # NoChain /\ e.num < session[Peer(d)].sendN
    /\ \A m \in From(Peer(d)) :
         m.ratchetKey = e.ratchetKey /\ m.num = e.num => m.key = e.key

(* Where d finds the key of envelope m.                                     *)
InCache(d, m) ==
  [ratchetKey |-> m.ratchetKey, num |-> m.num, key |-> m.key]
    \in Cache(session[d])
OnRecvChain(d, m) == OnCurrentChain(d, m) /\ m.num >= session[d].recvN
OnNextChain(d, m) ==
  Behind(Peer(d), d) /\ m.ratchetKey = session[Peer(d)].myKey

Located ==
  \A d \in Device : \A m \in From(Peer(d)) :
    m \in seen[d] \/ InCache(d, m) \/ OnRecvChain(d, m) \/ OnNextChain(d, m)

NothingFailed == \A d \in Device : failed[d] = {}

InStep ==
  /\ Phase
  /\ KeysExist
  /\ SendingChain
  /\ HeadersUnique
  /\ ReceivingChain
  /\ CacheRight
  /\ Located
  /\ NothingFailed

(* The inductive invariant: all of the above until a cap is hit.            *)
Core == WithinCaps => InStep

----------------------------------------------------------------------------
(* Lemmas about the helpers of ratchet.ts.                                  *)

(* Every device has the other one as its peer, and is the peer's peer.      *)
LEMMA PeerFacts ==
  ASSUME NEW d \in Device
  PROVE  Peer(d) \in Device /\ Peer(d) # d /\ Peer(Peer(d)) = d
BY DevicesAreDistinct DEF Device, Peer

(* A DH step yields a root key.                                             *)
LEMMA DhRatchetStepType ==
  ASSUME NEW root \in Root, NEW k \in KeyPair, NEW l \in KeyPair
  PROVE  DhRatchetStep(root, k, l) \in Root
BY DEF DhRatchetStep, Root, DH

(* The fields of a session record.                                          *)
LEMMA SessionFields ==
  ASSUME NEW s \in Session
  PROVE  /\ s.root \in Root /\ s.myKey \in KeyPair /\ s.theirKey \in KeyPair
         /\ s.sendChain \in ChainKey \cup {NoChain}
         /\ s.recvChain \in ChainKey \cup {NoChain}
         /\ s.sendN \in Nat /\ s.recvN \in Nat /\ s.prevLen \in Nat
         /\ s.skipped \in Seq(SkippedKey)
BY DEF Session

(* A step along a chain stays on the chain.                                 *)
LEMMA StepChainType ==
  ASSUME NEW c \in ChainKey, NEW n \in Nat
  PROVE  /\ StepChain(c, n) = [root |-> c.root, pos |-> c.pos + n]
         /\ StepChain(c, n) \in ChainKey
BY DEF StepChain, ChainKey

(* ratchetEncrypt always has a sending chain to derive from.                *)
LEMMA OpenSendChainType ==
  ASSUME NEW s \in Session
  PROVE  /\ OpenSendChain(s) \in Session
         /\ OpenSendChain(s).sendChain \in ChainKey
         /\ OpenSendChain(s).skipped = s.skipped
<1>1. CASE s.sendChain # NoChain
  BY <1>1, SessionFields DEF OpenSendChain
<1>2. CASE s.sendChain = NoChain
  <2> DEFINE root == DhRatchetStep(s.root, s.myKey, s.theirKey)
  <2>1. root \in Root
    BY SessionFields, DhRatchetStepType
  <2>2. ChainFrom(root) \in ChainKey
    BY <2>1 DEF ChainFrom, ChainKey
  <2>3. OpenSendChain(s) =
          [root |-> root, myKey |-> s.myKey, theirKey |-> s.theirKey,
           sendChain |-> ChainFrom(root), recvChain |-> s.recvChain,
           sendN |-> 0, recvN |-> s.recvN, prevLen |-> s.sendN,
           skipped |-> s.skipped]
    BY <1>2 DEF OpenSendChain, Session
  <2> HIDE DEF root
  <2>4. QED
    BY <2>1, <2>2, <2>3, SessionFields DEF Session
<1>3. QED
  BY <1>1, <1>2

(* The DH step of the receiving half yields a session again.                *)
LEMMA OpenRecvChainType ==
  ASSUME NEW s \in Session, NEW k \in KeyPair, NEW l \in KeyPair
  PROVE  OpenRecvChain(s, k, l) \in Session
<1> DEFINE root == DhRatchetStep(s.root, s.myKey, k)
<1>1. root \in Root
  BY SessionFields, DhRatchetStepType
<1>2. ChainFrom(root) \in ChainKey
  BY <1>1 DEF ChainFrom, ChainKey
<1>3. OpenRecvChain(s, k, l) =
        [root |-> root, myKey |-> l, theirKey |-> k,
         sendChain |-> NoChain, recvChain |-> ChainFrom(root),
         sendN |-> s.sendN, recvN |-> 0, prevLen |-> s.prevLen,
         skipped |-> s.skipped]
  BY DEF OpenRecvChain
<1> HIDE DEF root
<1>4. QED
  BY <1>1, <1>2, <1>3, SessionFields DEF Session

(* skipForward from a receiving chain that lies behind its target: what it  *)
(* appends to the cache, and where it leaves the chain.                     *)
LEMMA SkipForwardOpens ==
  ASSUME NEW s \in Session, NEW upTo \in Nat,
         s.recvChain # NoChain, s.recvN < upTo
  PROVE  \E new \in Seq(SkippedKey) :
           /\ Len(new) = upTo - s.recvN
           /\ \A i \in 1..Len(new) : new[i] =
                [ratchetKey |-> s.theirKey, num |-> s.recvN + i - 1,
                 key |-> [root |-> s.recvChain.root,
                          pos |-> s.recvChain.pos + i - 1]]
           /\ SkipForward(s, upTo) =
                [s EXCEPT !.skipped   = s.skipped \o new,
                          !.recvChain = StepChain(s.recvChain, upTo - s.recvN),
                          !.recvN     = upTo]
<1> DEFINE count == upTo - s.recvN
           entry(i) == [ratchetKey |-> s.theirKey, num |-> s.recvN + i - 1,
                        key |-> StepChain(s.recvChain, i - 1)]
           new == [i \in 1..count |-> entry(i)]
<1>1. count \in Nat /\ s.recvChain \in ChainKey /\ s.theirKey \in KeyPair
      /\ s.recvN \in Nat
  BY SessionFields
<1>2. \A i \in 1..count :
        /\ entry(i) \in SkippedKey
        /\ entry(i) = [ratchetKey |-> s.theirKey, num |-> s.recvN + i - 1,
                       key |-> [root |-> s.recvChain.root,
                                pos |-> s.recvChain.pos + i - 1]]
  <2> SUFFICES ASSUME NEW i \in 1..count
               PROVE  /\ entry(i) \in SkippedKey
                      /\ StepChain(s.recvChain, i - 1) =
                           [root |-> s.recvChain.root,
                            pos |-> s.recvChain.pos + i - 1]
    OBVIOUS
  <2>1. i - 1 \in Nat /\ s.recvN + i - 1 \in Nat
    BY <1>1
  <2>2. /\ StepChain(s.recvChain, i - 1) \in ChainKey
        /\ StepChain(s.recvChain, i - 1) =
             [root |-> s.recvChain.root, pos |-> s.recvChain.pos + (i - 1)]
    BY <1>1, <2>1, StepChainType
  <2>3. s.recvChain.pos + (i - 1) = s.recvChain.pos + i - 1
    BY <1>1 DEF ChainKey
  <2>4. QED
    BY <1>1, <2>1, <2>2, <2>3 DEF SkippedKey
<1>3. new \in Seq(SkippedKey) /\ Len(new) = count
  <2> HIDE DEF entry, count
  <2>1. QED
    BY <1>1, <1>2
<1>4. SkipForward(s, upTo) = [s EXCEPT !.skipped = s.skipped \o new,
                                       !.recvChain = StepChain(s.recvChain, count),
                                       !.recvN = upTo]
  BY <1>1 DEF SkipForward, Session
<1>5. \A i \in 1..Len(new) : new[i] =
        [ratchetKey |-> s.theirKey, num |-> s.recvN + i - 1,
         key |-> [root |-> s.recvChain.root, pos |-> s.recvChain.pos + i - 1]]
  BY <1>2, <1>3
<1> HIDE DEF new
<1>6. QED
  BY <1>3, <1>4, <1>5

(* skipForward yields a session again.                                      *)
LEMMA SkipForwardType ==
  ASSUME NEW s \in Session, NEW upTo \in Nat
  PROVE  SkipForward(s, upTo) \in Session
<1>1. CASE s.recvChain = NoChain \/ upTo <= s.recvN
  BY <1>1 DEF SkipForward
<1>2. CASE s.recvChain # NoChain /\ s.recvN < upTo
  <2>1. PICK new \in Seq(SkippedKey) :
          SkipForward(s, upTo) =
            [s EXCEPT !.skipped   = s.skipped \o new,
                      !.recvChain = StepChain(s.recvChain, upTo - s.recvN),
                      !.recvN     = upTo]
    BY <1>2, SkipForwardOpens
  <2>2. StepChain(s.recvChain, upTo - s.recvN) \in ChainKey
    BY <1>2, SessionFields, StepChainType
  <2>3. s.skipped \o new \in Seq(SkippedKey)
    BY SessionFields
  <2>4. QED
    BY <2>1, <2>2, <2>3 DEF Session
<1>3. QED
  BY <1>1, <1>2, SessionFields

(* The cap leaves a session whose cache is within it.                       *)
LEMMA CappedType ==
  ASSUME NEW s \in Session
  PROVE  /\ Capped(s) \in Session
         /\ Len(Capped(s).skipped) <= MaxSkippedKeys
         /\ Evicted(s.skipped) \subseteq KeyPair \X Nat
<1> DEFINE keys == s.skipped
<1>1. keys \in Seq(SkippedKey) /\ Len(keys) \in Nat
  BY SessionFields
<1>2. Overflow(keys) \in 0..Len(keys) /\ Len(keys) - Overflow(keys) <= MaxSkippedKeys
  BY <1>1, CapsAreNat DEF Overflow
<1>3. PushSkipped(keys) \in Seq(SkippedKey) /\ Len(PushSkipped(keys)) <= MaxSkippedKeys
  BY <1>1, <1>2, CapsAreNat DEF PushSkipped
<1>4. Evicted(keys) \subseteq KeyPair \X Nat
  <2>1. \A i \in 1..Overflow(keys) : keys[i] \in SkippedKey
    BY <1>1, <1>2
  <2>2. QED
    BY <2>1 DEF Evicted, SkippedKey
<1>5. Capped(s) = [s EXCEPT !.skipped = PushSkipped(keys)]
  BY DEF Capped, Session
<1> HIDE DEF keys
<1>6. Capped(s) \in Session /\ Capped(s).skipped = PushSkipped(keys)
  BY <1>3, <1>5 DEF Session
<1>7. QED
  BY <1>3, <1>4, <1>6 DEF keys

(* Taking one entry out of the cache.                                       *)
LEMMA RemoveIndexType ==
  ASSUME NEW keys \in Seq(SkippedKey), NEW i \in DOMAIN keys
  PROVE  /\ RemoveIndex(keys, i) \in Seq(SkippedKey)
         /\ Len(RemoveIndex(keys, i)) = Len(keys) - 1
<1>1. Len(keys) - 1 \in Nat
  OBVIOUS
<1>2. \A j \in 1..(Len(keys) - 1) : keys[j] \in SkippedKey /\ keys[j + 1] \in SkippedKey
  OBVIOUS
<1>3. QED
  BY <1>1, <1>2 DEF RemoveIndex

----------------------------------------------------------------------------
(* Type correctness.                                                        *)

(* Writing a well-formed session back keeps all of them well formed.        *)
LEMMA SessionPut ==
  ASSUME TypeOK, NEW d \in Device, NEW s \in Session,
         Len(s.skipped) <= MaxSkippedKeys,
         session' = [session EXCEPT ![d] = s]
  PROVE  /\ session' \in [Device -> Session]
         /\ \A e \in Device : Len(session'[e].skipped) <= MaxSkippedKeys
<1>1. session \in [Device -> Session]
      /\ \A e \in Device : Len(session[e].skipped) <= MaxSkippedKeys
  BY DEF TypeOK
<1>2. \A e \in Device : session'[e] = IF e = d THEN s ELSE session[e]
  BY <1>1
<1>3. QED
  BY <1>1, <1>2

(* Unseal and Throw change the session and the two tables by what they say. *)
LEMMA UnsealType ==
  ASSUME TypeOK, NEW d \in Device, NEW m \in network, NEW s \in Session,
         Len(s.skipped) <= MaxSkippedKeys, NEW key,
         Unseal(d, m, s, key) \/ Throw(d, m, s)
  PROVE  /\ session' \in [Device -> Session]
         /\ \A e \in Device : Len(session'[e].skipped) <= MaxSkippedKeys
         /\ seen' \in [Device -> SUBSET network]
         /\ failed' \in [Device -> SUBSET network]
<1>1. session' = [session EXCEPT ![d] = s]
  BY DEF Unseal, Throw
<1>2. seen' \in [Device -> SUBSET network] /\ failed' \in [Device -> SUBSET network]
  <2>1. seen \in [Device -> SUBSET network] /\ failed \in [Device -> SUBSET network]
    BY DEF TypeOK
  <2>2. CASE seen' = [seen EXCEPT ![d] = @ \cup {m}] /\ failed' = failed
    BY <2>1, <2>2
  <2>3. CASE failed' = [failed EXCEPT ![d] = @ \cup {m}] /\ seen' = seen
    BY <2>1, <2>3
  <2>4. QED
    BY <2>2, <2>3 DEF Unseal, Throw
<1>3. QED
  BY <1>1, <1>2, SessionPut

(* Giving positions up keeps the record of them well formed.                *)
LEMMA GiveUpType ==
  ASSUME TypeOK, NEW d \in Device, NEW P \in SUBSET (KeyPair \X Nat),
         GiveUp(d, P)
  PROVE  lost' \in [Device -> SUBSET (KeyPair \X Nat)]
BY DEF GiveUp, TypeOK

(* The tail of ratchetDecrypt keeps everything it touches well formed.      *)
LEMMA ReceiveOnType ==
  ASSUME TypeOK, NEW d \in Device, NEW m \in network, NEW s \in Session,
         ReceiveOn(d, m, s), s.recvChain # NoChain
  PROVE  /\ session' \in [Device -> Session]
         /\ \A e \in Device : Len(session'[e].skipped) <= MaxSkippedKeys
         /\ seen' \in [Device -> SUBSET network]
         /\ failed' \in [Device -> SUBSET network]
         /\ lost' \in [Device -> SUBSET (KeyPair \X Nat)]
<1>1. m \in Envelope /\ m.num \in Nat /\ m.ratchetKey \in KeyPair
  BY DEF TypeOK, Envelope
<1>2. CASE m.num < s.recvN \/ Refuses(s, m.num)
  <2>1. Capped(s) \in Session /\ Len(Capped(s).skipped) <= MaxSkippedKeys
        /\ Evicted(s.skipped) \subseteq KeyPair \X Nat
    BY CappedType
  <2>2. Throw(d, m, Capped(s))
    BY <1>2 DEF ReceiveOn
  <2>3. PICK P \in SUBSET (KeyPair \X Nat) : GiveUp(d, P)
    <3> DEFINE P == Evicted(s.skipped) \cup
                      IF m.num < s.recvN THEN {} ELSE {<<m.ratchetKey, m.num>>}
    <3>1. GiveUp(d, P)
      BY <1>2 DEF ReceiveOn
    <3>2. P \in SUBSET (KeyPair \X Nat)
      BY <1>1, <2>1
    <3>3. QED
      BY <3>1, <3>2
  <2>4. QED
    BY <2>1, <2>2, <2>3, UnsealType, GiveUpType
<1>3. CASE ~(m.num < s.recvN \/ Refuses(s, m.num))
  <2> DEFINE t == SkipForward(s, m.num)
  <2>1. t \in Session
    BY <1>1, SkipForwardType
  <2>2. t.recvChain \in ChainKey
    <3>1. CASE m.num <= s.recvN
      BY <3>1, SessionFields DEF SkipForward
    <3>2. CASE s.recvN < m.num
      <4>1. PICK new \in Seq(SkippedKey) :
              t = [s EXCEPT !.skipped   = s.skipped \o new,
                            !.recvChain = StepChain(s.recvChain, m.num - s.recvN),
                            !.recvN     = m.num]
        BY <1>1, <3>2, SkipForwardOpens
      <4>2. t.recvChain = StepChain(s.recvChain, m.num - s.recvN)
        BY <4>1 DEF Session
      <4>3. s.recvChain \in ChainKey /\ m.num - s.recvN \in Nat
        BY <1>1, <3>2, SessionFields
      <4>4. QED
        BY <4>2, <4>3, StepChainType
    <3>3. QED
      BY <1>1, <3>1, <3>2, SessionFields
  <2> HIDE DEF t
  <2>3. TakeNext(t) \in Session /\ TakeNext(t).skipped = t.skipped
    <3>1. StepChain(t.recvChain, 1) \in ChainKey /\ t.recvN + 1 \in Nat
      <4>1. t.recvN \in Nat /\ 1 \in Nat
        BY <2>1, SessionFields
      <4>2. QED
        BY <2>2, <4>1, StepChainType
    <3>2. QED
      BY <2>1, <3>1 DEF TakeNext, Session
  <2>4. /\ Capped(TakeNext(t)) \in Session
        /\ Len(Capped(TakeNext(t)).skipped) <= MaxSkippedKeys
        /\ Evicted(t.skipped) \subseteq KeyPair \X Nat
    BY <2>1, <2>3, CappedType
  <2>5. Unseal(d, m, Capped(TakeNext(t)), t.recvChain) /\ GiveUp(d, Evicted(t.skipped))
    BY <1>3 DEF ReceiveOn, t
  <2>6. QED
    BY <2>4, <2>5, UnsealType, GiveUpType
<1>4. QED
  BY <1>2, <1>3

(* A send adds one well-formed envelope.                                    *)
LEMMA SendType ==
  ASSUME TypeOK, NEW d \in Device, Send(d)
  PROVE  TypeOK'
<1> DEFINE s == OpenSendChain(session[d])
           m == [from |-> d, id |-> sent[d], ratchetKey |-> s.myKey,
                 num |-> s.sendN, prev |-> s.prevLen, key |-> s.sendChain]
           t == [s EXCEPT !.sendChain = StepChain(@, 1), !.sendN = @ + 1]
<1>1. session[d] \in Session /\ sent \in [Device -> Nat] /\ network \subseteq Envelope
      /\ Len(session[d].skipped) <= MaxSkippedKeys
  BY DEF TypeOK
<1>2. s \in Session /\ s.sendChain \in ChainKey /\ s.skipped = session[d].skipped
  BY <1>1, OpenSendChainType
<1>3. s.myKey \in KeyPair /\ s.sendN \in Nat /\ s.prevLen \in Nat
  BY <1>2, SessionFields
<1> HIDE DEF s
<1>4. m \in Envelope
  BY <1>1, <1>2, <1>3 DEF Envelope
<1>5. t \in Session /\ t.skipped = s.skipped
  <2>1. StepChain(s.sendChain, 1) \in ChainKey /\ s.sendN + 1 \in Nat
    <3>1. 1 \in Nat
      OBVIOUS
    <3>2. StepChain(s.sendChain, 1) \in ChainKey
      BY <1>2, <3>1, StepChainType
    <3>3. QED
      BY <1>3, <3>2
  <2>2. t = [s EXCEPT !.sendChain = StepChain(s.sendChain, 1),
                      !.sendN = s.sendN + 1]
    OBVIOUS
  <2> HIDE DEF t
  <2>3. QED
    BY <1>2, <2>1, <2>2 DEF Session
<1>6. /\ session' = [session EXCEPT ![d] = t]
      /\ network' = network \cup {m}
      /\ sent' = [sent EXCEPT ![d] = @ + 1]
      /\ generated' = generated /\ seen' = seen /\ failed' = failed /\ lost' = lost
  BY DEF Send, s
<1> HIDE DEF t, m
<1>7. /\ session' \in [Device -> Session]
      /\ \A e \in Device : Len(session'[e].skipped) <= MaxSkippedKeys
  BY <1>1, <1>2, <1>5, <1>6, SessionPut
<1>8. network' \subseteq Envelope /\ sent' \in [Device -> Nat]
  BY <1>1, <1>4, <1>6
<1>9. generated \in [Device -> Nat] /\ lost \in [Device -> SUBSET (KeyPair \X Nat)]
      /\ seen \in [Device -> SUBSET network] /\ failed \in [Device -> SUBSET network]
  BY DEF TypeOK
<1>10. seen' \in [Device -> SUBSET network'] /\ failed' \in [Device -> SUBSET network']
  BY <1>6, <1>9
<1>11. QED
  BY <1>6, <1>7, <1>8, <1>9, <1>10 DEF TypeOK

(* Receiving leaves the envelopes alone and keeps the session well formed.  *)
LEMMA ReceiveType ==
  ASSUME TypeOK, NEW d \in Device, NEW m \in network,
         ReceiveSkipped(d, m) \/ ReceiveCurrent(d, m) \/ ReceiveTurn(d, m)
  PROVE  TypeOK'
<1>1. /\ session[d] \in Session /\ m \in Envelope
      /\ generated \in [Device -> Nat] /\ sent \in [Device -> Nat]
      /\ network \subseteq Envelope /\ lost \in [Device -> SUBSET (KeyPair \X Nat)]
      /\ Len(session[d].skipped) <= MaxSkippedKeys
  BY DEF TypeOK
<1>2. m.num \in Nat /\ m.prev \in Nat /\ m.ratchetKey \in KeyPair
  BY <1>1 DEF Envelope
<1> DEFINE Rest == /\ session' \in [Device -> Session]
                   /\ \A e \in Device : Len(session'[e].skipped) <= MaxSkippedKeys
                   /\ seen' \in [Device -> SUBSET network]
                   /\ failed' \in [Device -> SUBSET network]
                   /\ lost' \in [Device -> SUBSET (KeyPair \X Nat)]
                   /\ generated' \in [Device -> Nat]
                   /\ sent' = sent /\ network' = network
<1>3. CASE ReceiveSkipped(d, m)
  <2>1. PICK i \in CachedAt(d, m) :
          Unseal(d, m, [session[d] EXCEPT !.skipped = RemoveIndex(@, i)],
                 session[d].skipped[i].key)
    BY <1>3 DEF ReceiveSkipped
  <2> DEFINE keys == session[d].skipped
             s == [session[d] EXCEPT !.skipped = RemoveIndex(@, i)]
  <2>2. keys \in Seq(SkippedKey) /\ i \in DOMAIN keys /\ Len(keys) \in Nat
    BY <1>1, SessionFields DEF CachedAt
  <2>3. RemoveIndex(keys, i) \in Seq(SkippedKey)
        /\ Len(RemoveIndex(keys, i)) = Len(keys) - 1
    BY <2>2, RemoveIndexType
  <2>4. s \in Session /\ s.skipped = RemoveIndex(keys, i)
    BY <1>1, <2>3 DEF Session
  <2>5. Len(s.skipped) <= MaxSkippedKeys
    BY <1>1, <2>2, <2>3, <2>4, CapsAreNat
  <2> HIDE DEF s
  <2>6. Rest
    BY <1>1, <1>3, <2>1, <2>4, <2>5, UnsealType DEF ReceiveSkipped, s
  <2>7. QED
    BY <1>1, <2>6 DEF TypeOK
<1>4. CASE ReceiveCurrent(d, m)
  <2>1. ReceiveOn(d, m, session[d]) /\ session[d].recvChain # NoChain
        /\ generated' = generated /\ sent' = sent /\ network' = network
    BY <1>4 DEF ReceiveCurrent, OnCurrentChain
  <2>2. Rest
    BY <1>1, <2>1, ReceiveOnType
  <2>3. QED
    BY <1>1, <2>2 DEF TypeOK
<1>5. CASE ReceiveTurn(d, m)
  <2>1. CASE Refuses(session[d], m.prev)
    <3>1. /\ Throw(d, m, session[d]) /\ GiveUp(d, {<<m.ratchetKey, m.num>>})
          /\ generated' = generated /\ sent' = sent /\ network' = network
      BY <1>5, <2>1 DEF ReceiveTurn
    <3>2. {<<m.ratchetKey, m.num>>} \in SUBSET (KeyPair \X Nat)
      BY <1>2
    <3>3. Rest
      BY <1>1, <3>1, <3>2, UnsealType, GiveUpType
    <3>4. QED
      BY <1>1, <3>3 DEF TypeOK
  <2>2. CASE ~Refuses(session[d], m.prev)
    <3> DEFINE old == SkipForward(session[d], m.prev)
               s == OpenRecvChain(old, m.ratchetKey, <<d, generated'[d]>>)
    <3>1. /\ generated' = [generated EXCEPT ![d] = @ + 1]
          /\ ReceiveOn(d, m, s)
          /\ sent' = sent /\ network' = network
      BY <1>5, <2>2 DEF ReceiveTurn
    <3>2. generated' \in [Device -> Nat] /\ <<d, generated'[d]>> \in KeyPair
      BY <1>1, <3>1 DEF KeyPair
    <3>3. old \in Session
      BY <1>1, <1>2, SkipForwardType
    <3>4. s \in Session
      BY <1>2, <3>2, <3>3, OpenRecvChainType
    <3>5. s.recvChain # NoChain
      <4> DEFINE root == DhRatchetStep(old.root, old.myKey, m.ratchetKey)
      <4>1. root \in Root
        BY <1>2, <3>3, SessionFields, DhRatchetStepType
      <4>2. s.recvChain = ChainFrom(root)
        BY DEF OpenRecvChain
      <4>3. QED
        BY <4>1, <4>2, NoChainIsNoKey DEF ChainFrom, ChainKey
    <3> HIDE DEF s
    <3>6. Rest
      BY <1>1, <3>1, <3>2, <3>4, <3>5, ReceiveOnType
    <3>7. QED
      BY <1>1, <3>6 DEF TypeOK
  <2>3. QED
    BY <2>1, <2>2
<1>6. QED
  BY <1>3, <1>4, <1>5

(* The variables of Ratchet keep their types, and the skipped-key cache its *)
(* cap, whatever the network does and whoever sends first.                  *)
THEOREM TypeCorrect == Spec => []TypeOK
<1>1. Init => TypeOK
  <2> SUFFICES ASSUME Init PROVE TypeOK
    OBVIOUS
  <2>1. \A d \in Device : InitSession(d) \in Session
    BY PeerFacts DEF InitSession, Session, Root, KeyPair, Identity, Device
  <2>2. \A d \in Device : Len(InitSession(d).skipped) <= MaxSkippedKeys
    BY CapsAreNat DEF InitSession
  <2>3. QED
    BY <2>1, <2>2 DEF Init, TypeOK
<1>2. TypeOK /\ [Next]_vars => TypeOK'
  <2> SUFFICES ASSUME TypeOK, [Next]_vars PROVE TypeOK'
    OBVIOUS
  <2>1. CASE UNCHANGED vars
    BY <2>1 DEF vars, TypeOK
  <2>2. CASE Next
    BY <2>2, SendType, ReceiveType DEF Next
  <2>3. QED
    BY <2>1, <2>2
<1>3. QED
  BY <1>1, <1>2, PTL DEF Spec

----------------------------------------------------------------------------
(* What the helpers do to the cache, as a set of entries.                   *)

(* Where the elements of a concatenation come from.                         *)
LEMMA ConcatFacts ==
  ASSUME NEW S, NEW a \in Seq(S), NEW b \in Seq(S)
  PROVE  /\ Len(a) \in Nat /\ Len(b) \in Nat
         /\ DOMAIN (a \o b) = 1..(Len(a) + Len(b))
         /\ \A i \in 1..Len(a) : (a \o b)[i] = a[i]
         /\ \A i \in 1..Len(b) : (a \o b)[Len(a) + i] = b[i]
OBVIOUS

(* What skipForward makes of session s: it keeps all but the receiving      *)
(* chain and the cache, and the cache gains exactly the keys passed over.   *)
Forwarded(s, t, upTo) ==
  /\ t \in Session
  /\ t.root = s.root /\ t.myKey = s.myKey /\ t.theirKey = s.theirKey
  /\ t.sendChain = s.sendChain /\ t.sendN = s.sendN /\ t.prevLen = s.prevLen
  /\ s.recvChain = NoChain => t.recvChain = NoChain
  /\ s.recvChain # NoChain =>
       /\ t.recvN = IF upTo <= s.recvN THEN s.recvN ELSE upTo
       /\ t.recvChain = [root |-> s.recvChain.root, pos |-> t.recvN]
       /\ t.recvChain \in ChainKey
  /\ Cache(s) \subseteq Cache(t)
  /\ \A e \in Cache(t) : e \in Cache(s) \/
       /\ s.recvChain # NoChain
       /\ e.ratchetKey = s.theirKey
       /\ e.num \in Nat /\ s.recvN <= e.num /\ e.num < upTo
       /\ e.key = [root |-> s.recvChain.root, pos |-> e.num]
  /\ s.recvChain # NoChain =>
       \A n \in Nat : s.recvN <= n /\ n < upTo =>
         [ratchetKey |-> s.theirKey, num |-> n,
          key |-> [root |-> s.recvChain.root, pos |-> n]] \in Cache(t)

(* skipForward does that.                                                   *)
LEMMA SkipForwardCache ==
  ASSUME NEW s \in Session, NEW upTo \in Nat,
         s.recvChain # NoChain => s.recvChain.pos = s.recvN
  PROVE  Forwarded(s, SkipForward(s, upTo), upTo)
<1> DEFINE t == SkipForward(s, upTo)
<1>1. t \in Session
  BY SkipForwardType
<1>2. s.recvN \in Nat /\ s.recvChain \in ChainKey \cup {NoChain}
      /\ s.skipped \in Seq(SkippedKey)
  BY SessionFields
<1>3. CASE s.recvChain = NoChain \/ upTo <= s.recvN
  <2>1. t = s
    BY <1>3 DEF SkipForward
  <2> HIDE DEF t
  <2>2. s.recvChain # NoChain =>
          s.recvChain \in ChainKey
          /\ s.recvChain = [root |-> s.recvChain.root, pos |-> s.recvN]
    BY <1>2 DEF ChainKey
  <2>3. \A n \in Nat : s.recvChain # NoChain => ~(s.recvN <= n /\ n < upTo)
    BY <1>2, <1>3
  <2>4. Forwarded(s, t, upTo)
    BY <1>1, <1>3, <2>1, <2>2, <2>3 DEF Forwarded
  <2>5. QED
    BY <2>4 DEF t
<1>4. CASE s.recvChain # NoChain /\ s.recvN < upTo
  <2>1. PICK new \in Seq(SkippedKey) :
          /\ Len(new) = upTo - s.recvN
          /\ \A i \in 1..Len(new) : new[i] =
               [ratchetKey |-> s.theirKey, num |-> s.recvN + i - 1,
                key |-> [root |-> s.recvChain.root,
                         pos |-> s.recvChain.pos + i - 1]]
          /\ t = [s EXCEPT !.skipped   = s.skipped \o new,
                           !.recvChain = StepChain(s.recvChain, upTo - s.recvN),
                           !.recvN     = upTo]
    BY <1>4, SkipForwardOpens
  <2> HIDE DEF t
  <2>2. /\ t.root = s.root /\ t.myKey = s.myKey /\ t.theirKey = s.theirKey
        /\ t.sendChain = s.sendChain /\ t.sendN = s.sendN /\ t.prevLen = s.prevLen
        /\ t.recvN = upTo /\ t.skipped = s.skipped \o new
        /\ t.recvChain = StepChain(s.recvChain, upTo - s.recvN)
    BY <2>1 DEF Session
  <2>3. /\ t.recvChain = [root |-> s.recvChain.root, pos |-> upTo]
        /\ t.recvChain \in ChainKey
    <3>1. s.recvChain \in ChainKey /\ upTo - s.recvN \in Nat
      BY <1>2, <1>4
    <3>2. /\ t.recvChain = [root |-> s.recvChain.root,
                            pos |-> s.recvChain.pos + (upTo - s.recvN)]
          /\ t.recvChain \in ChainKey
      BY <2>2, <3>1, StepChainType
    <3>3. s.recvChain.pos + (upTo - s.recvN) = upTo
      BY <1>2, <1>4
    <3>4. QED
      BY <3>2, <3>3
  <2> DEFINE old == s.skipped
  <2>4. /\ Len(old) \in Nat /\ Len(new) \in Nat
        /\ DOMAIN t.skipped = 1..(Len(old) + Len(new))
        /\ \A i \in 1..Len(old) : t.skipped[i] = old[i]
        /\ \A i \in 1..Len(new) : t.skipped[Len(old) + i] = new[i]
    BY <1>2, <2>2, ConcatFacts
  <2>5. \A i \in 1..Len(new) :
          /\ s.recvN + i - 1 \in Nat
          /\ new[i] = [ratchetKey |-> s.theirKey, num |-> s.recvN + i - 1,
                       key |-> [root |-> s.recvChain.root, pos |-> s.recvN + i - 1]]
    <3>1. s.recvN \in Nat /\ s.recvChain.pos = s.recvN /\ Len(new) \in Nat
      BY <1>2, <1>4, <2>4
    <3>2. ASSUME NEW i \in 1..Len(new) PROVE s.recvN + i - 1 \in Nat
      BY <3>1
    <3> QED BY <2>1, <3>1, <3>2
  <2>6. Cache(s) \subseteq Cache(t)
    <3>1. DOMAIN old = 1..Len(old)
      BY <1>2
    <3>2. \A i \in DOMAIN old : i \in DOMAIN t.skipped /\ t.skipped[i] = old[i]
      BY <2>4, <3>1
    <3>3. QED
      BY <3>2 DEF Cache
  <2>7. ASSUME NEW e \in Cache(t)
        PROVE  e \in Cache(s) \/
                 /\ e.ratchetKey = s.theirKey
                 /\ e.num \in Nat /\ s.recvN <= e.num /\ e.num < upTo
                 /\ e.key = [root |-> s.recvChain.root, pos |-> e.num]
    <3>1. PICK i \in 1..(Len(old) + Len(new)) : e = t.skipped[i]
      BY <2>4 DEF Cache
    <3>2. CASE i \in 1..Len(old)
      <4>1. i \in DOMAIN old /\ e = old[i]
        BY <1>2, <2>4, <3>1, <3>2
      <4>2. QED
        BY <4>1 DEF Cache
    <3>3. CASE i \notin 1..Len(old)
      <4>1. i - Len(old) \in 1..Len(new) /\ i = Len(old) + (i - Len(old))
        BY <2>4, <3>1, <3>3
      <4>2. e = new[i - Len(old)]
        BY <2>4, <3>1, <4>1
      <4> DEFINE j == i - Len(old)
      <4>3. j \in 1..(upTo - s.recvN) /\ e = new[j]
        BY <2>1, <4>1, <4>2
      <4> HIDE DEF j
      <4>4. e = [ratchetKey |-> s.theirKey, num |-> s.recvN + j - 1,
                 key |-> [root |-> s.recvChain.root, pos |-> s.recvN + j - 1]]
        BY <2>1, <2>5, <4>3
      <4>5. s.recvN + j - 1 \in Nat /\ s.recvN <= s.recvN + j - 1
            /\ s.recvN + j - 1 < upTo
        BY <1>2, <1>4, <4>3
      <4>6. QED
        BY <4>4, <4>5
    <3>4. QED
      BY <3>2, <3>3
  <2>8. ASSUME NEW n \in Nat, s.recvN <= n, n < upTo
        PROVE  [ratchetKey |-> s.theirKey, num |-> n,
                key |-> [root |-> s.recvChain.root, pos |-> n]] \in Cache(t)
    <3> DEFINE i == n - s.recvN + 1
    <3>1. i \in 1..Len(new) /\ s.recvN + i - 1 = n
      BY <1>2, <2>1, <2>8
    <3> HIDE DEF i
    <3>2. Len(old) + i \in DOMAIN t.skipped /\ t.skipped[Len(old) + i] = new[i]
      BY <2>4, <3>1
    <3>3. new[i] = [ratchetKey |-> s.theirKey, num |-> n,
                    key |-> [root |-> s.recvChain.root, pos |-> n]]
      BY <2>5, <3>1
    <3>4. QED
      BY <3>2, <3>3 DEF Cache
  <2>9. /\ t.recvN = IF upTo <= s.recvN THEN s.recvN ELSE upTo
        /\ t.recvChain = [root |-> s.recvChain.root, pos |-> t.recvN]
    BY <1>2, <1>4, <2>2, <2>3
  <2>10. Forwarded(s, t, upTo)
    BY <1>1, <1>4, <2>2, <2>3, <2>6, <2>7, <2>8, <2>9 DEF Forwarded
  <2>11. QED
    BY <2>10 DEF t
<1>5. QED
  BY <1>2, <1>3, <1>4

(* While nothing is evicted the cap changes nothing.                        *)
LEMMA CappedSame ==
  ASSUME NEW s \in Session, Evicted(s.skipped) = {}
  PROVE  Capped(s) = s
<1>1. s.skipped \in Seq(SkippedKey) /\ Len(s.skipped) \in Nat
  BY SessionFields
<1>2. Overflow(s.skipped) = 0
  <2>1. CASE Len(s.skipped) > MaxSkippedKeys
    <3>1. 1 \in 1..Overflow(s.skipped)
      BY <1>1, <2>1, CapsAreNat DEF Overflow
    <3>2. QED
      BY <3>1 DEF Evicted
  <2>2. QED
    BY <2>1 DEF Overflow
<1>3. PushSkipped(s.skipped) = s.skipped
  BY <1>1, <1>2 DEF PushSkipped
<1>4. QED
  BY <1>3 DEF Capped, Session

(* Taking entry i out leaves every other entry in the cache.                *)
LEMMA RemoveIndexCache ==
  ASSUME NEW s \in Session, NEW i \in DOMAIN s.skipped, NEW t,
         t = [s EXCEPT !.skipped = RemoveIndex(s.skipped, i)]
  PROVE  /\ Cache(t) \subseteq Cache(s)
         /\ \A e \in Cache(s) : e # s.skipped[i] => e \in Cache(t)
<1> DEFINE keys == s.skipped
           rest == RemoveIndex(keys, i)
<1>1. keys \in Seq(SkippedKey) /\ Len(keys) \in Nat /\ i \in 1..Len(keys)
  BY SessionFields
<1>2. t.skipped = rest
  BY DEF Session
<1>3. /\ DOMAIN rest = 1..(Len(keys) - 1)
      /\ \A j \in 1..(Len(keys) - 1) : rest[j] = IF j < i THEN keys[j] ELSE keys[j + 1]
  BY <1>1 DEF RemoveIndex
<1> HIDE DEF rest
<1>4. Cache(t) \subseteq Cache(s)
  <2>1. ASSUME NEW j \in DOMAIN rest
        PROVE  \E k \in DOMAIN keys : keys[k] = rest[j]
    <3>1. j \in DOMAIN keys /\ j + 1 \in DOMAIN keys
      BY <1>1, <1>3, <2>1
    <3>2. QED
      BY <1>3, <2>1, <3>1
  <2>2. QED
    BY <1>2, <2>1 DEF Cache
<1>5. ASSUME NEW e \in Cache(s), e # keys[i]
      PROVE  e \in Cache(t)
  <2>1. PICK k \in 1..Len(keys) : e = keys[k]
    BY <1>1 DEF Cache
  <2>2. CASE k < i
    <3>1. k \in DOMAIN rest /\ rest[k] = e
      BY <1>1, <1>3, <2>1, <2>2
    <3>2. QED
      BY <1>2, <3>1 DEF Cache
  <2>3. CASE i < k
    <3>1. k - 1 \in DOMAIN rest /\ rest[k - 1] = e
      BY <1>1, <1>3, <2>1, <2>3
    <3>2. QED
      BY <1>2, <3>1 DEF Cache
  <2>4. QED
    BY <1>1, <1>5, <2>1, <2>2, <2>3
<1>6. QED
  BY <1>4, <1>5

----------------------------------------------------------------------------
(* One step of the protocol.                                                *)

(* The envelopes in the network are well formed.                            *)
LEMMA EnvelopeFields ==
  ASSUME TypeOK, NEW m \in network
  PROVE  /\ m.from \in Device /\ m.ratchetKey \in KeyPair
         /\ m.num \in Nat /\ m.prev \in Nat /\ m.key \in ChainKey
BY DEF TypeOK, Envelope

(* What opening envelope m on receiving chain s leaves: s past m, with the  *)
(* keys passed over in the cache.                                           *)
Advanced(s, r, m) ==
  /\ r \in Session
  /\ r.root = s.root /\ r.myKey = s.myKey /\ r.theirKey = s.theirKey
  /\ r.sendChain = s.sendChain /\ r.sendN = s.sendN /\ r.prevLen = s.prevLen
  /\ r.recvChain # NoChain
  /\ r.recvChain.root = s.recvChain.root /\ r.recvChain.pos = r.recvN
  /\ r.recvN = m.num + 1
  /\ Cache(s) \subseteq Cache(r)
  /\ \A e \in Cache(r) : e \in Cache(s) \/
       /\ e.ratchetKey = s.theirKey
       /\ e.num \in Nat /\ s.recvN <= e.num /\ e.num < m.num
       /\ e.key = [root |-> s.recvChain.root, pos |-> e.num]
  /\ \A n \in Nat : s.recvN <= n /\ n < m.num =>
       [ratchetKey |-> s.theirKey, num |-> n,
        key |-> [root |-> s.recvChain.root, pos |-> n]] \in Cache(r)

Opens(d, m, r) ==
  /\ session' = [session EXCEPT ![d] = r]
  /\ seen' = [seen EXCEPT ![d] = @ \cup {m}]
  /\ failed' = failed

(* The entries of a cache are well formed.                                  *)
LEMMA CacheFields ==
  ASSUME TypeOK, NEW d \in Device, NEW e \in Cache(session[d])
  PROVE  e \in SkippedKey /\ e.num \in Nat
<1>1. session[d].skipped \in Seq(SkippedKey)
  BY SessionFields DEF TypeOK
<1>2. PICK i \in DOMAIN session[d].skipped : e = session[d].skipped[i]
  BY DEF Cache
<1>3. e \in SkippedKey
  BY <1>1, <1>2
<1>4. QED
  BY <1>3 DEF SkippedKey

(* An envelope whose key lies on receiving chain s, at or after its         *)
(* position, is opened by the tail of ratchetDecrypt.                       *)
LEMMA ReceiveOnOpens ==
  ASSUME TypeOK, NEW d \in Device, NEW m \in network, NEW s \in Session,
         s.recvChain # NoChain, s.recvChain.pos = s.recvN,
         s.recvN <= m.num,
         m.key = [root |-> s.recvChain.root, pos |-> m.num],
         ReceiveOn(d, m, s), WithinCaps'
  PROVE  \E r \in Session : Advanced(s, r, m) /\ Opens(d, m, r)
<1> DEFINE t == SkipForward(s, m.num)
           r == TakeNext(t)
<1>1. m.num \in Nat /\ s.recvN \in Nat /\ m.ratchetKey \in KeyPair
  BY EnvelopeFields, SessionFields
<1>2. lost \in [Device -> SUBSET (KeyPair \X Nat)]
  BY DEF TypeOK
<1>3. ASSUME NEW P, GiveUp(d, P) PROVE P = {}
  BY <1>2, <1>3 DEF GiveUp, WithinCaps
<1>4. ~(m.num < s.recvN)
  BY <1>1
<1>5. ~Refuses(s, m.num)
  <2>1. CASE Refuses(s, m.num)
    <3> DEFINE P == Evicted(s.skipped) \cup {<<m.ratchetKey, m.num>>}
    <3>1. GiveUp(d, P)
      BY <1>4, <2>1 DEF ReceiveOn
    <3>2. P # {}
      OBVIOUS
    <3> HIDE DEF P
    <3>3. QED
      BY <1>3, <3>1, <3>2
  <2>2. QED
    BY <2>1
<1>6. Unseal(d, m, Capped(r), t.recvChain) /\ GiveUp(d, Evicted(t.skipped))
  BY <1>4, <1>5 DEF ReceiveOn
<1> HIDE DEF t
<1>7. /\ t \in Session
      /\ t.root = s.root /\ t.myKey = s.myKey /\ t.theirKey = s.theirKey
      /\ t.sendChain = s.sendChain /\ t.sendN = s.sendN /\ t.prevLen = s.prevLen
      /\ t.recvN = m.num
      /\ t.recvChain = [root |-> s.recvChain.root, pos |-> m.num]
      /\ t.recvChain \in ChainKey
      /\ Cache(s) \subseteq Cache(t)
      /\ \A e \in Cache(t) : e \in Cache(s) \/
           /\ e.ratchetKey = s.theirKey
           /\ e.num \in Nat /\ s.recvN <= e.num /\ e.num < m.num
           /\ e.key = [root |-> s.recvChain.root, pos |-> e.num]
      /\ \A n \in Nat : s.recvN <= n /\ n < m.num =>
           [ratchetKey |-> s.theirKey, num |-> n,
            key |-> [root |-> s.recvChain.root, pos |-> n]] \in Cache(t)
  <2>1. (IF m.num <= s.recvN THEN s.recvN ELSE m.num) = m.num
    BY <1>1
  <2>2. Forwarded(s, t, m.num)
    BY <1>1, SkipForwardCache DEF t
  <2>3. QED
    BY <2>1, <2>2 DEF Forwarded
<1>8. /\ r \in Session
      /\ r.root = t.root /\ r.myKey = t.myKey /\ r.theirKey = t.theirKey
      /\ r.sendChain = t.sendChain /\ r.sendN = t.sendN /\ r.prevLen = t.prevLen
      /\ r.recvChain = [root |-> s.recvChain.root, pos |-> m.num + 1]
      /\ r.recvChain \in ChainKey
      /\ r.recvN = m.num + 1
      /\ r.skipped = t.skipped
  <2>1. 1 \in Nat
    OBVIOUS
  <2>2. /\ StepChain(t.recvChain, 1) = [root |-> t.recvChain.root, pos |-> t.recvChain.pos + 1]
        /\ StepChain(t.recvChain, 1) \in ChainKey
    BY <1>7, <2>1, StepChainType
  <2>3. t.recvChain.root = s.recvChain.root /\ t.recvChain.pos = m.num
    BY <1>7
  <2>4. m.num + 1 \in Nat
    BY <1>1
  <2>5. r = [t EXCEPT !.recvChain = StepChain(t.recvChain, 1), !.recvN = t.recvN + 1]
    BY DEF TakeNext
  <2> HIDE DEF r
  <2>6. QED
    BY <1>7, <2>2, <2>3, <2>4, <2>5 DEF Session
<1> HIDE DEF r
<1>9. Evicted(t.skipped) = {}
  BY <1>3, <1>6
<1>10. Capped(r) = r
  BY <1>8, <1>9, CappedSame
<1>11. Opens(d, m, r)
  BY <1>6, <1>7, <1>10 DEF Unseal, Opens
<1>12. r.recvChain # NoChain /\ r.recvChain.root = s.recvChain.root
       /\ r.recvChain.pos = r.recvN
  BY <1>8, NoChainIsNoKey
<1>13. Cache(r) = Cache(t)
  BY <1>8 DEF Cache
<1>14. Advanced(s, r, m)
  BY <1>7, <1>8, <1>12, <1>13 DEF Advanced
<1>15. QED
  BY <1>8, <1>11, <1>14

(* The two devices seen from one of them.                                   *)
LEMMA Pair ==
  ASSUME NEW d \in Device
  PROVE  /\ \A e \in Device : e = d \/ e = Peer(d)
         /\ Phase <=> \/ Fresh
                      \/ Behind(d, Peer(d)) \/ Behind(Peer(d), d)
                      \/ Level(d, Peer(d)) \/ Level(Peer(d), d)
<1>1. \A e \in Device : e = d \/ e = Peer(d)
  BY DevicesAreDistinct DEF Device, Peer
<1>2. QED
  BY <1>1, PeerFacts DEF Phase

(* The fields of a session nobody has used yet.                             *)
LEMMA FreshFields ==
  ASSUME Fresh, NEW d \in Device
  PROVE  /\ network = {}
         /\ session[d].root = <<>>
         /\ session[d].myKey = Identity(d) /\ session[d].theirKey = Identity(Peer(d))
         /\ session[d].sendChain = NoChain /\ session[d].recvChain = NoChain
<1>1. session[d] = InitSession(d) /\ network = {}
  BY DEF Fresh
<1>2. /\ InitSession(d).root = <<>>
      /\ InitSession(d).myKey = Identity(d)
      /\ InitSession(d).theirKey = Identity(Peer(d))
      /\ InitSession(d).sendChain = NoChain /\ InitSession(d).recvChain = NoChain
  BY DEF InitSession
<1>3. QED
  BY <1>1, <1>2

(* What ratchetEncrypt makes of session s when it seals envelope m.         *)
Extended(s, t, m) ==
  /\ t \in Session
  /\ t.myKey = s.myKey /\ t.theirKey = s.theirKey /\ t.recvChain = s.recvChain
  /\ t.recvN = s.recvN /\ t.skipped = s.skipped
  /\ t.sendChain # NoChain
  /\ t.sendChain.pos = t.sendN /\ t.sendN = m.num + 1 /\ m.num \in Nat
  /\ m.ratchetKey = t.myKey /\ m.prev = t.prevLen
  /\ m.key = [root |-> t.sendChain.root, pos |-> m.num]
  /\ s.sendChain # NoChain =>
       /\ t.root = s.root /\ t.sendChain.root = s.sendChain.root
       /\ m.num = s.sendN /\ t.prevLen = s.prevLen
  /\ s.sendChain = NoChain =>
       /\ t.root = Append(s.root, DH(s.myKey, s.theirKey))
       /\ t.sendChain.root = t.root
       /\ m.num = 0 /\ t.prevLen = s.sendN

(* A send adds one envelope that extends the sending chain.                 *)
LEMMA SendExtends ==
  ASSUME TypeOK, NEW d \in Device, Send(d),
         session[d].sendChain # NoChain =>
           session[d].sendChain.pos = session[d].sendN
  PROVE  \E t, m :
           /\ Extended(session[d], t, m)
           /\ m.from = d
           /\ session' = [session EXCEPT ![d] = t]
           /\ network' = network \cup {m}
<1> DEFINE o == session[d]
           s == OpenSendChain(o)
           m == [from |-> d, id |-> sent[d], ratchetKey |-> s.myKey,
                 num |-> s.sendN, prev |-> s.prevLen, key |-> s.sendChain]
           t == [s EXCEPT !.sendChain = StepChain(@, 1), !.sendN = @ + 1]
<1>1. o \in Session
  BY DEF TypeOK
<1>2. s \in Session /\ s.sendChain \in ChainKey
  BY <1>1, OpenSendChainType
<1>3. /\ s.myKey = o.myKey /\ s.theirKey = o.theirKey /\ s.recvChain = o.recvChain
      /\ s.recvN = o.recvN /\ s.skipped = o.skipped
      /\ s.sendChain.pos = s.sendN
      /\ o.sendChain # NoChain => s = o
      /\ o.sendChain = NoChain =>
           /\ s.root = Append(o.root, DH(o.myKey, o.theirKey))
           /\ s.sendChain.root = s.root
           /\ s.sendN = 0 /\ s.prevLen = o.sendN
  <2>1. CASE o.sendChain # NoChain
    BY <2>1 DEF OpenSendChain
  <2>2. CASE o.sendChain = NoChain
    <3> DEFINE root == DhRatchetStep(o.root, o.myKey, o.theirKey)
    <3>1. s = [o EXCEPT !.root = root, !.sendChain = ChainFrom(root),
                        !.prevLen = o.sendN, !.sendN = 0]
      BY <2>2 DEF OpenSendChain
    <3> HIDE DEF root, s
    <3>2. /\ s.root = root /\ s.sendChain = ChainFrom(root)
          /\ s.prevLen = o.sendN /\ s.sendN = 0
          /\ s.myKey = o.myKey /\ s.theirKey = o.theirKey
          /\ s.recvChain = o.recvChain /\ s.recvN = o.recvN
          /\ s.skipped = o.skipped
      BY <1>1, <3>1 DEF Session
    <3>3. QED
      BY <2>2, <3>2 DEF ChainFrom, root, DhRatchetStep
  <2>3. QED
    BY <2>1, <2>2
<1>4. s.myKey \in KeyPair /\ s.sendN \in Nat /\ s.prevLen \in Nat
  BY <1>2, SessionFields
<1>5. network' = network \cup {m} /\ session' = [session EXCEPT ![d] = t]
  BY DEF Send
<1> HIDE DEF s, o
<1>6. /\ t \in Session
      /\ t.root = s.root /\ t.myKey = s.myKey /\ t.theirKey = s.theirKey
      /\ t.recvChain = s.recvChain /\ t.recvN = s.recvN /\ t.skipped = s.skipped
      /\ t.prevLen = s.prevLen
      /\ t.sendChain = [root |-> s.sendChain.root, pos |-> s.sendN + 1]
      /\ t.sendChain \in ChainKey
      /\ t.sendN = s.sendN + 1
  <2>1. 1 \in Nat /\ s.sendN + 1 \in Nat
    BY <1>4
  <2>2. /\ StepChain(s.sendChain, 1) = [root |-> s.sendChain.root, pos |-> s.sendN + 1]
        /\ StepChain(s.sendChain, 1) \in ChainKey
    BY <1>2, <1>3, <2>1, StepChainType
  <2>3. t = [s EXCEPT !.sendChain = StepChain(s.sendChain, 1),
                      !.sendN = s.sendN + 1]
    OBVIOUS
  <2> HIDE DEF t
  <2>4. QED
    BY <1>2, <2>1, <2>2, <2>3 DEF Session
<1> HIDE DEF t
<1>7. /\ m.from = d /\ m.ratchetKey = s.myKey /\ m.num = s.sendN
      /\ m.prev = s.prevLen /\ m.key = s.sendChain
  OBVIOUS
<1> HIDE DEF m
<1>8. s.sendChain = [root |-> s.sendChain.root, pos |-> s.sendN]
  BY <1>2, <1>3 DEF ChainKey
<1>9. t.sendChain # NoChain
  BY <1>6, NoChainIsNoKey
<1>10. Extended(o, t, m)
  BY <1>3, <1>4, <1>6, <1>7, <1>8, <1>9 DEF Extended
<1>11. QED
  BY <1>5, <1>7, <1>10 DEF o

(* The phase after a send: a device with a chain continues it, and one      *)
(* without begins one, which puts it ahead.                                 *)
LEMMA SendPhase ==
  ASSUME TypeOK, OneStarter, Phase, NEW d \in Device, NEW t, NEW m,
         d \in Starters \/ session[d].recvChain # NoChain,
         Extended(session[d], t, m),
         session' = [session EXCEPT ![d] = t]
  PROVE  \/ /\ session[d].sendChain # NoChain
            /\ ~Fresh
            /\ Behind(d, Peer(d))' <=> Behind(d, Peer(d))
            /\ Behind(Peer(d), d)' <=> Behind(Peer(d), d)
            /\ Level(d, Peer(d))' <=> Level(d, Peer(d))
            /\ Level(Peer(d), d)' <=> Level(Peer(d), d)
         \/ /\ session[d].sendChain = NoChain
            /\ Fresh \/ Level(Peer(d), d)
            /\ ~Behind(d, Peer(d)) /\ ~Behind(Peer(d), d)
            /\ Behind(d, Peer(d))'
            /\ ~Behind(Peer(d), d)' /\ ~Level(d, Peer(d))' /\ ~Level(Peer(d), d)'
<1> DEFINE p == Peer(d)
           s == session[d]
<1>1. p \in Device /\ p # d /\ Peer(p) = d
  BY PeerFacts
<1>2. session'[d] = t /\ session'[p] = session[p]
  BY <1>1 DEF TypeOK
<1>3. CASE s.sendChain # NoChain
  <2>1. ~Fresh
    BY <1>3, FreshFields
  <2>2. /\ t.root = s.root /\ t.myKey = s.myKey /\ t.theirKey = s.theirKey
        /\ t.recvChain = s.recvChain /\ t.sendChain # NoChain
        /\ t.sendChain.root = s.sendChain.root
    BY <1>3 DEF Extended
  <2>3. (Behind(d, p)' <=> Behind(d, p)) /\ (Behind(p, d)' <=> Behind(p, d))
    BY <1>2, <1>3, <2>2 DEF Behind
  <2>4. (Level(d, p)' <=> Level(d, p)) /\ (Level(p, d)' <=> Level(p, d))
    BY <1>2, <1>3, <2>2 DEF Level
  <2>5. QED
    BY <1>3, <2>1, <2>3, <2>4
<1>4. CASE s.sendChain = NoChain
  <2>1. /\ t.root = Append(s.root, DH(s.myKey, s.theirKey))
        /\ t.myKey = s.myKey /\ t.theirKey = s.theirKey
        /\ t.recvChain = s.recvChain /\ t.sendChain # NoChain
        /\ t.sendChain.root = t.root
    BY <1>4 DEF Extended
  <2>2. ~Behind(d, p) /\ ~Level(d, p)
    BY <1>4 DEF Behind, Level
  <2>3. ~Behind(p, d)
    BY <1>4 DEF Behind
  <2>4. Fresh \/ Level(p, d)
    BY <2>2, <2>3, Pair
  <2>5. ~Level(p, d)'
    BY <1>2, <2>1 DEF Level
  <2>6. CASE Fresh
    <3>1. /\ s.root = <<>> /\ s.myKey = Identity(d) /\ s.theirKey = Identity(p)
          /\ s.recvChain = NoChain
          /\ session[p].root = <<>> /\ session[p].myKey = Identity(p)
          /\ session[p].sendChain = NoChain /\ session[p].recvChain = NoChain
      BY <1>1, <2>6, FreshFields
    <3>2. p \notin Starters
      BY <1>1, <3>1 DEF OneStarter
    <3>3. Behind(d, p)'
      BY <1>2, <2>1, <3>1, <3>2 DEF Behind
    <3>4. ~Behind(p, d)' /\ ~Level(d, p)'
      BY <1>2, <3>1 DEF Behind, Level
    <3>5. QED
      BY <1>4, <2>2, <2>3, <2>4, <2>5, <3>3, <3>4
  <2>7. CASE Level(p, d)
    <3>1. Behind(d, p)'
      BY <1>2, <2>1, <2>7 DEF Behind, Level
    <3>2. ~Behind(p, d)' /\ ~Level(d, p)'
      BY <1>2, <2>1, <2>7 DEF Behind, Level
    <3>3. QED
      BY <1>4, <2>2, <2>3, <2>4, <2>5, <3>1, <3>2
  <2>8. QED
    BY <2>4, <2>6, <2>7
<1>5. QED
  BY <1>3, <1>4

(* Sending preserves every part of the invariant.                           *)
LEMMA SendInStep ==
  ASSUME TypeOK, OneStarter, InStep, NEW d \in Device, Send(d)
  PROVE  InStep'
<1> DEFINE p == Peer(d)
           s == session[d]
<1>1. p \in Device /\ p # d /\ Peer(p) = d /\ \A e \in Device : e = d \/ e = p
  BY PeerFacts, Pair
<1>2. Phase /\ KeysExist /\ SendingChain /\ HeadersUnique /\ ReceivingChain
      /\ CacheRight /\ Located /\ NothingFailed
  BY DEF InStep
<1>3. PICK t, m : /\ Extended(s, t, m) /\ m.from = d
                  /\ session' = [session EXCEPT ![d] = t]
                  /\ network' = network \cup {m}
  <2>1. s.sendChain # NoChain => s.sendChain.pos = s.sendN
    BY <1>2 DEF SendingChain
  <2>2. QED
    BY <2>1, SendExtends
<1>4. /\ d \in Starters \/ s.recvChain # NoChain
      /\ generated' = generated /\ seen' = seen /\ failed' = failed /\ lost' = lost
  BY DEF Send
<1>5. session'[d] = t /\ session'[p] = session[p]
  BY <1>1, <1>3 DEF TypeOK
<1>6. /\ t.myKey = s.myKey /\ t.theirKey = s.theirKey /\ t.recvChain = s.recvChain
      /\ t.recvN = s.recvN /\ t.skipped = s.skipped
      /\ t.sendChain # NoChain /\ t.sendChain.pos = t.sendN
      /\ t.sendN = m.num + 1 /\ m.num \in Nat
      /\ m.ratchetKey = s.myKey /\ m.prev = t.prevLen
      /\ m.key = [root |-> t.sendChain.root, pos |-> m.num]
  BY <1>3 DEF Extended
<1>7. /\ s.sendN \in Nat /\ s.recvN \in Nat
      /\ session[p].sendN \in Nat /\ session[p].recvN \in Nat
  BY <1>1, SessionFields DEF TypeOK
<1>8. From(d)' = From(d) \cup {m} /\ From(p)' = From(p)
  BY <1>1, <1>3 DEF From
<1>9. Cache(session[d])' = Cache(session[d]) /\ Cache(session[p])' = Cache(session[p])
  BY <1>5, <1>6 DEF Cache
<1>10. \A n \in From(d) : n \in network /\ n.from = d /\ n.num \in Nat
  BY EnvelopeFields DEF From
<1>11. \/ /\ s.sendChain # NoChain
          /\ ~Fresh
          /\ Behind(d, p)' <=> Behind(d, p)
          /\ Behind(p, d)' <=> Behind(p, d)
          /\ Level(d, p)' <=> Level(d, p)
          /\ Level(p, d)' <=> Level(p, d)
       \/ /\ s.sendChain = NoChain
          /\ Fresh \/ Level(p, d)
          /\ ~Behind(d, p) /\ ~Behind(p, d)
          /\ Behind(d, p)'
          /\ ~Behind(p, d)' /\ ~Level(d, p)' /\ ~Level(p, d)'
  BY <1>2, <1>3, <1>4, SendPhase
<1>12. /\ s.sendChain # NoChain => /\ t.root = s.root
                                   /\ t.sendChain.root = s.sendChain.root
                                   /\ m.num = s.sendN /\ t.prevLen = s.prevLen
       /\ s.sendChain = NoChain => t.prevLen = s.sendN
  BY <1>3 DEF Extended
(* Nothing was sent before at the position of m.                            *)
<1>13. \A n \in From(d) : n.ratchetKey = s.myKey =>
         /\ s.sendChain # NoChain /\ n.num < m.num
         /\ n.prev = t.prevLen
         /\ n.key = [root |-> t.sendChain.root, pos |-> n.num]
  BY <1>2, <1>12 DEF SendingChain
<1>14. \A e \in Cache(session[p]) : e.ratchetKey = s.myKey =>
         s.sendChain # NoChain /\ e.num < m.num
  BY <1>1, <1>2, <1>12 DEF CacheRight
(* If p already receives on the chain m extends, the chains are the same.   *)
<1>15. session[p].recvChain # NoChain /\ session[p].theirKey = s.myKey =>
         /\ s.sendChain # NoChain
         /\ session[p].recvChain.root = t.sendChain.root
         /\ ~Behind(d, p) /\ ~Level(p, d)
  <2> SUFFICES ASSUME session[p].recvChain # NoChain, session[p].theirKey = s.myKey
               PROVE  /\ s.sendChain # NoChain
                      /\ session[p].recvChain.root = t.sendChain.root
                      /\ ~Behind(d, p) /\ ~Level(p, d)
    OBVIOUS
  <2>1. ~Fresh
    BY <1>1, FreshFields
  <2>2. ~Behind(d, p) /\ ~Level(p, d)
    BY DEF Behind, Level
  <2>3. s.sendChain # NoChain
    BY <1>11, <2>1, <2>2
  <2>4. Behind(p, d) \/ Level(d, p)
    BY <1>2, <2>1, <2>2, Pair
  <2>5. session[p].recvChain.root = s.sendChain.root
    BY <2>3, <2>4 DEF Behind, Level
  <2>6. QED
    BY <1>12, <2>2, <2>3, <2>5
<1>16. Phase'
  <2>1. Behind(d, p)' \/ Behind(p, d)' \/ Level(d, p)' \/ Level(p, d)'
    BY <1>2, <1>11, Pair
  <2>2. QED
    BY <1>1, <2>1 DEF Phase
<1>17. KeysExist'
  <2>1. \A e \in Device : session'[e].myKey = <<e, generated'[e]>>
                       /\ session'[e].theirKey \in {Peer(e)} \X (0..generated'[Peer(e)])
    BY <1>1, <1>2, <1>4, <1>5, <1>6 DEF KeysExist
  <2>2. m.ratchetKey \in {d} \X (0..generated[d])
    <3>1. generated[d] \in Nat /\ s.myKey = <<d, generated[d]>>
      BY <1>2 DEF KeysExist, TypeOK
    <3>2. generated[d] \in 0..generated[d]
      BY <3>1
    <3>3. QED
      BY <1>6, <3>1, <3>2
  <2>3. \A e \in Device : \A n \in From(e)' : n.ratchetKey \in {e} \X (0..generated'[e])
    BY <1>1, <1>2, <1>4, <1>8, <2>2 DEF KeysExist
  <2>4. \A e \in Device : \A k \in Cache(session[e])' :
          k.ratchetKey \in {Peer(e)} \X (0..generated'[Peer(e)])
    BY <1>1, <1>2, <1>4, <1>9 DEF KeysExist
  <2>5. QED
    BY <2>1, <2>3, <2>4 DEF KeysExist
<1>18. SendingChain'
  <2>1. \A n \in From(d)' : n.ratchetKey = t.myKey =>
          /\ t.sendChain # NoChain /\ n.num < t.sendN /\ n.prev = t.prevLen
          /\ n.key = [root |-> t.sendChain.root, pos |-> n.num]
    BY <1>6, <1>8, <1>10, <1>13
  <2>2. QED
    BY <1>1, <1>2, <1>5, <1>6, <1>8, <2>1 DEF SendingChain
<1>19. HeadersUnique'
  <2>1. \A n \in From(d) : n.ratchetKey = m.ratchetKey => n.num # m.num
    BY <1>6, <1>10, <1>13
  <2>2. QED
    BY <1>1, <1>2, <1>8, <2>1 DEF HeadersUnique
<1>20. ReceivingChain'
  <2>1. ASSUME session[p].recvChain # NoChain
        PROVE  /\ session[p].recvChain.pos = session[p].recvN
               /\ session[p].theirKey = t.myKey => session[p].recvN <= t.sendN
    BY <1>1, <1>2, <1>6, <1>7, <1>12, <1>15, <2>1 DEF ReceivingChain
  <2>2. ASSUME session[p].recvChain # NoChain,
               NEW n \in From(d)', n.ratchetKey = session[p].theirKey
        PROVE  /\ n.key = [root |-> session[p].recvChain.root, pos |-> n.num]
               /\ Behind(d, p)' => n.num < t.prevLen
               /\ Level(p, d)' => n.num < t.sendN
    <3>1. CASE n = m
      <4>1. /\ s.sendChain # NoChain
            /\ session[p].recvChain.root = t.sendChain.root
            /\ ~Behind(d, p) /\ ~Level(p, d)
        BY <1>6, <1>15, <2>2, <3>1
      <4>2. QED
        BY <1>6, <1>11, <3>1, <4>1
    <3>2. CASE n \in From(d)
      <4>1. /\ n.key = [root |-> session[p].recvChain.root, pos |-> n.num]
            /\ Behind(d, p) => n.num < s.prevLen
            /\ Level(p, d) => n.num < s.sendN
        BY <1>1, <1>2, <2>2, <3>2 DEF ReceivingChain
      <4>2. ~Fresh
        BY <1>1, <2>2, FreshFields
      <4>3. CASE s.sendChain # NoChain
        BY <1>6, <1>7, <1>10, <1>11, <1>12, <3>2, <4>1, <4>3
      <4>4. CASE s.sendChain = NoChain
        BY <1>11, <1>12, <4>1, <4>2, <4>4
      <4>5. QED
        BY <4>3, <4>4
    <3>3. QED
      BY <1>8, <2>2, <3>1, <3>2
  <2>3. ASSUME s.recvChain # NoChain
        PROVE  /\ s.recvChain.pos = s.recvN
               /\ s.theirKey = session[p].myKey => s.recvN <= session[p].sendN
    BY <1>2, <2>3 DEF ReceivingChain
  <2>4. ASSUME s.recvChain # NoChain,
               NEW n \in From(p), n.ratchetKey = s.theirKey
        PROVE  /\ n.key = [root |-> s.recvChain.root, pos |-> n.num]
               /\ Behind(p, d)' => n.num < session[p].prevLen
               /\ Level(d, p)' => n.num < session[p].sendN
    BY <1>2, <1>11, <2>4 DEF ReceivingChain
  <2>5. QED
    BY <1>1, <1>5, <1>6, <1>8, <2>1, <2>2, <2>3, <2>4 DEF ReceivingChain
<1>21. CacheRight'
  <2>1. ASSUME NEW e \in Cache(session[p])
        PROVE  /\ e.ratchetKey = t.myKey => t.sendChain # NoChain /\ e.num < t.sendN
               /\ \A n \in From(d)' : n.ratchetKey = e.ratchetKey /\ n.num = e.num =>
                    n.key = e.key
    <3>1. e.ratchetKey = s.myKey => e.num < m.num
      BY <1>14, <2>1
    <3>2. e.num \in Nat
      BY <1>1, <2>1, CacheFields
    <3>3. \A n \in From(d) : n.ratchetKey = e.ratchetKey /\ n.num = e.num => n.key = e.key
      BY <1>1, <1>2, <2>1 DEF CacheRight
    <3>4. ~(m.ratchetKey = e.ratchetKey /\ m.num = e.num)
      BY <1>6, <3>1, <3>2
    <3>5. e.ratchetKey = t.myKey => e.num < t.sendN
      BY <1>6, <3>1, <3>2
    <3>6. QED
      BY <1>6, <1>8, <3>3, <3>4, <3>5
  <2>2. QED
    BY <1>1, <1>2, <1>5, <1>8, <1>9, <2>1 DEF CacheRight
<1>22. Located'
  <2>1. ASSUME NEW n \in From(p)
        PROVE  n \in seen[d] \/ InCache(d, n)' \/ OnRecvChain(d, n)' \/ OnNextChain(d, n)'
    <3>1. n \in seen[d] \/ InCache(d, n) \/ OnRecvChain(d, n) \/ OnNextChain(d, n)
      BY <1>2, <2>1 DEF Located
    <3>2. InCache(d, n) => InCache(d, n)'
      BY <1>9 DEF InCache
    <3>3. OnRecvChain(d, n) => OnRecvChain(d, n)'
      BY <1>5, <1>6 DEF OnRecvChain, OnCurrentChain
    <3>4. OnNextChain(d, n) => OnNextChain(d, n)'
      BY <1>5, <1>11 DEF OnNextChain
    <3>5. QED
      BY <3>1, <3>2, <3>3, <3>4
  <2>2. ASSUME NEW n \in From(d)
        PROVE  n \in seen[p] \/ InCache(p, n)' \/ OnRecvChain(p, n)' \/ OnNextChain(p, n)'
    <3>1. n \in seen[p] \/ InCache(p, n) \/ OnRecvChain(p, n) \/ OnNextChain(p, n)
      BY <1>1, <1>2, <2>2 DEF Located
    <3>2. InCache(p, n) => InCache(p, n)'
      BY <1>9 DEF InCache
    <3>3. OnRecvChain(p, n) => OnRecvChain(p, n)'
      BY <1>5 DEF OnRecvChain, OnCurrentChain
    <3>4. OnNextChain(p, n) => OnNextChain(p, n)'
      BY <1>1, <1>5, <1>6, <1>11 DEF OnNextChain
    <3>5. QED
      BY <3>1, <3>2, <3>3, <3>4
  <2>3. OnRecvChain(p, m)' \/ OnNextChain(p, m)'
    <3>1. CASE Behind(d, p)'
      BY <1>1, <1>5, <1>6, <3>1 DEF OnNextChain
    <3>2. CASE ~Behind(d, p)'
      <4>1. s.sendChain # NoChain /\ ~Fresh /\ ~Behind(d, p)
        BY <1>11, <3>2
      <4>2. ~Level(p, d)
        BY <4>1 DEF Level
      <4>3. Level(d, p) \/ Behind(p, d)
        BY <1>2, <4>1, <4>2, Pair
      <4>4. session[p].theirKey = s.myKey /\ session[p].recvChain # NoChain
        BY <4>1, <4>3 DEF Behind, Level
      <4>5. session[p].recvN <= m.num
        BY <1>1, <1>2, <1>12, <4>1, <4>4 DEF ReceivingChain
      <4>6. QED
        BY <1>5, <1>6, <1>7, <4>4, <4>5 DEF OnRecvChain, OnCurrentChain
    <3>3. QED
      BY <3>1, <3>2
  <2>4. QED
    BY <1>1, <1>4, <1>8, <2>1, <2>2, <2>3 DEF Located
<1>23. NothingFailed'
  BY <1>2, <1>4 DEF NothingFailed
<1>24. QED
  BY <1>16, <1>17, <1>18, <1>19, <1>20, <1>21, <1>22, <1>23 DEF InStep

(* Receiving on the current chain or from the cache does not change whose   *)
(* turn it is.                                                              *)
LEMMA SamePhase ==
  ASSUME TypeOK, Phase, NEW d \in Device, NEW r, ~Fresh,
         session' = [session EXCEPT ![d] = r],
         r.root = session[d].root, r.myKey = session[d].myKey,
         r.theirKey = session[d].theirKey, r.sendChain = session[d].sendChain,
         r.recvChain = NoChain <=> session[d].recvChain = NoChain,
         r.recvChain.root = session[d].recvChain.root
  PROVE  /\ Phase'
         /\ Behind(d, Peer(d))' <=> Behind(d, Peer(d))
         /\ Behind(Peer(d), d)' <=> Behind(Peer(d), d)
         /\ Level(d, Peer(d))' <=> Level(d, Peer(d))
         /\ Level(Peer(d), d)' <=> Level(Peer(d), d)
<1> DEFINE p == Peer(d)
<1>1. p \in Device /\ p # d /\ Peer(p) = d
  BY PeerFacts
<1>2. session'[d] = r /\ session'[p] = session[p]
  BY <1>1 DEF TypeOK
<1>3. (Behind(d, p)' <=> Behind(d, p)) /\ (Behind(p, d)' <=> Behind(p, d))
  BY <1>2 DEF Behind
<1>4. (Level(d, p)' <=> Level(d, p)) /\ (Level(p, d)' <=> Level(p, d))
  BY <1>2 DEF Level
<1>5. Phase'
  BY <1>1, <1>3, <1>4, Pair DEF Phase
<1>6. QED
  BY <1>3, <1>4, <1>5

(* Opening m from session s of its recipient, short of a DH step: what the  *)
(* session r left behind must still satisfy.                                *)
LEMMA ReceiveSameChain ==
  ASSUME TypeOK, InStep, NEW d \in Device, NEW m \in From(Peer(d)), NEW r,
         Opens(d, m, r), generated' = generated, network' = network,
         r.root = session[d].root, r.myKey = session[d].myKey,
         r.theirKey = session[d].theirKey, r.sendChain = session[d].sendChain,
         r.sendN = session[d].sendN, r.prevLen = session[d].prevLen,
         r.recvChain = NoChain <=> session[d].recvChain = NoChain,
         r.recvChain.root = session[d].recvChain.root,
         r.recvChain # NoChain =>
           /\ r.recvChain.pos = r.recvN
           /\ r.theirKey = session[Peer(d)].myKey => r.recvN <= session[Peer(d)].sendN,
         \A e \in Cache(r) : e \in Cache(session[d]) \/
           /\ session[d].recvChain # NoChain
           /\ e.ratchetKey = session[d].theirKey
           /\ e.ratchetKey = session[Peer(d)].myKey =>
                session[Peer(d)].sendChain # NoChain /\ e.num < session[Peer(d)].sendN
           /\ e.key = [root |-> session[d].recvChain.root, pos |-> e.num],
         \A n \in From(Peer(d)) : n # m =>
           /\ InCache(d, n) => InCache(d, n)'
           /\ OnRecvChain(d, n) => InCache(d, n)' \/ OnRecvChain(d, n)'
  PROVE  InStep'
<1> DEFINE p == Peer(d)
           s == session[d]
<1>1. p \in Device /\ p # d /\ Peer(p) = d /\ \A e \in Device : e = d \/ e = p
  BY PeerFacts, Pair
<1>2. Phase /\ KeysExist /\ SendingChain /\ HeadersUnique /\ ReceivingChain
      /\ CacheRight /\ Located /\ NothingFailed
  BY DEF InStep
<1>3. session' = [session EXCEPT ![d] = r] /\ failed' = failed
      /\ seen' = [seen EXCEPT ![d] = @ \cup {m}]
  BY DEF Opens
<1>4. session'[d] = r /\ session'[p] = session[p]
      /\ seen'[d] = seen[d] \cup {m} /\ seen'[p] = seen[p]
  BY <1>1, <1>3 DEF TypeOK
<1>5. From(d)' = From(d) /\ From(p)' = From(p)
  BY DEF From
<1>6. Cache(session[d])' = Cache(r) /\ Cache(session[p])' = Cache(session[p])
  BY <1>4 DEF Cache
<1>7. ~Fresh
  BY DEF Fresh, From
<1>8. /\ Phase'
      /\ Behind(d, p)' <=> Behind(d, p)
      /\ Behind(p, d)' <=> Behind(p, d)
      /\ Level(d, p)' <=> Level(d, p)
      /\ Level(p, d)' <=> Level(p, d)
  BY <1>2, <1>3, <1>7, SamePhase
<1>9. KeysExist'
  <2>1. \A e \in Cache(r) : e.ratchetKey \in {p} \X (0..generated[p])
    BY <1>2 DEF KeysExist
  <2>2. QED
    BY <1>1, <1>2, <1>4, <1>5, <1>6, <2>1 DEF KeysExist
<1>10. SendingChain' /\ HeadersUnique'
  BY <1>1, <1>2, <1>4, <1>5 DEF SendingChain, HeadersUnique
<1>11. ReceivingChain'
  <2>1. ASSUME r.recvChain # NoChain, NEW n \in From(p), n.ratchetKey = r.theirKey
        PROVE  /\ n.key = [root |-> r.recvChain.root, pos |-> n.num]
               /\ Behind(p, d)' => n.num < session[p].prevLen
               /\ Level(d, p)' => n.num < session[p].sendN
    BY <1>2, <1>8, <2>1 DEF ReceivingChain
  <2>2. ASSUME session[p].recvChain # NoChain
        PROVE  /\ session[p].recvChain.pos = session[p].recvN
               /\ session[p].theirKey = r.myKey => session[p].recvN <= r.sendN
               /\ \A n \in From(d) : n.ratchetKey = session[p].theirKey =>
                    /\ n.key = [root |-> session[p].recvChain.root, pos |-> n.num]
                    /\ Behind(d, p)' => n.num < r.prevLen
                    /\ Level(p, d)' => n.num < r.sendN
    BY <1>1, <1>2, <1>8, <2>2 DEF ReceivingChain
  <2>3. QED
    BY <1>1, <1>4, <1>5, <2>1, <2>2 DEF ReceivingChain
<1>12. CacheRight'
  <2>1. ASSUME NEW e \in Cache(r)
        PROVE  /\ e.ratchetKey = session[p].myKey =>
                    session[p].sendChain # NoChain /\ e.num < session[p].sendN
               /\ \A n \in From(p) : n.ratchetKey = e.ratchetKey /\ n.num = e.num =>
                    n.key = e.key
    <3>1. CASE e \in Cache(s)
      BY <1>2, <3>1 DEF CacheRight
    <3>2. CASE e \notin Cache(s)
      <4>1. \A n \in From(p) : n.ratchetKey = s.theirKey =>
              n.key = [root |-> s.recvChain.root, pos |-> n.num]
        BY <1>2, <2>1, <3>2 DEF ReceivingChain
      <4>2. QED
        BY <2>1, <3>2, <4>1
    <3>3. QED
      BY <3>1, <3>2
  <2>2. ASSUME NEW e \in Cache(session[p])
        PROVE  /\ e.ratchetKey = r.myKey => r.sendChain # NoChain /\ e.num < r.sendN
               /\ \A n \in From(d) : n.ratchetKey = e.ratchetKey /\ n.num = e.num =>
                    n.key = e.key
    BY <1>1, <1>2, <2>2 DEF CacheRight
  <2>3. QED
    BY <1>1, <1>4, <1>5, <1>6, <2>1, <2>2 DEF CacheRight
<1>13. Located'
  <2>1. ASSUME NEW n \in From(p)
        PROVE  n \in seen'[d] \/ InCache(d, n)' \/ OnRecvChain(d, n)' \/ OnNextChain(d, n)'
    <3>1. n \in seen[d] \/ InCache(d, n) \/ OnRecvChain(d, n) \/ OnNextChain(d, n)
      BY <1>2, <2>1 DEF Located
    <3>2. OnNextChain(d, n) => OnNextChain(d, n)'
      BY <1>4, <1>8 DEF OnNextChain
    <3>3. QED
      BY <1>4, <3>1, <3>2
  <2>2. ASSUME NEW n \in From(d)
        PROVE  n \in seen'[p] \/ InCache(p, n)' \/ OnRecvChain(p, n)' \/ OnNextChain(p, n)'
    <3>1. n \in seen[p] \/ InCache(p, n) \/ OnRecvChain(p, n) \/ OnNextChain(p, n)
      BY <1>1, <1>2, <2>2 DEF Located
    <3>2. InCache(p, n) => InCache(p, n)'
      BY <1>6 DEF InCache
    <3>3. OnRecvChain(p, n) => OnRecvChain(p, n)'
      BY <1>4 DEF OnRecvChain, OnCurrentChain
    <3>4. OnNextChain(p, n) => OnNextChain(p, n)'
      BY <1>1, <1>4, <1>8 DEF OnNextChain
    <3>5. QED
      BY <1>4, <3>1, <3>2, <3>3, <3>4
  <2>3. QED
    BY <1>1, <1>5, <2>1, <2>2 DEF Located
<1>14. NothingFailed'
  BY <1>2, <1>3 DEF NothingFailed
<1>15. QED
  BY <1>8, <1>9, <1>10, <1>11, <1>12, <1>13, <1>14 DEF InStep

(* A key taken from the cache opens its envelope.                           *)
LEMMA ReceiveSkippedInStep ==
  ASSUME TypeOK, InStep, NEW d \in Device, NEW m \in network, ReceiveSkipped(d, m)
  PROVE  InStep'
<1> DEFINE p == Peer(d)
           s == session[d]
<1>1. m \in From(p) /\ m \notin seen[d] /\ generated' = generated /\ network' = network
  BY DEF ReceiveSkipped, Arrives, From
<1>2. PICK i \in CachedAt(d, m) :
        Unseal(d, m, [s EXCEPT !.skipped = RemoveIndex(s.skipped, i)], s.skipped[i].key)
  BY DEF ReceiveSkipped
<1> DEFINE r == [s EXCEPT !.skipped = RemoveIndex(s.skipped, i)]
           k == s.skipped[i]
<1>3. s \in Session /\ i \in DOMAIN s.skipped /\ k.ratchetKey = m.ratchetKey /\ k.num = m.num
  BY DEF TypeOK, CachedAt
<1>4. k \in Cache(s) /\ k \in SkippedKey
  <2>1. k \in Cache(s)
    BY <1>3 DEF Cache
  <2>2. QED
    BY <2>1, CacheFields
<1>5. k.key = m.key
  BY <1>1, <1>3, <1>4 DEF InStep, CacheRight
<1>6. Opens(d, m, r)
  BY <1>2, <1>5 DEF Unseal, Opens
<1>7. /\ Cache(r) \subseteq Cache(s)
      /\ \A e \in Cache(s) : e # k => e \in Cache(r)
  BY <1>3, RemoveIndexCache
<1>8. /\ r.root = s.root /\ r.myKey = s.myKey /\ r.theirKey = s.theirKey
      /\ r.sendChain = s.sendChain /\ r.recvChain = s.recvChain
      /\ r.sendN = s.sendN /\ r.recvN = s.recvN /\ r.prevLen = s.prevLen
  BY <1>3 DEF Session
<1> HIDE DEF r
<1>9. session'[d] = r
  BY <1>6 DEF Opens, TypeOK
<1>10. ASSUME NEW n \in From(p), n # m
       PROVE  /\ InCache(d, n) => InCache(d, n)'
              /\ OnRecvChain(d, n) => OnRecvChain(d, n)'
  <2>1. ~(n.ratchetKey = m.ratchetKey /\ n.num = m.num)
    BY <1>1, <1>10, PeerFacts DEF InStep, HeadersUnique
  <2> DEFINE e == [ratchetKey |-> n.ratchetKey, num |-> n.num, key |-> n.key]
  <2>2. e # k
    BY <1>3, <2>1
  <2>3. Cache(session[d])' = Cache(r)
    BY <1>9 DEF Cache
  <2>4. QED
    BY <1>7, <1>8, <1>9, <2>2, <2>3 DEF InCache, OnRecvChain, OnCurrentChain
<1>11. r.recvChain # NoChain =>
         /\ r.recvChain.pos = r.recvN
         /\ r.theirKey = session[p].myKey => r.recvN <= session[p].sendN
  BY <1>8 DEF InStep, ReceivingChain
<1>12. QED
  BY <1>1, <1>6, <1>7, <1>8, <1>10, <1>11, ReceiveSameChain

(* The next key of the current receiving chain, or a later one, opens the   *)
(* envelope; the keys passed over are those of envelopes still to come.     *)
LEMMA ReceiveCurrentInStep ==
  ASSUME TypeOK, InStep, NEW d \in Device, NEW m \in network, ReceiveCurrent(d, m),
         WithinCaps'
  PROVE  InStep'
<1> DEFINE p == Peer(d)
           s == session[d]
<1>1. /\ m \in From(p) /\ m \notin seen[d] /\ generated' = generated
      /\ network' = network /\ p \in Device
  BY PeerFacts DEF ReceiveCurrent, Arrives, From
<1>2. /\ CachedAt(d, m) = {}
      /\ m.ratchetKey = s.theirKey /\ s.recvChain # NoChain
      /\ ReceiveOn(d, m, s)
  BY DEF ReceiveCurrent, OnCurrentChain
<1>3. s \in Session /\ s.recvN \in Nat /\ m.num \in Nat /\ session[p].sendN \in Nat
  BY <1>1, SessionFields, EnvelopeFields DEF TypeOK
<1>4. ~InCache(d, m)
  BY <1>2 DEF InCache, Cache, CachedAt
<1>5. ~OnNextChain(d, m)
  BY <1>2 DEF OnNextChain, Behind
<1>6. s.recvN <= m.num
  BY <1>1, <1>3, <1>4, <1>5 DEF InStep, Located, OnRecvChain
<1>7. /\ s.recvChain.pos = s.recvN
      /\ m.key = [root |-> s.recvChain.root, pos |-> m.num]
  BY <1>1, <1>2 DEF InStep, ReceivingChain
<1>8. PICK r \in Session : Advanced(s, r, m) /\ Opens(d, m, r)
  BY <1>2, <1>3, <1>6, <1>7, ReceiveOnOpens
<1>9. /\ r.root = s.root /\ r.myKey = s.myKey /\ r.theirKey = s.theirKey
      /\ r.sendChain = s.sendChain /\ r.sendN = s.sendN /\ r.prevLen = s.prevLen
      /\ r.recvChain # NoChain
      /\ r.recvChain.root = s.recvChain.root /\ r.recvChain.pos = r.recvN
      /\ r.recvN = m.num + 1
      /\ Cache(s) \subseteq Cache(r)
  BY <1>8 DEF Advanced
<1>10. session'[d] = r
  BY <1>8 DEF Opens, TypeOK
(* m itself was sent, so whatever was passed over was sent as well.         *)
<1>11. m.ratchetKey = session[p].myKey =>
         session[p].sendChain # NoChain /\ m.num < session[p].sendN
  BY <1>1 DEF InStep, SendingChain
<1>12. r.theirKey = session[p].myKey => r.recvN <= session[p].sendN
  BY <1>2, <1>3, <1>9, <1>11
<1>13. ASSUME NEW e \in Cache(r)
       PROVE  e \in Cache(s) \/
                /\ e.ratchetKey = s.theirKey
                /\ e.ratchetKey = session[p].myKey =>
                     session[p].sendChain # NoChain /\ e.num < session[p].sendN
                /\ e.key = [root |-> s.recvChain.root, pos |-> e.num]
  <2>1. e \in Cache(s) \/
          /\ e.ratchetKey = s.theirKey
          /\ e.num \in Nat /\ e.num < m.num
          /\ e.key = [root |-> s.recvChain.root, pos |-> e.num]
    BY <1>8, <1>13 DEF Advanced
  <2>2. QED
    BY <1>2, <1>3, <1>11, <2>1
<1>14. ASSUME NEW n \in From(p), n # m
       PROVE  /\ InCache(d, n) => InCache(d, n)'
              /\ OnRecvChain(d, n) => InCache(d, n)' \/ OnRecvChain(d, n)'
  <2>1. Cache(session[d])' = Cache(r)
    BY <1>10 DEF Cache
  <2>2. InCache(d, n) => InCache(d, n)'
    BY <1>9, <2>1 DEF InCache
  <2>3. ASSUME OnRecvChain(d, n) PROVE InCache(d, n)' \/ OnRecvChain(d, n)'
    <3>1. n.ratchetKey = s.theirKey /\ s.recvN <= n.num /\ n.num \in Nat
      BY <2>3, <1>14, <1>3, EnvelopeFields DEF OnRecvChain, OnCurrentChain, From
    <3>2. n.key = [root |-> s.recvChain.root, pos |-> n.num]
      BY <1>2, <3>1 DEF InStep, ReceivingChain
    <3>3. n.num # m.num
      BY <1>1, <1>2, <1>14, <3>1 DEF InStep, HeadersUnique
    <3>4. CASE n.num < m.num
      <4>1. [ratchetKey |-> s.theirKey, num |-> n.num,
             key |-> [root |-> s.recvChain.root, pos |-> n.num]] \in Cache(r)
        BY <1>8, <3>1, <3>4 DEF Advanced
      <4>2. QED
        BY <2>1, <3>1, <3>2, <4>1 DEF InCache
    <3>5. CASE m.num < n.num
      BY <1>3, <1>9, <1>10, <3>1, <3>5 DEF OnRecvChain, OnCurrentChain
    <3>6. QED
      BY <1>3, <3>1, <3>3, <3>4, <3>5
  <2>4. QED
    BY <2>2, <2>3
<1>15. QED
  BY <1>1, <1>2, <1>8, <1>9, <1>12, <1>13, <1>14, ReceiveSameChain

(* What a device makes of its session when the peer's key has changed.      *)
Turned(s, u, m, fresh) ==
  /\ u \in Session
  /\ u.root = Append(s.root, DH(s.myKey, m.ratchetKey))
  /\ u.myKey = fresh /\ u.theirKey = m.ratchetKey
  /\ u.sendChain = NoChain /\ u.sendN = s.sendN /\ u.prevLen = s.prevLen
  /\ u.recvChain # NoChain
  /\ u.recvChain = [root |-> u.root, pos |-> 0] /\ u.recvN = 0
  /\ Cache(s) \subseteq Cache(u)
  /\ \A e \in Cache(u) : e \in Cache(s) \/
       /\ s.recvChain # NoChain
       /\ e.ratchetKey = s.theirKey
       /\ e.key = [root |-> s.recvChain.root, pos |-> e.num]
  /\ s.recvChain # NoChain =>
       \A n \in Nat : s.recvN <= n /\ n < m.prev =>
         [ratchetKey |-> s.theirKey, num |-> n,
          key |-> [root |-> s.recvChain.root, pos |-> n]] \in Cache(u)

(* Draining the old chain and the DH step do that.                          *)
LEMMA TurnSession ==
  ASSUME TypeOK, NEW d \in Device, NEW m \in network, NEW fresh \in KeyPair,
         session[d].recvChain # NoChain =>
           session[d].recvChain.pos = session[d].recvN
  PROVE  Turned(session[d],
                OpenRecvChain(SkipForward(session[d], m.prev), m.ratchetKey, fresh),
                m, fresh)
<1> DEFINE s == session[d]
           old == SkipForward(s, m.prev)
           root == DhRatchetStep(old.root, old.myKey, m.ratchetKey)
           u == OpenRecvChain(old, m.ratchetKey, fresh)
<1>1. s \in Session /\ m.prev \in Nat /\ m.ratchetKey \in KeyPair
  BY EnvelopeFields DEF TypeOK
<1>2. Forwarded(s, old, m.prev)
  BY <1>1, SkipForwardCache
<1>3. u = [root |-> root, myKey |-> fresh, theirKey |-> m.ratchetKey,
           sendChain |-> NoChain, recvChain |-> ChainFrom(root),
           sendN |-> old.sendN, recvN |-> 0, prevLen |-> old.prevLen,
           skipped |-> old.skipped]
  BY DEF OpenRecvChain
<1>4. old \in Session
  BY <1>2 DEF Forwarded
<1>5. u \in Session
  BY <1>1, <1>4, OpenRecvChainType
<1>6. root \in Root
  BY <1>1, <1>4, SessionFields, DhRatchetStepType
<1> HIDE DEF old
<1>7. root = Append(s.root, DH(s.myKey, m.ratchetKey))
  BY <1>2 DEF Forwarded, DhRatchetStep
<1> HIDE DEF u, root
<1>8. /\ u.root = root /\ u.myKey = fresh /\ u.theirKey = m.ratchetKey
      /\ u.sendChain = NoChain /\ u.recvChain = ChainFrom(root)
      /\ u.sendN = old.sendN /\ u.recvN = 0 /\ u.prevLen = old.prevLen
      /\ u.skipped = old.skipped
  BY <1>3
<1>9. ChainFrom(root) = [root |-> root, pos |-> 0] /\ ChainFrom(root) # NoChain
  BY <1>6, NoChainIsNoKey DEF ChainFrom, ChainKey
<1>10. Cache(u) = Cache(old)
  BY <1>8 DEF Cache
<1>11. old.sendN = s.sendN /\ old.prevLen = s.prevLen
  BY <1>2 DEF Forwarded
<1>12. /\ Cache(s) \subseteq Cache(u)
       /\ \A e \in Cache(u) : e \in Cache(s) \/
            /\ s.recvChain # NoChain
            /\ e.ratchetKey = s.theirKey
            /\ e.key = [root |-> s.recvChain.root, pos |-> e.num]
       /\ s.recvChain # NoChain =>
            \A n \in Nat : s.recvN <= n /\ n < m.prev =>
              [ratchetKey |-> s.theirKey, num |-> n,
               key |-> [root |-> s.recvChain.root, pos |-> n]] \in Cache(u)
  BY <1>2, <1>10 DEF Forwarded
<1>13. Turned(s, u, m, fresh)
  BY <1>5, <1>7, <1>8, <1>9, <1>11, <1>12 DEF Turned
<1>14. QED
  BY <1>13 DEF u, old

(* The first envelope of the peer's new chain: the recipient drains the old *)
(* chain into the cache, takes the same DH step and draws level.            *)
LEMMA ReceiveTurnInStep ==
  ASSUME TypeOK, InStep, NEW d \in Device, NEW m \in network, ReceiveTurn(d, m),
         WithinCaps'
  PROVE  InStep'
<1> DEFINE p == Peer(d)
           s == session[d]
           fresh == <<d, generated'[d]>>
           u == OpenRecvChain(SkipForward(s, m.prev), m.ratchetKey, fresh)
<1>1. p \in Device /\ p # d /\ Peer(p) = d /\ \A e \in Device : e = d \/ e = p
  BY PeerFacts, Pair
<1>2. Phase /\ KeysExist /\ SendingChain /\ HeadersUnique /\ ReceivingChain
      /\ CacheRight /\ Located /\ NothingFailed
  BY DEF InStep
<1>3. m \in From(p) /\ m \notin seen[d] /\ network' = network /\ sent' = sent
      /\ CachedAt(d, m) = {} /\ ~OnCurrentChain(d, m)
  BY DEF ReceiveTurn, Arrives, From
<1>4. s \in Session /\ session[p] \in Session /\ m.num \in Nat /\ m.prev \in Nat
      /\ s.recvN \in Nat /\ session[p].sendN \in Nat
      /\ generated[d] \in Nat /\ generated \in [Device -> Nat]
  BY <1>1, SessionFields, EnvelopeFields DEF TypeOK
<1>5. OnNextChain(d, m)
  <2>1. ~InCache(d, m)
    BY <1>3 DEF InCache, Cache, CachedAt
  <2>2. QED
    BY <1>2, <1>3, <2>1 DEF Located, OnRecvChain
<1>6. Behind(p, d) /\ m.ratchetKey = session[p].myKey
  BY <1>5 DEF OnNextChain
<1>7. /\ session[p].sendChain # NoChain
      /\ m.num < session[p].sendN
      /\ m.prev = session[p].prevLen
      /\ m.key = [root |-> session[p].sendChain.root, pos |-> m.num]
  BY <1>1, <1>2, <1>3, <1>6 DEF SendingChain
<1>8. ~Refuses(s, m.prev)
  <2>1. CASE Refuses(s, m.prev)
    <3>1. GiveUp(d, {<<m.ratchetKey, m.num>>})
      BY <2>1 DEF ReceiveTurn
    <3>2. QED
      BY <3>1 DEF GiveUp, WithinCaps, TypeOK
  <2>2. QED
    BY <2>1
<1>9. generated' = [generated EXCEPT ![d] = @ + 1] /\ ReceiveOn(d, m, u)
  BY <1>8 DEF ReceiveTurn
<1>10. generated'[d] = generated[d] + 1 /\ generated'[p] = generated[p]
       /\ fresh = <<d, generated[d] + 1>> /\ fresh \in KeyPair
  BY <1>1, <1>4, <1>9 DEF KeyPair
<1>11. Turned(s, u, m, fresh)
  <2>1. s.recvChain # NoChain => s.recvChain.pos = s.recvN
    BY <1>2 DEF ReceivingChain
  <2>2. QED
    BY <1>10, <2>1, TurnSession
<1> HIDE DEF u
<1>12. /\ u \in Session
       /\ u.root = Append(s.root, DH(s.myKey, m.ratchetKey))
       /\ u.myKey = fresh /\ u.theirKey = m.ratchetKey
       /\ u.sendChain = NoChain /\ u.sendN = s.sendN /\ u.prevLen = s.prevLen
       /\ u.recvChain # NoChain /\ u.recvChain.root = u.root
       /\ u.recvChain.pos = 0 /\ u.recvN = 0
  BY <1>11 DEF Turned
<1>13. u.root = session[p].root /\ session[p].root = session[p].sendChain.root
  BY <1>6, <1>12 DEF Behind, DH
<1>14. PICK r \in Session : Advanced(u, r, m) /\ Opens(d, m, r)
  <2>1. m.key = [root |-> u.recvChain.root, pos |-> m.num] /\ u.recvN <= m.num
        /\ u.recvChain.pos = u.recvN
    BY <1>4, <1>7, <1>12, <1>13
  <2>2. QED
    BY <1>9, <1>12, <2>1, ReceiveOnOpens
<1>15. /\ r.root = session[p].root /\ r.myKey = fresh
       /\ r.theirKey = session[p].myKey
       /\ r.sendChain = NoChain /\ r.sendN = s.sendN /\ r.prevLen = s.prevLen
       /\ r.recvChain # NoChain
       /\ r.recvChain.root = session[p].sendChain.root
       /\ r.recvChain.pos = r.recvN /\ r.recvN = m.num + 1
       /\ Cache(u) \subseteq Cache(r)
  BY <1>6, <1>12, <1>13, <1>14 DEF Advanced
<1>16. /\ session'[d] = r /\ session'[p] = session[p]
       /\ seen'[d] = seen[d] \cup {m} /\ seen'[p] = seen[p] /\ failed' = failed
  BY <1>1, <1>14 DEF Opens, TypeOK
<1>17. From(d)' = From(d) /\ From(p)' = From(p)
  BY <1>3 DEF From
<1>18. Cache(session[d])' = Cache(r) /\ Cache(session[p])' = Cache(session[p])
  BY <1>16 DEF Cache
<1>19. /\ session[p].theirKey = s.myKey /\ s.myKey = <<d, generated[d]>>
       /\ s.myKey # fresh
  BY <1>2, <1>4, <1>6, <1>10 DEF Behind, KeysExist
<1>20. Level(p, d)' /\ ~Behind(p, d)' /\ ~Behind(d, p)' /\ ~Level(d, p)'
  <2>1. Level(p, d)'
    BY <1>7, <1>13, <1>15, <1>16, <1>19 DEF Level
  <2>2. ~Behind(p, d)'
    BY <1>15, <1>16 DEF Behind
  <2>3. ~Behind(d, p)' /\ ~Level(d, p)'
    BY <1>15, <1>16 DEF Behind, Level
  <2>4. QED
    BY <2>1, <2>2, <2>3
<1>21. Phase'
  BY <1>1, <1>20 DEF Phase
(* Where the entries of the new cache come from.                            *)
<1>22. ASSUME NEW e \in Cache(r)
       PROVE  \/ e \in Cache(s)
              \/ /\ s.recvChain # NoChain /\ e.ratchetKey = s.theirKey
                 /\ e.key = [root |-> s.recvChain.root, pos |-> e.num]
              \/ /\ e.ratchetKey = session[p].myKey
                 /\ e.num < session[p].sendN
                 /\ e.key = [root |-> session[p].sendChain.root, pos |-> e.num]
  <2>1. CASE e \in Cache(u)
    BY <1>11, <2>1 DEF Turned
  <2>2. CASE e \notin Cache(u)
    <3>1. /\ e.ratchetKey = u.theirKey /\ e.num \in Nat /\ e.num < m.num
          /\ e.key = [root |-> u.recvChain.root, pos |-> e.num]
      BY <1>14, <1>22, <2>2 DEF Advanced
    <3>2. e.num < session[p].sendN
      BY <1>4, <1>7, <3>1
    <3>3. e.ratchetKey = session[p].myKey
      BY <1>6, <1>12, <3>1
    <3>4. u.recvChain.root = session[p].sendChain.root
      BY <1>12, <1>13
    <3>5. QED
      BY <3>1, <3>2, <3>3, <3>4
  <2>3. QED
    BY <2>1, <2>2
<1>23. KeysExist'
  <2>1. ASSUME NEW e \in Cache(r)
        PROVE  e.ratchetKey \in {p} \X (0..generated[p])
    <3>1. session[p].myKey \in {p} \X (0..generated[p])
      BY <1>1, <1>2, <1>3, <1>6 DEF KeysExist
    <3>2. s.theirKey \in {p} \X (0..generated[p])
      BY <1>2 DEF KeysExist
    <3>3. \A x \in Cache(s) : x.ratchetKey \in {p} \X (0..generated[p])
      BY <1>2 DEF KeysExist
    <3>4. QED
      BY <1>22, <2>1, <3>1, <3>2, <3>3
  <2>2. \A j \in 0..generated[d] : j \in 0..(generated[d] + 1)
    BY <1>4
  <2>3. \A n \in From(d) : n.ratchetKey \in {d} \X (0..(generated[d] + 1))
    BY <1>2, <2>2 DEF KeysExist
  <2>4. \A e \in Cache(session[p]) : e.ratchetKey \in {d} \X (0..(generated[d] + 1))
    BY <1>1, <1>2, <2>2 DEF KeysExist
  <2>5. session[p].theirKey \in {d} \X (0..(generated[d] + 1))
    BY <1>1, <1>2, <2>2 DEF KeysExist
  <2>6. r.theirKey \in {p} \X (0..generated[p])
    BY <1>1, <1>2, <1>3, <1>6, <1>15 DEF KeysExist
  <2>7. \A n \in From(p) : n.ratchetKey \in {p} \X (0..generated[p])
    BY <1>1, <1>2 DEF KeysExist
  <2>8. session[p].myKey = <<p, generated[p]>>
    BY <1>1, <1>2 DEF KeysExist
  <2>9. QED
    BY <1>1, <1>10, <1>15, <1>16, <1>17, <1>18, <2>1, <2>3, <2>4, <2>5, <2>6, <2>7, <2>8
       DEF KeysExist
(* Nothing was ever sent, or cached by the peer, under the fresh key.       *)
<1>24. /\ \A n \in From(d) : n.ratchetKey # fresh
       /\ \A e \in Cache(session[p]) : e.ratchetKey # fresh
  <2>1. fresh \notin {d} \X (0..generated[d])
    BY <1>4, <1>10
  <2>2. QED
    BY <1>1, <1>2, <2>1 DEF KeysExist
<1>25. SendingChain' /\ HeadersUnique'
  <2>1. SendingChain'
    BY <1>1, <1>2, <1>15, <1>16, <1>17, <1>24 DEF SendingChain
  <2>2. HeadersUnique'
    BY <1>1, <1>2, <1>17 DEF HeadersUnique
  <2>3. QED
    BY <2>1, <2>2
<1>26. \A n \in From(p) : n.ratchetKey = session[p].myKey =>
         n.key = [root |-> session[p].sendChain.root, pos |-> n.num]
  BY <1>1, <1>2 DEF SendingChain
<1>27. ReceivingChain'
  <2>1. /\ r.recvChain.pos = r.recvN
        /\ r.recvN <= session[p].sendN
        /\ \A n \in From(p) : n.ratchetKey = r.theirKey =>
             n.key = [root |-> r.recvChain.root, pos |-> n.num]
    BY <1>4, <1>7, <1>15, <1>26
  <2>2. ASSUME session[p].recvChain # NoChain
        PROVE  /\ session[p].recvChain.pos = session[p].recvN
               /\ session[p].theirKey # r.myKey
               /\ \A n \in From(d) : n.ratchetKey = session[p].theirKey =>
                    /\ n.key = [root |-> session[p].recvChain.root, pos |-> n.num]
                    /\ n.num < r.sendN
    BY <1>1, <1>2, <1>15, <1>19, <2>2 DEF ReceivingChain, SendingChain
  <2>3. QED
    BY <1>1, <1>15, <1>16, <1>17, <1>20, <2>1, <2>2 DEF ReceivingChain
<1>28. CacheRight'
  <2>1. ASSUME NEW e \in Cache(r)
        PROVE  /\ e.ratchetKey = session[p].myKey =>
                    session[p].sendChain # NoChain /\ e.num < session[p].sendN
               /\ \A n \in From(p) : n.ratchetKey = e.ratchetKey /\ n.num = e.num =>
                    n.key = e.key
    <3>1. CASE e \in Cache(s)
      BY <1>2, <3>1 DEF CacheRight
    <3>2. CASE /\ s.recvChain # NoChain /\ e.ratchetKey = s.theirKey
               /\ e.key = [root |-> s.recvChain.root, pos |-> e.num]
      <4>1. s.theirKey # session[p].myKey
        BY <1>6, <3>2 DEF Behind
      <4>2. QED
        BY <1>2, <3>2, <4>1 DEF ReceivingChain
    <3>3. CASE /\ e.ratchetKey = session[p].myKey
               /\ e.num < session[p].sendN
               /\ e.key = [root |-> session[p].sendChain.root, pos |-> e.num]
      BY <1>7, <1>26, <3>3
    <3>4. QED
      BY <1>22, <2>1, <3>1, <3>2, <3>3
  <2>2. ASSUME NEW e \in Cache(session[p])
        PROVE  /\ e.ratchetKey # r.myKey
               /\ \A n \in From(d) : n.ratchetKey = e.ratchetKey /\ n.num = e.num =>
                    n.key = e.key
    BY <1>1, <1>2, <1>15, <1>24, <2>2 DEF CacheRight
  <2>3. QED
    BY <1>1, <1>16, <1>17, <1>18, <2>1, <2>2 DEF CacheRight
<1>29. Located'
  <2>1. ASSUME NEW n \in From(p), n # m, n \notin seen[d]
        PROVE  InCache(d, n)' \/ OnRecvChain(d, n)'
    <3>1. n.num \in Nat
      BY <2>1, EnvelopeFields DEF From
    <3>2. InCache(d, n) \/ OnRecvChain(d, n) \/ OnNextChain(d, n)
      BY <1>2, <2>1 DEF Located
    <3>3. CASE InCache(d, n)
      BY <1>11, <1>15, <1>18, <3>3 DEF InCache, Turned
    <3>4. CASE OnRecvChain(d, n)
      <4>1. s.recvChain # NoChain /\ n.ratchetKey = s.theirKey /\ s.recvN <= n.num
        BY <1>4, <3>1, <3>4 DEF OnRecvChain, OnCurrentChain
      <4>2. /\ n.key = [root |-> s.recvChain.root, pos |-> n.num]
            /\ n.num < m.prev
        BY <1>2, <1>6, <1>7, <2>1, <4>1 DEF ReceivingChain
      <4>3. [ratchetKey |-> s.theirKey, num |-> n.num,
             key |-> [root |-> s.recvChain.root, pos |-> n.num]] \in Cache(u)
        BY <1>11, <3>1, <4>1, <4>2 DEF Turned
      <4>4. QED
        BY <1>15, <1>18, <4>1, <4>2, <4>3 DEF InCache
    <3>5. CASE OnNextChain(d, n)
      <4>1. n.ratchetKey = m.ratchetKey /\ n.ratchetKey = session[p].myKey
        BY <1>6, <3>5 DEF OnNextChain
      <4>2. n.num # m.num
        BY <1>1, <1>2, <1>3, <2>1, <4>1 DEF HeadersUnique
      <4>3. CASE n.num < m.num
        <5>1. [ratchetKey |-> u.theirKey, num |-> n.num,
               key |-> [root |-> u.recvChain.root, pos |-> n.num]] \in Cache(r)
          BY <1>12, <1>14, <3>1, <4>3 DEF Advanced
        <5>2. n.key = [root |-> u.recvChain.root, pos |-> n.num]
          BY <1>12, <1>13, <1>26, <2>1, <4>1
        <5>3. QED
          BY <1>12, <1>18, <4>1, <5>1, <5>2 DEF InCache
      <4>4. CASE m.num < n.num
        BY <1>4, <1>15, <1>16, <3>1, <4>1, <4>4 DEF OnRecvChain, OnCurrentChain
      <4>5. QED
        BY <1>4, <3>1, <4>2, <4>3, <4>4
    <3>6. QED
      BY <3>2, <3>3, <3>4, <3>5
  <2>2. ASSUME NEW n \in From(d)
        PROVE  n \in seen[p] \/ InCache(p, n)' \/ OnRecvChain(p, n)'
    <3>1. n \in seen[p] \/ InCache(p, n) \/ OnRecvChain(p, n) \/ OnNextChain(p, n)
      BY <1>1, <1>2, <2>2 DEF Located
    <3>2. InCache(p, n) => InCache(p, n)'
      BY <1>18 DEF InCache
    <3>3. OnRecvChain(p, n) => OnRecvChain(p, n)'
      BY <1>16 DEF OnRecvChain, OnCurrentChain
    <3>4. ~OnNextChain(p, n)
      BY <1>1, <1>6 DEF OnNextChain, Behind
    <3>5. QED
      BY <3>1, <3>2, <3>3, <3>4
  <2>3. QED
    BY <1>1, <1>16, <1>17, <2>1, <2>2 DEF Located
<1>30. NothingFailed'
  BY <1>2, <1>16 DEF NothingFailed
<1>31. QED
  BY <1>21, <1>23, <1>25, <1>27, <1>28, <1>29, <1>30 DEF InStep

(* If only one device may send first then, until a cap of the skipped-key   *)
(* cache is hit, every envelope that reaches its recipient is opened: no    *)
(* loss, delay, reordering or repetition makes the two sides disagree on a  *)
(* message key.                                                             *)
THEOREM SessionStaysInSync == OneStarter => (Spec => []InSync)
<1> SUFFICES ASSUME OneStarter PROVE Spec => []InSync
  OBVIOUS
<1>1. Init => Core
  <2> SUFFICES ASSUME Init PROVE InStep
    BY DEF Core
  <2>1. Fresh /\ network = {} /\ NothingFailed
    BY DEF Init, Fresh, NothingFailed
  <2>2. \A d \in Device : Cache(session[d]) = {} /\ From(d) = {}
    <3>1. \A d \in Device : session[d].skipped = <<>>
      BY DEF Init, InitSession
    <3>2. QED
      BY <2>1, <3>1 DEF Cache, From
  <2>3. KeysExist
    <3>1. \A d \in Device : generated[d] = 0
      BY DEF Init
    <3>2. \A d \in Device : /\ session[d].myKey = <<d, 0>>
                             /\ session[d].theirKey = <<Peer(d), 0>>
      BY <2>1, FreshFields DEF Identity
    <3>3. \A d \in Device : <<Peer(d), 0>> \in {Peer(d)} \X (0..0)
      OBVIOUS
    <3>4. \A d \in Device : generated[Peer(d)] = 0
      BY <3>1, PeerFacts
    <3>5. QED
      BY <2>2, <3>1, <3>2, <3>3, <3>4 DEF KeysExist
  <2>4. SendingChain /\ HeadersUnique /\ ReceivingChain /\ CacheRight /\ Located
    BY <2>1, <2>2, FreshFields, PeerFacts
       DEF SendingChain, HeadersUnique, ReceivingChain, CacheRight, Located
  <2>5. QED
    BY <2>1, <2>3, <2>4 DEF InStep, Phase
<1>2. TypeOK /\ Core /\ [Next]_vars => Core'
  <2> SUFFICES ASSUME TypeOK, Core, [Next]_vars, WithinCaps' PROVE InStep'
    BY DEF Core
  <2>1. CASE UNCHANGED vars
    <3>1. InStep
      BY <2>1 DEF Core, WithinCaps, vars
    <3>2. /\ session' = session /\ generated' = generated
          /\ network' = network /\ seen' = seen /\ failed' = failed
      BY <2>1 DEF vars
    <3>3. Phase'
      BY <3>1, <3>2 DEF InStep, Phase, Fresh, Behind, Level
    <3>4. KeysExist' /\ SendingChain' /\ HeadersUnique' /\ CacheRight'
      BY <3>1, <3>2 DEF InStep, KeysExist, SendingChain, HeadersUnique, CacheRight,
                        From, Cache
    <3>5. ReceivingChain'
      BY <3>1, <3>2 DEF InStep, ReceivingChain, From, Behind, Level
    <3>6. Located'
      BY <3>1, <3>2 DEF InStep, Located, From, Cache, InCache, OnRecvChain,
                        OnCurrentChain, OnNextChain, Behind
    <3>7. NothingFailed'
      BY <3>1, <3>2 DEF InStep, NothingFailed
    <3>8. QED
      BY <3>3, <3>4, <3>5, <3>6, <3>7 DEF InStep
  <2>2. ASSUME NEW d \in Device, Send(d) PROVE InStep'
    <3>1. WithinCaps
      BY <2>2 DEF Send, WithinCaps
    <3>2. QED
      BY <2>2, <3>1, SendInStep DEF Core
  <2>3. ASSUME NEW d \in Device, NEW m \in network,
               ReceiveSkipped(d, m) \/ ReceiveCurrent(d, m) \/ ReceiveTurn(d, m)
        PROVE  InStep'
    <3>1. WithinCaps
      <4>1. lost' = lost \/ \E P : GiveUp(d, P)
        BY <2>3 DEF ReceiveSkipped, ReceiveCurrent, ReceiveTurn, ReceiveOn
      <4>2. \A e \in Device : lost[e] \subseteq lost'[e]
        BY <4>1 DEF GiveUp, TypeOK
      <4>3. QED
        BY <4>2 DEF WithinCaps
    <3>2. InStep
      BY <3>1 DEF Core
    <3>3. QED
      BY <2>3, <3>2, ReceiveSkippedInStep, ReceiveCurrentInStep, ReceiveTurnInStep
  <2>4. QED
    BY <2>1, <2>2, <2>3 DEF Next
<1>3. Core => InSync
  BY DEF Core, InSync, InStep, NothingFailed
<1>4. QED
  BY <1>1, <1>2, <1>3, TypeCorrect, PTL DEF Spec

----------------------------------------------------------------------------
(* Single-use keys.  What follows does not depend on the caps: a session    *)
(* that has given keys up, or was turned backwards by a late envelope, uses *)
(* no key twice either.                                                     *)

(* The key pairs of device d, and those up to its nth.                      *)
Own(d) == {d} \X Nat
Upto(d, n) == {d} \X (0..n)

(* Root r was begun by a DH step of the key pairs k and l.                  *)
Ends(r, k, l) == Len(r) > 0 /\ r[Len(r)] = DH(k, l)

(* d received on root r, with a key pair it has given up, and never sent    *)
(* on it.                                                                   *)
Old(d, g, r) ==
  /\ \E k \in Upto(d, g - 1) : \E l \in Own(Peer(d)) : Ends(r, k, l)
  /\ \A m \in From(d) : m.key.root # r

(* The receiving chain of s has gone past a key that d has received.        *)
Passed(d, s, g, key) == Old(d, g, key.root) /\ ~OnChain(s.recvChain, key)

(* No two entries of a cache hold one key.                                  *)
Distinct(keys) == \A i, j \in DOMAIN keys : keys[i].key = keys[j].key => i = j

(* Session s of d, after g fresh key pairs and the envelopes opened: it     *)
(* sends on a root of its current key pair, past every key it has used, and *)
(* receives, or caches keys, only on roots of pairs it has given up, past   *)
(* every key it has received.                                               *)
Fit(d, s, g, opened) ==
  /\ s.myKey = <<d, g>> /\ s.theirKey \in Own(Peer(d))
  /\ s.recvChain = NoChain <=> g = 0
  /\ g = 0 => s.theirKey = Identity(Peer(d))
  /\ s.sendChain # NoChain =>
       /\ d \in Starters \/ g > 0
       /\ s.sendChain.pos = s.sendN
       /\ s.sendChain.root = s.root /\ Ends(s.root, s.myKey, s.theirKey)
  /\ \A m \in From(d) : m.ratchetKey = s.myKey =>
       s.sendChain # NoChain /\ m.key.root = s.root /\ m.key.pos < s.sendChain.pos
  /\ s.recvChain # NoChain => s.recvChain.pos = s.recvN /\ Old(d, g, s.recvChain.root)
  /\ \A e \in Cache(s) : Passed(d, s, g, e.key)
  /\ \A m \in opened : Passed(d, s, g, m.key)
  /\ Distinct(s.skipped)
  /\ \A m \in opened : \A e \in Cache(s) : e.key # m.key

Sessions == \A d \in Device : Fit(d, session[d], generated[d], seen[d])

(* Every envelope is sealed on a root begun with its sender's ratchet key.  *)
Signed ==
  \A d \in Device :
    /\ session[d].theirKey \in Upto(Peer(d), generated[Peer(d)])
    /\ \A m \in From(d) :
         /\ m.ratchetKey \in Upto(d, generated[d])
         /\ m.ratchetKey = Identity(d) => d \in Starters
         /\ \E l \in Upto(Peer(d), generated[Peer(d)]) : Ends(m.key.root, m.ratchetKey, l)

(* The envelopes of one sender have keys of their own.                      *)
SentOnce == \A d \in Device : \A m, n \in From(d) : m.key = n.key => m = n

(* d begins, or began, a chain with its key pair k and its peer's l.        *)
Uses(d, k, l) ==
  \/ /\ session[d].myKey = k /\ session[d].theirKey = l
     /\ d \in Starters \/ session[d].recvChain # NoChain
  \/ \E m \in From(d) : m.ratchetKey = k /\ Ends(m.key.root, k, l)

(* No two devices ever begin the same root.                                 *)
NoMirror ==
  \A d \in Device : \A k \in Own(d), l \in Own(Peer(d)) :
    ~(Uses(d, k, l) /\ Uses(Peer(d), l, k))

(* The inductive invariant.                                                 *)
Spent == Sessions /\ Signed /\ SentOnce /\ NoMirror

(* A DH result names its two key pairs, and a root the step that began it.  *)
LEMMA DhParts ==
  ASSUME NEW d \in Device, NEW k \in Own(d), NEW l \in Own(Peer(d)),
         NEW k2 \in Own(d), NEW l2 \in Own(Peer(d)), DH(k, l) = DH(k2, l2)
  PROVE  k = k2 /\ l = l2
<1>1. k # l2 /\ k2 # l
  BY PeerFacts DEF Own
<1> QED BY <1>1 DEF DH

(* So the last step of a root tells the key pairs of both devices.          *)
LEMMA EndsParts ==
  ASSUME NEW d \in Device, NEW k \in Own(d), NEW l \in Own(Peer(d)), NEW r, Ends(r, k, l)
  PROVE  /\ Ends(r, l, k) /\ k \in r[Len(r)]
         /\ \A k2 \in Own(d), l2 \in Own(Peer(d)) :
              Ends(r, k2, l2) \/ Ends(r, l2, k2) => k2 = k /\ l2 = l
         /\ \A k2 \in Own(d) : k2 \in r[Len(r)] => k2 = k
<1>1. DH(k, l) = DH(l, k) /\ k \in DH(k, l)
  BY DEF DH
<1>2. ASSUME NEW k2 \in Own(d), NEW l2 \in Own(Peer(d)), Ends(r, k2, l2) \/ Ends(r, l2, k2)
      PROVE  k2 = k /\ l2 = l
  <2>1. DH(l2, k2) = DH(k2, l2)
    BY DEF DH
  <2> QED BY <1>2, <2>1, DhParts DEF Ends
<1>3. ASSUME NEW k2 \in Own(d), k2 \in r[Len(r)]
      PROVE  k2 = k
  <2>1. k2 # l
    BY PeerFacts DEF Own
  <2> QED BY <1>3, <2>1 DEF Ends, DH
<1> QED BY <1>1, <1>2, <1>3 DEF Ends

(* A step begins the root that it leads to.                                 *)
LEMMA StepEnds ==
  ASSUME NEW r \in Root, NEW k \in KeyPair, NEW l \in KeyPair
  PROVE  Ends(DhRatchetStep(r, k, l), k, l)
<1>1. DH(k, l) \in SUBSET KeyPair
  BY DEF DH
<1>2. /\ Len(Append(r, DH(k, l))) = Len(r) + 1 /\ Len(r) \in Nat
      /\ Append(r, DH(k, l))[Len(r) + 1] = DH(k, l)
  BY <1>1 DEF Root
<1> QED BY <1>2 DEF Ends, DhRatchetStep

(* The key pairs of a device in order.                                      *)
LEMMA OwnFacts ==
  ASSUME NEW d \in Device, NEW n \in Nat
  PROVE  /\ <<d, n>> \in Own(d) /\ Own(d) \subseteq KeyPair /\ Upto(d, n) \subseteq Own(d)
         /\ Upto(d, n) \subseteq Upto(d, n + 1) /\ <<d, n>> \in Upto(d, n)
         /\ Upto(d, n - 1) \subseteq Upto(d, n) /\ <<d, n>> \notin Upto(d, n - 1)
         /\ \A g \in Nat : Upto(d, g - 1) \subseteq Own(d)
         /\ Identity(d) = <<d, 0>>
BY DEF Own, Upto, KeyPair, Identity

(* What a sequence over a set has at an index lies in the set.              *)
LEMMA SeqElement ==
  ASSUME NEW S, NEW q \in Seq(S), NEW i \in 1..Len(q)
  PROVE  q[i] \in S
OBVIOUS

(* A root d has received on is not begun with a key pair it holds.          *)
LEMMA OldIsOld ==
  ASSUME NEW d \in Device, NEW g \in Nat, NEW r, Old(d, g, r)
  PROVE  /\ g > 0 /\ <<d, g>> \notin r[Len(r)] /\ Len(r) > 0
         /\ \A l \in Own(Peer(d)) : ~Ends(r, <<d, g>>, l)
         /\ Old(d, g + 1, r)
<1>1. PICK k \in Upto(d, g - 1), l \in Own(Peer(d)) : Ends(r, k, l)
  BY DEF Old
<1>2. k \in Own(d) /\ <<d, g>> \in Own(d) /\ k # <<d, g>> /\ g > 0
      /\ k \in Upto(d, (g + 1) - 1)
  BY <1>1 DEF Own, Upto
<1>3. <<d, g>> \notin r[Len(r)]
  BY <1>1, <1>2, EndsParts
<1>4. \A l2 \in Own(Peer(d)) : ~Ends(r, <<d, g>>, l2)
  BY <1>1, <1>2, EndsParts
<1> QED BY <1>1, <1>2, <1>3, <1>4 DEF Old, Ends

(* The key that comes next on the receiving chain is neither in the cache   *)
(* nor that of an envelope already opened.                                  *)
LEMMA NextIsNew ==
  ASSUME NEW d, NEW s, NEW g, NEW opened, Fit(d, s, g, opened),
         s.recvChain \in ChainKey, s.recvChain # NoChain,
         NEW key \in ChainKey, key.root = s.recvChain.root, s.recvChain.pos <= key.pos
  PROVE  /\ \A e \in Cache(s) : e.key # key
         /\ \A m \in opened : m.key # key
BY DEF Fit, Passed, OnChain

(* A chain that has gone on has gone past what it had passed before.        *)
LEMMA PassedStays ==
  ASSUME NEW d, NEW s, NEW t, NEW g, NEW key \in ChainKey, Passed(d, s, g, key),
         s.recvChain \in ChainKey, t.recvChain \in ChainKey, s.recvChain # NoChain,
         t.recvChain.root = s.recvChain.root, s.recvChain.pos <= t.recvChain.pos
  PROVE  Passed(d, t, g, key)
BY DEF Passed, OnChain, ChainKey

(* Skipping forward puts into the cache what the chain passes over.         *)
LEMMA FitSkip ==
  ASSUME NEW d \in Device, NEW g, NEW s \in Session, NEW opened, Fit(d, s, g, opened),
         \A m \in opened : m.key \in ChainKey,
         s.recvChain # NoChain, NEW n \in Nat
  PROVE  /\ Fit(d, SkipForward(s, n), g, opened) /\ SkipForward(s, n) \in Session
         /\ SkipForward(s, n).recvChain \in ChainKey
         /\ SkipForward(s, n).theirKey = s.theirKey
<1>1. CASE n <= s.recvN
  BY <1>1, SessionFields DEF SkipForward
<1>2. CASE s.recvN < n
  <2>1. PICK new \in Seq(SkippedKey) :
          /\ Len(new) = n - s.recvN
          /\ \A i \in 1..Len(new) : new[i] =
               [ratchetKey |-> s.theirKey, num |-> s.recvN + i - 1,
                key |-> [root |-> s.recvChain.root, pos |-> s.recvChain.pos + i - 1]]
          /\ SkipForward(s, n) =
               [s EXCEPT !.skipped   = s.skipped \o new,
                         !.recvChain = StepChain(s.recvChain, n - s.recvN),
                         !.recvN     = n]
    BY <1>2, SkipForwardOpens
  <2> PICK t : t = SkipForward(s, n)
    OBVIOUS
  <2>2. /\ t.root = s.root /\ t.myKey = s.myKey /\ t.theirKey = s.theirKey
        /\ t.sendChain = s.sendChain /\ t.sendN = s.sendN
        /\ t.recvN = n /\ t.skipped = s.skipped \o new
        /\ t.recvChain = StepChain(s.recvChain, n - s.recvN)
    BY <2>1 DEF Session
  <2>3. /\ s.recvChain \in ChainKey /\ s.recvN \in Nat /\ s.recvChain.pos = s.recvN
        /\ s.skipped \in Seq(SkippedKey) /\ Old(d, g, s.recvChain.root)
    BY SessionFields DEF Fit
  <2>4. /\ t.recvChain \in ChainKey /\ t.recvChain # NoChain
        /\ t.recvChain.root = s.recvChain.root /\ t.recvChain.pos = n
    <3>1. PICK k \in Nat : k = n - s.recvN /\ s.recvChain.pos + k = n
      BY <1>2, <2>3
    <3>2. /\ t.recvChain = [root |-> s.recvChain.root, pos |-> s.recvChain.pos + k]
          /\ t.recvChain \in ChainKey
      BY <2>2, <2>3, <3>1, StepChainType
    <3> QED BY <3>1, <3>2, NoChainIsNoKey
  <2>5. t \in Session
    BY SkipForwardType
  <2>6. /\ Len(s.skipped) \in Nat /\ Len(new) \in Nat
        /\ DOMAIN t.skipped = 1..(Len(s.skipped) + Len(new))
        /\ \A i \in 1..Len(s.skipped) : t.skipped[i] = s.skipped[i]
        /\ \A i \in 1..Len(new) : t.skipped[Len(s.skipped) + i] = new[i]
    BY <2>2, <2>3, ConcatFacts
  <2>7. \A i \in 1..Len(new) :
          /\ new[i].key \in ChainKey /\ new[i].key.root = s.recvChain.root
          /\ new[i].key.pos = s.recvN + i - 1
          /\ s.recvN <= new[i].key.pos /\ new[i].key.pos < n
    <3> SUFFICES ASSUME NEW i \in 1..Len(new)
                 PROVE  /\ new[i].key \in ChainKey /\ new[i].key.root = s.recvChain.root
                        /\ new[i].key.pos = s.recvN + i - 1
                        /\ s.recvN <= new[i].key.pos /\ new[i].key.pos < n
      OBVIOUS
    <3>1. new[i].key.root = s.recvChain.root /\ new[i].key.pos = s.recvN + i - 1
      <4>1. new[i] = [ratchetKey |-> s.theirKey, num |-> s.recvN + i - 1,
                      key |-> [root |-> s.recvChain.root, pos |-> s.recvChain.pos + i - 1]]
        BY <2>1
      <4>2. new[i].key = [root |-> s.recvChain.root, pos |-> s.recvChain.pos + i - 1]
        BY <4>1
      <4> QED BY <4>2, <2>3
    <3>2. new[i].key \in ChainKey
      <4>1. new[i] \in SkippedKey
        BY SeqElement
      <4> QED BY <4>1 DEF SkippedKey
    <3>3. s.recvN <= s.recvN + i - 1 /\ s.recvN + i - 1 < n
      BY <1>2, <2>1, <2>3
    <3> QED BY <3>1, <3>2, <3>3
  <2>8. \A i \in 1..Len(s.skipped) : /\ s.skipped[i] \in Cache(s)
                                     /\ s.skipped[i].key \in ChainKey
    <3>1. DOMAIN s.skipped = 1..Len(s.skipped)
      BY <2>3
    <3>2. \A i \in DOMAIN s.skipped : s.skipped[i] \in SkippedKey
      BY <2>3
    <3> QED BY <3>1, <3>2 DEF Cache, SkippedKey
  <2>9. ASSUME NEW i \in DOMAIN t.skipped
        PROVE  \/ i \in 1..Len(s.skipped) /\ t.skipped[i] = s.skipped[i]
               \/ /\ i - Len(s.skipped) \in 1..Len(new)
                  /\ t.skipped[i] = new[i - Len(s.skipped)]
    <3>1. CASE i \in 1..Len(s.skipped)
      BY <2>6, <3>1
    <3>2. CASE i \notin 1..Len(s.skipped)
      <4>1. i - Len(s.skipped) \in 1..Len(new)
            /\ Len(s.skipped) + (i - Len(s.skipped)) = i
        BY <2>6, <3>2
      <4> QED BY <2>6, <4>1
    <3> QED BY <3>1, <3>2
  <2>10. ASSUME NEW key \in ChainKey, Passed(d, s, g, key)
         PROVE  Passed(d, t, g, key)
    BY <1>2, <2>3, <2>4, <2>10, PassedStays
  <2>11. ASSUME NEW e \in Cache(t)
         PROVE  Passed(d, t, g, e.key) /\ \A m \in opened : m.key # e.key
    <3>1. PICK i \in DOMAIN t.skipped : e = t.skipped[i]
      BY DEF Cache
    <3>2. CASE i \in 1..Len(s.skipped) /\ t.skipped[i] = s.skipped[i]
      BY <2>8, <2>10, <3>1, <3>2 DEF Fit
    <3>3. CASE /\ i - Len(s.skipped) \in 1..Len(new)
               /\ t.skipped[i] = new[i - Len(s.skipped)]
      <4>1. PICK j \in 1..Len(new) : e = new[j]
        BY <3>1, <3>3
      <4>2. Passed(d, t, g, e.key)
        <5>1. e.key.root = s.recvChain.root /\ e.key.pos < n /\ e.key.pos \in Nat
          BY <2>7, <4>1 DEF ChainKey
        <5> QED BY <2>3, <2>4, <5>1 DEF Passed, OnChain
      <4>3. \A m \in opened : m.key # e.key
        <5>1. /\ e.key \in ChainKey /\ e.key.root = s.recvChain.root
              /\ s.recvChain.pos <= e.key.pos
          BY <2>3, <2>7, <4>1
        <5> QED BY <2>3, <5>1, NextIsNew
      <4> QED BY <4>2, <4>3
    <3> QED BY <2>9, <3>2, <3>3
  <2>12. Distinct(t.skipped)
    <3> SUFFICES ASSUME NEW i \in DOMAIN t.skipped, NEW j \in DOMAIN t.skipped,
                        t.skipped[i].key = t.skipped[j].key
                 PROVE  i = j
      BY DEF Distinct
    <3> DEFINE L == Len(s.skipped)
    <3>1. CASE i \in 1..L /\ j \in 1..L
      <4>1. i \in DOMAIN s.skipped /\ j \in DOMAIN s.skipped
            /\ s.skipped[i].key = s.skipped[j].key
        BY <2>3, <2>6, <3>1
      <4> QED BY <4>1 DEF Fit, Distinct
    <3>2. CASE i - L \in 1..Len(new) /\ j - L \in 1..Len(new)
               /\ t.skipped[i] = new[i - L] /\ t.skipped[j] = new[j - L]
      <4>1. s.recvN + (i - L) - 1 = s.recvN + (j - L) - 1
        BY <2>7, <3>2
      <4>2. i \in Int /\ j \in Int /\ L \in Int /\ s.recvN \in Int
        BY <2>3, <2>6
      <4> QED BY <4>1, <4>2
    <3>3. ASSUME NEW a \in 1..L, NEW b \in 1..Len(new)
          PROVE  s.skipped[a].key # new[b].key
      BY <2>3, <2>7, <2>8, NextIsNew, ZenonT(40)
    <3> QED BY <2>9, <3>1, <3>2, <3>3
  <2>13. \A m \in opened : Passed(d, t, g, m.key)
    BY <2>10 DEF Fit
  <2>14. Fit(d, t, g, opened)
    BY <2>2, <2>3, <2>4, <2>11, <2>12, <2>13 DEF Fit
  <2> QED BY <2>2, <2>4, <2>5, <2>14
<1> QED BY <1>1, <1>2, SessionFields

(* Taking the next key of the chain, with or without an envelope it opens.  *)
LEMMA FitTake ==
  ASSUME NEW d \in Device, NEW g, NEW s \in Session, NEW opened, Fit(d, s, g, opened),
         \A m \in opened : m.key \in ChainKey, s.recvChain \in ChainKey
  PROVE  /\ TakeNext(s) \in Session /\ TakeNext(s).recvChain # NoChain
         /\ Fit(d, TakeNext(s), g, opened)
         /\ \A m : m.key = s.recvChain => Fit(d, TakeNext(s), g, opened \cup {m})
<1> PICK t : t = TakeNext(s)
  OBVIOUS
<1>1. s.recvN \in Nat /\ s.recvN + 1 \in Nat /\ s.recvChain # NoChain /\ 1 \in Nat
  BY SessionFields, NoChainIsNoKey
<1>2. /\ StepChain(s.recvChain, 1) = [root |-> s.recvChain.root, pos |-> s.recvChain.pos + 1]
      /\ StepChain(s.recvChain, 1) \in ChainKey
  BY <1>1, StepChainType
<1>3. t = [s EXCEPT !.recvChain = StepChain(s.recvChain, 1), !.recvN = s.recvN + 1]
  BY DEF TakeNext
<1>4. /\ t \in Session
      /\ t.root = s.root /\ t.myKey = s.myKey /\ t.theirKey = s.theirKey
      /\ t.sendChain = s.sendChain /\ t.sendN = s.sendN /\ t.skipped = s.skipped
      /\ t.recvChain = StepChain(s.recvChain, 1) /\ t.recvN = s.recvN + 1
  BY <1>1, <1>2, <1>3 DEF Session
<1>5. /\ t.recvChain \in ChainKey /\ t.recvChain # NoChain
      /\ t.recvChain.root = s.recvChain.root /\ t.recvChain.pos = s.recvChain.pos + 1
      /\ s.recvChain.pos \in Nat
  BY <1>2, <1>4, NoChainIsNoKey DEF ChainKey
<1>6. Cache(t) = Cache(s)
  BY <1>4 DEF Cache
<1>7. s.recvChain.pos = s.recvN /\ Old(d, g, s.recvChain.root)
  BY <1>1 DEF Fit
<1>8. \A e \in Cache(s) : e.key \in ChainKey
  <2>1. s.skipped \in Seq(SkippedKey) /\ DOMAIN s.skipped = 1..Len(s.skipped)
    BY SessionFields
  <2>2. \A i \in 1..Len(s.skipped) : s.skipped[i] \in SkippedKey
    BY <2>1, SeqElement
  <2> QED BY <2>1, <2>2 DEF Cache, SkippedKey
<1>9. ASSUME NEW key \in ChainKey, Passed(d, s, g, key)
      PROVE  Passed(d, t, g, key)
  BY <1>1, <1>5, <1>9, PassedStays
<1>10. \A e \in Cache(t) : Passed(d, t, g, e.key)
  BY <1>6, <1>8, <1>9 DEF Fit
<1>11. \A m \in opened : Passed(d, t, g, m.key)
  BY <1>9 DEF Fit
<1>12. Fit(d, t, g, opened)
  <2>1. t.recvChain.pos = t.recvN /\ Old(d, g, t.recvChain.root)
    BY <1>4, <1>5, <1>7
  <2> QED BY <1>1, <1>4, <1>5, <1>6, <1>10, <1>11, <2>1 DEF Fit
<1>13. ASSUME NEW m, m.key = s.recvChain
       PROVE  Fit(d, t, g, opened \cup {m})
  <2>1. Passed(d, t, g, m.key)
    BY <1>5, <1>7, <1>13 DEF Passed, OnChain
  <2>2. \A e \in Cache(t) : e.key # m.key
    <3>1. s.recvChain.pos <= s.recvChain.pos
      BY <1>5
    <3> QED BY <1>1, <1>6, <1>13, <3>1, NextIsNew
  <2> QED BY <1>12, <2>1, <2>2 DEF Fit
<1> QED BY <1>4, <1>5, <1>12, <1>13

(* A session whose cache has lost entries.                                  *)
LEMMA FitFewer ==
  ASSUME NEW d \in Device, NEW g, NEW s, NEW t, NEW opened, Fit(d, s, g, opened),
         t.root = s.root, t.myKey = s.myKey, t.theirKey = s.theirKey,
         t.sendChain = s.sendChain, t.sendN = s.sendN,
         t.recvChain = s.recvChain, t.recvN = s.recvN,
         Cache(t) \subseteq Cache(s), Distinct(t.skipped)
  PROVE  /\ Fit(d, t, g, opened)
         /\ \A m : Passed(d, s, g, m.key) /\ (\A e \in Cache(t) : e.key # m.key) =>
                     Fit(d, t, g, opened \cup {m})
<1>1. \A key : Passed(d, s, g, key) => Passed(d, t, g, key)
  BY DEF Passed
<1>2. Fit(d, t, g, opened)
  BY <1>1 DEF Fit
<1>3. ASSUME NEW m, Passed(d, s, g, m.key), \A e \in Cache(t) : e.key # m.key
      PROVE  Fit(d, t, g, opened \cup {m})
  BY <1>1, <1>2, <1>3 DEF Fit
<1> QED BY <1>2, <1>3

(* The cap drops the oldest entries.                                        *)
LEMMA FitCapped ==
  ASSUME NEW d \in Device, NEW g, NEW s \in Session, NEW opened, Fit(d, s, g, opened)
  PROVE  /\ Fit(d, Capped(s), g, opened) /\ Capped(s) \in Session
         /\ Capped(s).recvChain = s.recvChain
<1> PICK t : t = Capped(s)
  OBVIOUS
<1> DEFINE keys == s.skipped
<1>1. keys \in Seq(SkippedKey) /\ Len(keys) \in Nat
  BY SessionFields
<1>2. Overflow(keys) \in 0..Len(keys)
  BY <1>1, CapsAreNat DEF Overflow
<1> PICK o \in 0..Len(keys) : o = Overflow(keys)
  BY <1>2
<1>3. /\ DOMAIN PushSkipped(keys) = 1..(Len(keys) - o)
      /\ \A i \in 1..(Len(keys) - o) : PushSkipped(keys)[i] = keys[i + o]
  <2>1. PushSkipped(keys) = SubSeq(keys, o + 1, Len(keys))
    BY DEF PushSkipped
  <2> HIDE DEF keys
  <2> QED BY <1>1, <1>2, <2>1
<1>4. t = [s EXCEPT !.skipped = PushSkipped(keys)]
  BY DEF Capped
<1>5. /\ t.root = s.root /\ t.myKey = s.myKey /\ t.theirKey = s.theirKey
      /\ t.sendChain = s.sendChain /\ t.sendN = s.sendN
      /\ t.recvChain = s.recvChain /\ t.recvN = s.recvN
      /\ t.skipped = PushSkipped(keys)
  BY <1>4 DEF Session
<1>6. \A i \in DOMAIN t.skipped :
        i \in Int /\ i + o \in DOMAIN keys /\ t.skipped[i] = keys[i + o]
  <2>1. /\ DOMAIN t.skipped = 1..(Len(keys) - o) /\ DOMAIN keys = 1..Len(keys)
        /\ \A i \in 1..(Len(keys) - o) : t.skipped[i] = keys[i + o]
    BY <1>1, <1>3, <1>5
  <2>2. \A i \in 1..(Len(keys) - o) : i \in Int /\ i + o \in 1..Len(keys)
    BY <1>1
  <2> QED BY <2>1, <2>2
<1>7. Cache(t) \subseteq Cache(s)
  BY <1>6 DEF Cache
<1>8. Distinct(t.skipped)
  <2> SUFFICES ASSUME NEW i \in DOMAIN t.skipped, NEW j \in DOMAIN t.skipped,
                      t.skipped[i].key = t.skipped[j].key
               PROVE  i = j
    BY DEF Distinct
  <2>1. i + o = j + o
    BY <1>6 DEF Fit, Distinct
  <2>2. i \in Int /\ j \in Int /\ o \in Int
    BY <1>1, <1>6
  <2> QED BY <2>1, <2>2
<1>9. t \in Session
  BY CappedType
<1> QED BY <1>5, <1>7, <1>8, <1>9, FitFewer

(* takeSkipped removes the only entry with the key it returns.              *)
LEMMA FitTaken ==
  ASSUME NEW d \in Device, NEW g, NEW s \in Session, NEW opened, Fit(d, s, g, opened),
         NEW i \in DOMAIN s.skipped, NEW t,
         t = [s EXCEPT !.skipped = RemoveIndex(s.skipped, i)]
  PROVE  /\ Fit(d, t, g, opened)
         /\ \A m : m.key = s.skipped[i].key => Fit(d, t, g, opened \cup {m})
<1> DEFINE keys == s.skipped
           old(j) == IF j < i THEN j ELSE j + 1
<1>1. keys \in Seq(SkippedKey) /\ Len(keys) \in Nat /\ i \in 1..Len(keys)
  BY SessionFields
<1>2. /\ t.root = s.root /\ t.myKey = s.myKey /\ t.theirKey = s.theirKey
      /\ t.sendChain = s.sendChain /\ t.sendN = s.sendN
      /\ t.recvChain = s.recvChain /\ t.recvN = s.recvN
      /\ t.skipped = RemoveIndex(keys, i)
  BY DEF Session
<1>3. \A j \in DOMAIN t.skipped :
        /\ j \in Int /\ old(j) \in DOMAIN keys /\ old(j) # i /\ t.skipped[j] = keys[old(j)]
  BY <1>1, <1>2 DEF RemoveIndex
<1>4. Cache(t) \subseteq Cache(s)
  BY <1>3 DEF Cache
<1>5. \A j, k \in DOMAIN keys : keys[j].key = keys[k].key => j = k
  BY DEF Fit, Distinct
<1>6. Distinct(t.skipped)
  <2> SUFFICES ASSUME NEW j \in DOMAIN t.skipped, NEW k \in DOMAIN t.skipped,
                      t.skipped[j].key = t.skipped[k].key
               PROVE  j = k
    BY DEF Distinct
  <2>1. old(j) = old(k)
    <3> HIDE DEF old
    <3> QED BY <1>3, <1>5
  <2> QED BY <1>1, <1>3, <2>1
<1>7. \A e \in Cache(t) : e.key # keys[i].key
  <2> HIDE DEF old
  <2> QED BY <1>3, <1>5 DEF Cache
<1>8. Passed(d, s, g, keys[i].key)
  BY DEF Fit, Cache
<1> HIDE DEF keys
<1>9. /\ Fit(d, t, g, opened)
      /\ \A m : Passed(d, s, g, m.key) /\ (\A e \in Cache(t) : e.key # m.key) =>
                  Fit(d, t, g, opened \cup {m})
  BY <1>2, <1>4, <1>6, FitFewer
<1>10. ASSUME NEW m, m.key = keys[i].key
       PROVE  Fit(d, t, g, opened \cup {m})
  BY <1>7, <1>8, <1>9, <1>10
<1> QED BY <1>9, <1>10 DEF keys

(* The keys of the envelopes a device has opened are keys.                  *)
LEMMA SeenFields ==
  ASSUME TypeOK, NEW d \in Device
  PROVE  /\ \A m \in seen[d] : m \in network /\ m.key \in ChainKey
         /\ seen \in [Device -> SUBSET network] /\ session[d] \in Session
BY EnvelopeFields DEF TypeOK

(* What handling envelope m may make of session s: t, and m opened or not.  *)
Handled(d, m, s, t) ==
  /\ session' = [session EXCEPT ![d] = t]
  /\ seen' = seen \/ seen' = [seen EXCEPT ![d] = @ \cup {m}]
  /\ t.myKey = s.myKey /\ t.theirKey = s.theirKey
  /\ t.recvChain = NoChain <=> s.recvChain = NoChain

(* The tail of ratchetDecrypt uses up the keys that it takes.               *)
LEMMA ReceiveOnFits ==
  ASSUME TypeOK, NEW d \in Device, NEW m \in network, NEW g, NEW s \in Session,
         Fit(d, s, g, seen[d]), s.recvChain # NoChain, ReceiveOn(d, m, s)
  PROVE  \E t : Handled(d, m, s, t) /\ Fit(d, t, g, seen'[d])
<1>1. m.num \in Nat /\ s.recvChain \in ChainKey
  BY EnvelopeFields, SessionFields
<1>2. CASE m.num < s.recvN \/ Refuses(s, m.num)
  <2>1. Throw(d, m, Capped(s))
    BY <1>2 DEF ReceiveOn
  <2>2. Fit(d, Capped(s), g, seen[d]) /\ Capped(s).recvChain = s.recvChain
    BY FitCapped
  <2>3. Capped(s).myKey = s.myKey /\ Capped(s).theirKey = s.theirKey
    BY DEF Capped, Session
  <2> QED BY <2>1, <2>2, <2>3 DEF Throw, Handled
<1>3. CASE ~(m.num < s.recvN \/ Refuses(s, m.num))
  <2> PICK t : t = SkipForward(s, m.num)
    OBVIOUS
  <2> PICK u : u = TakeNext(t)
    OBVIOUS
  <2>1. Unseal(d, m, Capped(u), t.recvChain)
    BY <1>3 DEF ReceiveOn
  <2>2. /\ Fit(d, t, g, seen[d]) /\ t \in Session
        /\ t.recvChain \in ChainKey /\ t.theirKey = s.theirKey
    BY <1>1, SeenFields, FitSkip
  <2>3. /\ u \in Session /\ u.recvChain # NoChain
        /\ Fit(d, u, g, seen[d])
        /\ m.key = t.recvChain => Fit(d, u, g, seen[d] \cup {m})
    BY <2>2, SeenFields, FitTake
  <2>4. /\ Fit(d, Capped(u), g, seen[d])
        /\ m.key = t.recvChain => Fit(d, Capped(u), g, seen[d] \cup {m})
        /\ Capped(u).recvChain # NoChain
    BY <2>3, FitCapped
  <2>5. Capped(u).myKey = s.myKey /\ Capped(u).theirKey = s.theirKey
    <3>1. Capped(u).theirKey = u.theirKey
      BY <2>3 DEF Capped, Session
    <3>2. u.theirKey = t.theirKey
      BY <2>2 DEF TakeNext, Session
    <3> QED BY <2>2, <2>4, <3>1, <3>2 DEF Fit
  <2>6. CASE m.key = t.recvChain
    <3>1. seen' = [seen EXCEPT ![d] = @ \cup {m}]
          /\ session' = [session EXCEPT ![d] = Capped(u)]
      BY <2>1, <2>6 DEF Unseal
    <3>2. seen'[d] = seen[d] \cup {m}
      BY <3>1, SeenFields
    <3> QED BY <2>4, <2>5, <2>6, <3>1, <3>2 DEF Handled
  <2>7. CASE m.key # t.recvChain
    <3>1. seen' = seen /\ session' = [session EXCEPT ![d] = Capped(u)]
      BY <2>1, <2>7 DEF Unseal
    <3> QED BY <2>4, <2>5, <3>1 DEF Handled
  <2> QED BY <2>6, <2>7
<1> QED BY <1>2, <1>3

(* A DH step towards l with a key pair that nothing was sealed with towards *)
(* l begins a root of its own.                                              *)
LEMMA FitTurn ==
  ASSUME NEW d \in Device, NEW g \in Nat, NEW s \in Session, NEW opened,
         Fit(d, s, g, opened), NEW l \in Own(Peer(d)),
         \A n \in From(d) : /\ n.ratchetKey \in Upto(d, g)
                            /\ \E k \in Own(Peer(d)) : Ends(n.key.root, n.ratchetKey, k)
                            /\ n.ratchetKey = s.myKey => ~Ends(n.key.root, s.myKey, l)
  PROVE  Fit(d, OpenRecvChain(s, l, <<d, g + 1>>), g + 1, opened)
<1> DEFINE fresh == <<d, g + 1>>
<1> PICK root : root = DhRatchetStep(s.root, s.myKey, l)
  OBVIOUS
<1> PICK u : u = OpenRecvChain(s, l, fresh)
  OBVIOUS
<1>1. /\ s.root \in Root /\ s.myKey = <<d, g>> /\ s.myKey \in Own(d)
      /\ l \in KeyPair /\ s.myKey \in KeyPair /\ s.myKey \in Upto(d, (g + 1) - 1)
  BY SessionFields, OwnFacts, PeerFacts DEF Fit, Own, KeyPair, Upto
<1>2. root \in Root /\ Ends(root, s.myKey, l)
  BY <1>1, DhRatchetStepType, StepEnds
<1>3. u = [root |-> root, myKey |-> fresh, theirKey |-> l,
           sendChain |-> NoChain, recvChain |-> ChainFrom(root),
           sendN |-> s.sendN, recvN |-> 0, prevLen |-> s.prevLen,
           skipped |-> s.skipped]
  BY DEF OpenRecvChain
<1>4. /\ u.myKey = fresh /\ u.theirKey = l /\ u.sendChain = NoChain /\ u.recvN = 0
      /\ u.recvChain = [root |-> root, pos |-> 0] /\ u.skipped = s.skipped
  BY <1>3 DEF ChainFrom
<1>5. u.recvChain # NoChain /\ u.recvChain.root = root /\ u.recvChain.pos = 0
  BY <1>2, <1>4, NoChainIsNoKey DEF ChainKey
<1>6. \A n \in From(d) : n.ratchetKey # fresh
  BY DEF Upto
<1>7. \A n \in From(d) : n.key.root # root
  <2> SUFFICES ASSUME NEW n \in From(d), n.key.root = root
               PROVE  FALSE
    OBVIOUS
  <2>1. PICK k \in Own(Peer(d)) : Ends(n.key.root, n.ratchetKey, k)
    OBVIOUS
  <2>2. n.ratchetKey \in Own(d)
    BY OwnFacts
  <2>3. n.ratchetKey = s.myKey
    BY <1>1, <1>2, <2>1, <2>2, EndsParts
  <2> QED BY <1>2, <2>3
<1>8. Old(d, g + 1, root)
  BY <1>1, <1>2, <1>7 DEF Old
<1>9. Cache(u) = Cache(s)
  BY <1>4 DEF Cache
<1>10. ASSUME NEW key, Passed(d, s, g, key)
       PROVE  Passed(d, u, g + 1, key)
  <2>1. Old(d, g, key.root)
    BY <1>10 DEF Passed
  <2>2. Old(d, g + 1, key.root) /\ ~Ends(key.root, <<d, g>>, l)
    BY <2>1, OldIsOld
  <2>3. key.root # root
    BY <1>1, <1>2, <2>2
  <2> QED BY <1>5, <2>2, <2>3 DEF Passed, OnChain
<1>11. g + 1 # 0
  OBVIOUS
<1> QED BY <1>4, <1>5, <1>6, <1>8, <1>9, <1>10, <1>11 DEF Fit

(* What Spent says of a device depends on the network only through what the *)
(* device sent.                                                             *)
LEMMA FitUnchanged ==
  ASSUME NEW d \in Device, network' = network, Fit(d, session'[d], generated'[d], seen'[d])
  PROVE  Fit(d, session[d], generated[d], seen[d])'
BY DEF Fit, Old, Passed, From, Cache, Distinct, Ends, Own, Upto, OnChain

(* NoMirror from the point of view of one device.                           *)
LEMMA MirrorSeenFrom ==
  ASSUME NEW d \in Device,
         \A k \in Own(d), l \in Own(Peer(d)) : ~(Uses(d, k, l)' /\ Uses(Peer(d), l, k)')
  PROVE  NoMirror'
<1>1. Peer(d) \in Device /\ Peer(Peer(d)) = d /\ \A e \in Device : e = d \/ e = Peer(d)
  BY PeerFacts, Pair
<1>2. ASSUME NEW e \in Device, NEW k \in Own(e), NEW l \in Own(Peer(e))
      PROVE  ~(Uses(e, k, l)' /\ Uses(Peer(e), l, k)')
  <2>1. CASE e = d
    BY <2>1
  <2>2. CASE e = Peer(d)
    <3>1. Peer(e) = d /\ l \in Own(d) /\ k \in Own(Peer(d))
      BY <1>1, <2>2
    <3>2. ~(Uses(d, l, k)' /\ Uses(Peer(d), k, l)')
      BY <3>1
    <3> QED BY <2>2, <3>1, <3>2
  <2> QED BY <1>1, <2>1, <2>2
<1> QED BY <1>2 DEF NoMirror, Own

(* Handling an envelope without a turn keeps the invariant.                 *)
LEMMA HandledSpent ==
  ASSUME TypeOK, Spent, NEW d \in Device, NEW m \in network, NEW t,
         Handled(d, m, session[d], t), Fit(d, t, generated[d], seen'[d]),
         network' = network, generated' = generated
  PROVE  Spent'
<1>1. /\ session \in [Device -> Session] /\ seen \in [Device -> SUBSET network]
      /\ session' = [session EXCEPT ![d] = t]
  BY DEF TypeOK, Handled
<1>2. /\ session'[d] = t
      /\ \A e \in Device : e # d => session'[e] = session[e] /\ seen'[e] = seen[e]
  BY <1>1 DEF Handled
<1>3. \A e \in Device :
        /\ session'[e].myKey = session[e].myKey /\ session'[e].theirKey = session[e].theirKey
        /\ session'[e].recvChain = NoChain <=> session[e].recvChain = NoChain
  BY <1>2 DEF Handled
<1>4. Sessions'
  <2> SUFFICES ASSUME NEW e \in Device PROVE Fit(e, session[e], generated[e], seen[e])'
    BY DEF Sessions
  <2>1. Fit(e, session'[e], generated'[e], seen'[e])
    BY <1>2 DEF Spent, Sessions
  <2> QED BY <2>1, FitUnchanged
<1>5. Signed'
  BY <1>3 DEF Spent, Signed, From
<1>6. SentOnce'
  BY DEF Spent, SentOnce, From
<1>7. NoMirror'
  <2>1. \A e \in Device : Peer(e) \in Device
    BY PeerFacts
  <2>2. \A e \in Device : \A k, l : Uses(e, k, l)' <=> Uses(e, k, l)
    BY <1>3 DEF Uses, From
  <2> QED BY <2>1, <2>2 DEF Spent, NoMirror
<1> QED BY <1>4, <1>5, <1>6, <1>7 DEF Spent

(* A key of the cache is given up when it is taken.                         *)
LEMMA ReceiveSkippedSpent ==
  ASSUME TypeOK, Spent, NEW d \in Device, NEW m \in network, ReceiveSkipped(d, m)
  PROVE  Spent'
<1> DEFINE s == session[d]
<1>1. s \in Session /\ Fit(d, s, generated[d], seen[d]) /\ seen \in [Device -> SUBSET network]
  BY SeenFields DEF Spent, Sessions
<1>2. PICK i \in CachedAt(d, m) :
        Unseal(d, m, [s EXCEPT !.skipped = RemoveIndex(@, i)], s.skipped[i].key)
  BY DEF ReceiveSkipped
<1>3. i \in DOMAIN s.skipped
  BY DEF CachedAt
<1> PICK t : t = [s EXCEPT !.skipped = RemoveIndex(s.skipped, i)]
  OBVIOUS
<1>4. /\ Fit(d, t, generated[d], seen[d])
      /\ m.key = s.skipped[i].key => Fit(d, t, generated[d], seen[d] \cup {m})
  <2> HIDE DEF s
  <2> QED BY <1>1, <1>3, FitTaken
<1>5. Unseal(d, m, t, s.skipped[i].key)
  BY <1>2
<1>6. t.myKey = s.myKey /\ t.theirKey = s.theirKey /\ t.recvChain = s.recvChain
  BY <1>1 DEF Session
<1>7. Handled(d, m, s, t)
  BY <1>5, <1>6 DEF Unseal, Handled
<1>8. Fit(d, t, generated[d], seen'[d])
  <2>1. CASE m.key = s.skipped[i].key
    <3>1. seen' = [seen EXCEPT ![d] = @ \cup {m}]
      BY <1>5, <2>1 DEF Unseal
    <3>2. seen'[d] = seen[d] \cup {m}
      BY <1>1, <3>1
    <3> QED BY <1>4, <2>1, <3>2
  <2>2. CASE m.key # s.skipped[i].key
    <3>1. seen' = seen
      BY <1>5, <2>2 DEF Unseal
    <3> QED BY <1>4, <3>1
  <2> QED BY <2>1, <2>2
<1>9. network' = network /\ generated' = generated
  BY DEF ReceiveSkipped
<1> QED BY <1>7, <1>8, <1>9, HandledSpent

(* The next key of the chain it is on, or one further along it.             *)
LEMMA ReceiveCurrentSpent ==
  ASSUME TypeOK, Spent, NEW d \in Device, NEW m \in network, ReceiveCurrent(d, m)
  PROVE  Spent'
<1>1. /\ ReceiveOn(d, m, session[d]) /\ session[d].recvChain # NoChain
      /\ network' = network /\ generated' = generated
  BY DEF ReceiveCurrent, OnCurrentChain
<1>2. session[d] \in Session /\ Fit(d, session[d], generated[d], seen[d])
  BY SeenFields DEF Spent, Sessions
<1>3. \E t : Handled(d, m, session[d], t) /\ Fit(d, t, generated[d], seen'[d])
  BY <1>1, <1>2, ReceiveOnFits
<1> QED BY <1>1, <1>3, HandledSpent

(* A turn: the fresh key pair is unknown to the peer, so nobody has begun a *)
(* chain with it.                                                           *)
LEMMA ReceiveTurnSpent ==
  ASSUME TypeOK, OneStarter, Spent, NEW d \in Device, NEW m \in network, ReceiveTurn(d, m)
  PROVE  Spent'
<1> DEFINE p == Peer(d)
           s == session[d]
           g == generated[d]
           l == m.ratchetKey
<1>1. /\ p \in Device /\ p # d /\ Peer(p) = d /\ \A e \in Device : e = d \/ e = p
      /\ g \in Nat /\ generated[p] \in Nat /\ generated \in [Device -> Nat]
      /\ s \in Session /\ session \in [Device -> Session]
      /\ seen \in [Device -> SUBSET network] /\ m.prev \in Nat /\ l \in KeyPair
  BY PeerFacts, Pair, SeenFields, EnvelopeFields DEF TypeOK
<1>2. /\ m \in From(p) /\ ~OnCurrentChain(d, m) /\ network' = network
  BY DEF ReceiveTurn, Arrives, From
<1>3. Fit(d, s, g, seen[d]) /\ Signed /\ SentOnce /\ NoMirror
  BY DEF Spent, Sessions
<1>4. CASE Refuses(s, m.prev)
  <2>1. session' = [session EXCEPT ![d] = s] /\ seen' = seen /\ generated' = generated
    BY <1>4 DEF ReceiveTurn, Throw
  <2>2. Handled(d, m, s, s) /\ Fit(d, s, g, seen'[d])
    BY <1>3, <2>1 DEF Handled
  <2> QED BY <1>2, <2>1, <2>2, HandledSpent
<1>5. CASE ~Refuses(s, m.prev)
  <2> DEFINE fresh == <<d, g + 1>>
  <2> PICK old : old = SkipForward(s, m.prev)
    OBVIOUS
  <2> PICK u : u = OpenRecvChain(old, l, fresh)
    OBVIOUS
  <2>1. generated' = [generated EXCEPT ![d] = g + 1] /\ generated'[d] = g + 1
    BY <1>1, <1>5 DEF ReceiveTurn
  <2>2. ReceiveOn(d, m, u)
    BY <1>5, <2>1 DEF ReceiveTurn
  <2>3. /\ l \in Upto(p, generated[p]) /\ l \in Own(p)
        /\ l = Identity(p) => p \in Starters
        /\ \E k \in Upto(d, g) : Ends(m.key.root, l, k)
    BY <1>1, <1>2, <1>3, OwnFacts DEF Signed
  <2>4. /\ old \in Session /\ Fit(d, old, g, seen[d])
        /\ old.recvChain = NoChain <=> s.recvChain = NoChain
        /\ old.theirKey = s.theirKey /\ old.myKey = s.myKey
    <3>1. CASE s.recvChain = NoChain
      <4>1. old = s
        BY <3>1 DEF SkipForward
      <4> QED BY <1>1, <1>3, <4>1
    <3>2. CASE s.recvChain # NoChain
      <4>1. /\ old \in Session /\ Fit(d, old, g, seen[d]) /\ old.theirKey = s.theirKey
            /\ old.recvChain \in ChainKey
        BY <1>1, <1>3, <3>2, SeenFields, FitSkip, SMTT(20)
      <4>2. old.recvChain # NoChain
        BY <4>1, NoChainIsNoKey
      <4>3. old.myKey = <<d, g>> /\ s.myKey = <<d, g>>
        BY <1>3, <4>1 DEF Fit
      <4> QED BY <3>2, <4>1, <4>2, <4>3
    <3> QED BY <3>1, <3>2
  <2>5. ASSUME NEW n \in From(d), n.ratchetKey = s.myKey, Ends(n.key.root, s.myKey, l)
        PROVE  FALSE
    <3>1. /\ s.sendChain # NoChain /\ n.key.root = s.root
          /\ Ends(s.root, s.myKey, s.theirKey) /\ s.theirKey \in Own(p)
          /\ s.myKey \in Own(d)
          /\ d \in Starters \/ g > 0
      <4>1. <<d, g>> \in Own(d)
        BY <1>1, OwnFacts
      <4>2. /\ s.sendChain # NoChain /\ n.key.root = s.root
            /\ s.myKey = <<d, g>> /\ s.theirKey \in Own(p)
        BY <1>3, <2>5 DEF Fit
      <4>3. /\ Ends(s.root, s.myKey, s.theirKey)
            /\ d \in Starters \/ g > 0
        BY <1>3, <4>2 DEF Fit
      <4> QED BY <4>1, <4>2, <4>3
    <3>2. s.theirKey = l
      <4>1. Ends(s.root, s.myKey, l)
        BY <2>5, <3>1
      <4> QED BY <2>3, <3>1, <4>1, EndsParts
    <3>3. s.recvChain = NoChain
      BY <1>2, <3>2 DEF OnCurrentChain
    <3>4. g = 0 /\ l = Identity(p)
      BY <1>3, <3>2, <3>3 DEF Fit
    <3>5. d \in Starters /\ p \in Starters
      BY <2>3, <3>1, <3>4
    <3> QED BY <1>1, <3>5 DEF OneStarter
  <2>6. \A n \in From(d) : /\ n.ratchetKey \in Upto(d, g)
                           /\ \E k \in Own(p) : Ends(n.key.root, n.ratchetKey, k)
                           /\ n.ratchetKey = old.myKey => ~Ends(n.key.root, old.myKey, l)
    <3>1. \A n \in From(d) : /\ n.ratchetKey \in Upto(d, g)
                             /\ \E k \in Upto(p, generated[p]) : Ends(n.key.root, n.ratchetKey, k)
      BY <1>3 DEF Signed
    <3>2. Upto(p, generated[p]) \subseteq Own(p)
      BY <1>1, OwnFacts
    <3> QED BY <2>4, <2>5, <3>1, <3>2
  <2>7. Fit(d, u, g + 1, seen[d])
    <3> HIDE DEF l, g, p
    <3> QED BY <1>1, <2>3, <2>4, <2>6, FitTurn DEF p
  <2>8. /\ u \in Session /\ u.myKey = fresh /\ u.theirKey = l /\ u.recvChain # NoChain
    <3>1. fresh \in KeyPair
      BY <1>1 DEF KeyPair
    <3>2. u \in Session
      BY <1>1, <2>4, <3>1, OpenRecvChainType
    <3>3. u.theirKey = l
      BY DEF OpenRecvChain
    <3>4. g + 1 # 0
      BY <1>1
    <3> QED BY <2>7, <3>2, <3>3, <3>4 DEF Fit
  <2>9. PICK t : Handled(d, m, u, t) /\ Fit(d, t, g + 1, seen'[d])
    BY <2>2, <2>7, <2>8, ReceiveOnFits
  <2>10. /\ t.myKey = fresh /\ t.theirKey = l /\ t.recvChain # NoChain
         /\ session' = [session EXCEPT ![d] = t] /\ session'[d] = t
         /\ session'[p] = session[p] /\ seen'[p] = seen[p] /\ generated'[p] = generated[p]
    BY <1>1, <2>1, <2>8, <2>9 DEF Handled
  <2>11. Sessions'
    <3>1. Fit(p, session[p], generated[p], seen[p])
      BY <1>1 DEF Spent, Sessions
    <3>2. Fit(p, session'[p], generated'[p], seen'[p])
      BY <2>10, <3>1
    <3>3. Fit(d, session'[d], generated'[d], seen'[d])
      BY <2>1, <2>9, <2>10
    <3>4. ASSUME NEW e \in Device PROVE Fit(e, session'[e], generated'[e], seen'[e])
      BY <1>1, <3>2, <3>3
    <3> HIDE DEF p
    <3> QED BY <1>2, <3>4, FitUnchanged DEF Sessions
  <2>12. Upto(d, g) \subseteq Upto(d, g + 1)
    BY <1>1, OwnFacts
  <2>13. Signed'
    <3>1. ASSUME NEW e \in Device
          PROVE  /\ Upto(e, generated[e]) \subseteq Upto(e, generated'[e])
                 /\ session'[e].theirKey \in Upto(Peer(e), generated'[Peer(e)])
                 /\ \A n \in From(e) : n.ratchetKey = Identity(e) => e \in Starters
      BY <1>1, <1>3, <2>1, <2>3, <2>10, <2>12 DEF Signed
    <3>2. \A e \in Device : Upto(Peer(e), generated[Peer(e)]) \subseteq Upto(Peer(e), generated'[Peer(e)])
      BY <3>1, PeerFacts
    <3>3. \A e \in Device : From(e)' = From(e)
      BY <1>2 DEF From
    <3>4. ASSUME NEW e \in Device, NEW n \in From(e)
          PROVE  /\ n.ratchetKey \in Upto(e, generated'[e])
                 /\ \E k \in Upto(Peer(e), generated'[Peer(e)]) : Ends(n.key.root, n.ratchetKey, k)
      <4>1. /\ n.ratchetKey \in Upto(e, generated[e])
            /\ \E k \in Upto(Peer(e), generated[Peer(e)]) : Ends(n.key.root, n.ratchetKey, k)
        BY <1>3 DEF Signed
      <4> QED BY <3>1, <3>2, <4>1
    <3> QED BY <3>1, <3>3, <3>4 DEF Signed, Upto, Ends
  <2>14. SentOnce'
    BY <1>2, <1>3 DEF SentOnce, From
  <2>15. NoMirror'
    <3>1. ASSUME NEW k \in Own(d), NEW k2 \in Own(p), Uses(d, k, k2)', Uses(p, k2, k)'
          PROVE  FALSE
      <4>1. From(d)' = From(d) /\ From(p)' = From(p)
        BY <1>2 DEF From
      <4>2. Uses(p, k2, k)
        BY <2>10, <3>1, <4>1 DEF Uses, Ends
      <4>3. Uses(d, k, k2) \/ (k = fresh /\ k2 = l)
        BY <2>10, <3>1, <4>1 DEF Uses, Ends
      <4>4. ~Uses(d, k, k2)
        BY <1>3, <4>2 DEF NoMirror
      <4>5. k = fresh /\ k2 = l
        BY <4>3, <4>4
      <4>6. fresh \notin Upto(d, g)
        BY <1>1 DEF Upto
      <4>7. session[p].theirKey \in Upto(d, g)
        BY <1>1, <1>3 DEF Signed
      <4>8. ASSUME NEW n \in From(p), Ends(n.key.root, k2, k), n.ratchetKey = k2
            PROVE  FALSE
        <5>1. PICK k3 \in Upto(d, g) : Ends(n.key.root, n.ratchetKey, k3)
          BY <1>1, <1>3 DEF Signed
        <5>2. k3 \in Own(d)
          BY <1>1, OwnFacts
        <5>3. k3 = k
          BY <1>1, <4>8, <5>1, <5>2, EndsParts
        <5> QED BY <4>5, <4>6, <5>1, <5>3
      <4> QED BY <4>2, <4>5, <4>6, <4>7, <4>8 DEF Uses
    <3>2. \A k \in Own(d), k2 \in Own(p) : ~(Uses(d, k, k2)' /\ Uses(p, k2, k)')
      BY <3>1
    <3> QED BY <3>2, MirrorSeenFrom
  <2> QED BY <2>11, <2>13, <2>14, <2>15 DEF Spent
<1> QED BY <1>4, <1>5

(* Sealing takes the next key of the sending chain, which is begun with the *)
(* key pair the device holds.                                               *)
LEMMA SendSpent ==
  ASSUME TypeOK, Spent, NEW d \in Device, Send(d)
  PROVE  Spent'
<1> DEFINE p == Peer(d)
           s == session[d]
           g == generated[d]
<1>1. /\ p \in Device /\ p # d /\ Peer(p) = d /\ \A e \in Device : e = d \/ e = p
      /\ g \in Nat /\ generated[p] \in Nat /\ generated' = generated
      /\ s \in Session /\ session \in [Device -> Session] /\ seen' = seen
      /\ d \in Starters \/ s.recvChain # NoChain
  BY PeerFacts, Pair, SeenFields DEF TypeOK, Send
<1>2. Fit(d, s, g, seen[d]) /\ Signed /\ SentOnce /\ NoMirror
  BY DEF Spent, Sessions
<1>3. s.sendChain # NoChain => s.sendChain.pos = s.sendN
  BY <1>2 DEF Fit
<1>4. PICK t, m : /\ Extended(s, t, m) /\ m.from = d
                  /\ session' = [session EXCEPT ![d] = t]
                  /\ network' = network \cup {m}
  BY <1>3, SendExtends
<1>5. /\ session'[d] = t /\ session'[p] = session[p]
      /\ From(d)' = From(d) \cup {m} /\ From(p)' = From(p)
  BY <1>1, <1>4 DEF From
<1>6. /\ t.myKey = s.myKey /\ t.theirKey = s.theirKey /\ t.recvChain = s.recvChain
      /\ t.recvN = s.recvN /\ t.skipped = s.skipped
      /\ t.sendChain # NoChain /\ t.sendChain.pos = t.sendN
      /\ t.sendN = m.num + 1 /\ m.num \in Nat /\ m.ratchetKey = s.myKey
      /\ m.key.root = t.sendChain.root /\ m.key.pos = m.num
      /\ s.sendChain # NoChain => /\ t.root = s.root /\ m.num = s.sendN
                                  /\ t.sendChain.root = s.sendChain.root
      /\ s.sendChain = NoChain => /\ t.root = DhRatchetStep(s.root, s.myKey, s.theirKey)
                                  /\ t.sendChain.root = t.root
  BY <1>4 DEF Extended, DhRatchetStep
<1>7. /\ s.myKey = <<d, g>> /\ s.myKey \in Own(d) /\ s.theirKey \in Own(p)
      /\ s.theirKey \in Upto(p, generated[p]) /\ s.myKey \in Upto(d, g)
      /\ s.myKey \in KeyPair /\ s.theirKey \in KeyPair /\ s.root \in Root
  <2>1. s.myKey = <<d, g>> /\ s.theirKey \in Own(p) /\ s.theirKey \in Upto(p, generated[p])
    BY <1>1, <1>2 DEF Fit, Signed
  <2>2. <<d, g>> \in Own(d) /\ <<d, g>> \in Upto(d, g)
    BY <1>1, OwnFacts
  <2> QED BY <1>1, <2>1, <2>2, SessionFields
<1>8. t.sendChain.root = t.root /\ Ends(t.root, s.myKey, s.theirKey)
  <2>1. CASE s.sendChain = NoChain
    BY <1>6, <1>7, <2>1, StepEnds
  <2>2. CASE s.sendChain # NoChain
    BY <1>2, <1>6, <2>2 DEF Fit
  <2> QED BY <2>1, <2>2
<1>9. \A n \in From(d) : n.ratchetKey = s.myKey =>
        n.key.root = t.root /\ n.key.pos < m.num
  BY <1>2, <1>3, <1>6 DEF Fit
<1>10. ASSUME NEW r, Old(d, g, r)
       PROVE  Old(d, g, r)'
  <2>1. ~Ends(r, <<d, g>>, s.theirKey)
    BY <1>1, <1>7, <1>10, OldIsOld
  <2>2. m.key.root # r
    BY <1>6, <1>7, <1>8, <2>1
  <2>3. \A n \in From(d)' : n.key.root # r
    BY <1>5, <1>10, <2>2 DEF Old
  <2> QED BY <1>1, <1>10, <2>3 DEF Old, Upto, Own, Ends
<1>11. Fit(d, session[d], generated[d], seen[d])'
  <2>1. Cache(t) = Cache(s) /\ Distinct(t.skipped)
    BY <1>2, <1>6 DEF Cache, Fit
  <2>2. \A key : Passed(d, s, g, key) => Old(d, g, key.root)' /\ ~OnChain(t.recvChain, key)
    BY <1>6, <1>10 DEF Passed
  <2>3. t.recvChain # NoChain =>
          t.recvChain.pos = t.recvN /\ Old(d, g, t.recvChain.root)'
    BY <1>2, <1>6, <1>10 DEF Fit
  <2>4. /\ \A e \in Cache(t) : Old(d, g, e.key.root)' /\ ~OnChain(t.recvChain, e.key)
        /\ \A n \in seen[d] : Old(d, g, n.key.root)' /\ ~OnChain(t.recvChain, n.key)
        /\ \A n \in seen[d] : \A e \in Cache(t) : e.key # n.key
    BY <1>2, <2>1, <2>2 DEF Fit
  <2>5. \A n \in From(d)' : n.ratchetKey = t.myKey =>
          n.key.root = t.root /\ n.key.pos < t.sendChain.pos
    <3>1. ASSUME NEW n \in From(d), n.ratchetKey = s.myKey
          PROVE  n.key.root = t.root /\ n.key.pos < m.num + 1
      <4>1. n.key.root = t.root /\ n.key.pos < m.num /\ s.sendChain # NoChain
        BY <1>2, <1>9, <3>1 DEF Fit
      <4>2. n.key.pos \in Nat
        BY <3>1, EnvelopeFields DEF From, ChainKey
      <4> QED BY <1>6, <4>1, <4>2
    <3>2. m.key.root = t.root /\ m.key.pos < m.num + 1
      BY <1>6, <1>8
    <3> QED BY <1>5, <1>6, <3>1, <3>2
  <2>6. /\ t.recvChain = NoChain <=> g = 0
        /\ g = 0 => s.theirKey = Identity(p)
        /\ d \in Starters \/ g > 0
    <3>1. /\ s.recvChain = NoChain <=> g = 0
          /\ g = 0 => s.theirKey = Identity(p)
      BY <1>2 DEF Fit
    <3>2. d \in Starters \/ g > 0
      BY <1>1, <3>1
    <3> QED BY <1>6, <3>1, <3>2
  <2>7. session'[d] = t /\ generated'[d] = g /\ seen'[d] = seen[d]
    BY <1>1, <1>5
  <2>8. /\ t.myKey = <<d, g>> /\ t.theirKey \in Own(p) /\ t.theirKey = s.theirKey
        /\ t.sendChain # NoChain /\ t.sendChain.pos = t.sendN
        /\ t.sendChain.root = t.root /\ Ends(t.root, t.myKey, t.theirKey)
    BY <1>6, <1>7, <1>8
  <2> QED BY <2>1, <2>3, <2>4, <2>5, <2>6, <2>7, <2>8
          DEF Fit, Passed, Ends, Own, Cache, Distinct, OnChain
<1>12. Fit(p, session[p], generated[p], seen[p])'
  <2>1. Fit(p, session[p], generated[p], seen[p])
    BY <1>1 DEF Spent, Sessions
  <2>2. session'[p] = session[p] /\ generated'[p] = generated[p] /\ seen'[p] = seen[p]
    BY <1>1, <1>5
  <2> HIDE DEF p
  <2> QED BY <1>5, <2>1, <2>2 DEF Fit, Old, Passed, Cache, Distinct, Ends, Own, Upto, OnChain
<1>13. Sessions'
  BY <1>1, <1>11, <1>12 DEF Sessions
<1>14. Signed'
  <2>1. m.ratchetKey \in Upto(d, g) /\ Ends(m.key.root, m.ratchetKey, s.theirKey)
        /\ (m.ratchetKey = Identity(d) => d \in Starters)
    <3>1. m.ratchetKey = Identity(d) => g = 0
      BY <1>6, <1>7 DEF Identity
    <3>2. g = 0 => d \in Starters
      BY <1>1, <1>2 DEF Fit
    <3> QED BY <1>6, <1>7, <1>8, <3>1, <3>2
  <2>2. /\ session'[d].theirKey \in Upto(p, generated[p])
        /\ \A n \in From(d)' :
             /\ n.ratchetKey \in Upto(d, g)
             /\ n.ratchetKey = Identity(d) => d \in Starters
             /\ \E l \in Upto(p, generated[p]) : Ends(n.key.root, n.ratchetKey, l)
    BY <1>2, <1>5, <1>6, <1>7, <2>1 DEF Signed
  <2>3. /\ session'[p].theirKey \in Upto(d, g)
        /\ \A n \in From(p)' :
             /\ n.ratchetKey \in Upto(p, generated[p])
             /\ n.ratchetKey = Identity(p) => p \in Starters
             /\ \E l \in Upto(d, g) : Ends(n.key.root, n.ratchetKey, l)
    BY <1>1, <1>2, <1>5 DEF Signed
  <2> QED BY <1>1, <2>2, <2>3 DEF Signed, Upto, Ends
<1>15. SentOnce'
  <2>1. \A n \in From(d) : n.key # m.key
    <3> SUFFICES ASSUME NEW n \in From(d), n.key = m.key
                 PROVE  FALSE
      OBVIOUS
    <3>1. n.ratchetKey \in Own(d) /\ \E l \in Own(p) : Ends(n.key.root, n.ratchetKey, l)
      BY <1>1, <1>2, OwnFacts DEF Signed
    <3>2. Ends(n.key.root, s.myKey, s.theirKey)
      BY <1>6, <1>8
    <3>3. n.ratchetKey = s.myKey
      BY <1>7, <3>1, <3>2, EndsParts
    <3>4. n.key.pos < m.num
      BY <1>9, <3>3
    <3> QED BY <1>6, <3>4
  <2> QED BY <1>1, <1>2, <1>5, <2>1 DEF SentOnce
<1>16. NoMirror'
  <2>1. ASSUME NEW k \in Own(d), NEW l \in Own(p), Uses(d, k, l)'
        PROVE  Uses(d, k, l)
    <3>1. CASE Ends(m.key.root, k, l)
      <4>1. k = s.myKey /\ l = s.theirKey
        BY <1>6, <1>7, <1>8, <3>1, EndsParts
      <4> QED BY <1>1, <4>1 DEF Uses
    <3>2. CASE ~Ends(m.key.root, k, l)
      BY <1>5, <1>6, <2>1, <3>2 DEF Uses, Ends
    <3> QED BY <3>1, <3>2
  <2>2. \A k \in Own(d), l \in Own(p) : Uses(p, l, k)' => Uses(p, l, k)
    BY <1>1, <1>5 DEF Uses, Ends
  <2>3. \A k \in Own(d), l \in Own(p) : ~(Uses(d, k, l) /\ Uses(p, l, k))
    BY <1>2 DEF NoMirror
  <2> QED BY <2>1, <2>2, <2>3, MirrorSeenFrom
<1> QED BY <1>13, <1>14, <1>15, <1>16 DEF Spent

(* Nobody has done anything: no key has been used.                          *)
LEMMA InitSpent ==
  ASSUME Init, OneStarter
  PROVE  Spent
<1>1. \A d \in Device :
        /\ session[d] = InitSession(d) /\ generated[d] = 0 /\ seen[d] = {}
        /\ From(d) = {} /\ Peer(d) \in Device /\ Peer(d) # d
        /\ Identity(d) \in Upto(d, 0) /\ Identity(d) \in Own(d)
        /\ Identity(Peer(d)) \in Upto(Peer(d), 0) /\ Identity(Peer(d)) \in Own(Peer(d))
  BY PeerFacts DEF Init, From, Identity, Own, Upto
<1>2. \A d \in Device :
        /\ session[d].myKey = Identity(d) /\ session[d].theirKey = Identity(Peer(d))
        /\ session[d].sendChain = NoChain /\ session[d].recvChain = NoChain
        /\ session[d].skipped = <<>>
  <2> SUFFICES ASSUME NEW d \in Device
               PROVE  LET s == InitSession(d)
                      IN  /\ s.myKey = Identity(d) /\ s.theirKey = Identity(Peer(d))
                          /\ s.sendChain = NoChain /\ s.recvChain = NoChain
                          /\ s.skipped = <<>>
    BY <1>1
  <2> QED BY DEF InitSession
<1>3. Sessions
  <2> SUFFICES ASSUME NEW d \in Device PROVE Fit(d, session[d], generated[d], seen[d])
    BY DEF Sessions
  <2>1. DOMAIN session[d].skipped = {} /\ Cache(session[d]) = {}
    BY <1>2 DEF Cache
  <2>2. session[d].myKey = <<d, 0>>
    BY <1>2 DEF Identity
  <2> QED BY <1>1, <1>2, <2>1, <2>2 DEF Fit, Distinct
<1>4. Signed
  BY <1>1, <1>2 DEF Signed
<1>5. SentOnce
  BY <1>1 DEF SentOnce
<1>6. NoMirror
  <2> SUFFICES ASSUME NEW d \in Device, NEW k \in Own(d), NEW l \in Own(Peer(d)),
                      Uses(d, k, l), Uses(Peer(d), l, k)
               PROVE  FALSE
    BY DEF NoMirror
  <2>1. d \in Starters /\ Peer(d) \in Starters
    BY <1>1, <1>2 DEF Uses
  <2> QED BY <1>1, <2>1 DEF OneStarter
<1> QED BY <1>3, <1>4, <1>5, <1>6 DEF Spent

(* No key serves two envelopes, opens one twice or outlives its use, while  *)
(* at most one of the devices starts the session.                           *)
THEOREM SpentAlways == OneStarter => (Spec => []Spent)
<1> SUFFICES ASSUME OneStarter PROVE Spec => []Spent
  OBVIOUS
<1>1. Init => Spent
  BY InitSpent
<1>2. TypeOK /\ Spent /\ [Next]_vars => Spent'
  <2> SUFFICES ASSUME TypeOK, Spent, [Next]_vars
               PROVE  Spent'
    OBVIOUS
  <2>1. CASE UNCHANGED vars
    BY <2>1 DEF vars, Spent, Sessions, Fit, Old, Passed, OnChain, From, Cache,
                Signed, SentOnce, NoMirror, Uses
  <2>2. ASSUME NEW d \in Device, Send(d)
        PROVE  Spent'
    BY <2>2, SendSpent
  <2>3. ASSUME NEW d \in Device, NEW m \in network,
               ReceiveSkipped(d, m) \/ ReceiveCurrent(d, m) \/ ReceiveTurn(d, m)
        PROVE  Spent'
    BY <2>3, ReceiveSkippedSpent, ReceiveCurrentSpent, ReceiveTurnSpent
  <2> QED BY <2>1, <2>2, <2>3 DEF Next
<1> QED BY <1>1, <1>2, TypeCorrect, PTL DEF Spec

(* "Each envelope its own single-use encryption key" (ratchet.ts:5-6): no   *)
(* two envelopes of the pair, in either direction, are sealed with one key. *)
THEOREM KeysAreSingleUse == OneStarter => (Spec => []KeySingleUse)
<1>1. TypeOK /\ Spent => KeySingleUse
  <2> SUFFICES ASSUME TypeOK, Spent, NEW m \in network, NEW n \in network, m.key = n.key
               PROVE  m = n
    BY DEF KeySingleUse
  <2> DEFINE d == m.from
             p == Peer(d)
  <2>1. d \in Device /\ n.from \in Device /\ m \in From(d) /\ n \in From(n.from)
        /\ p \in Device /\ Peer(p) = d /\ (n.from = d \/ n.from = p)
    BY EnvelopeFields, PeerFacts, Pair DEF From
  <2>2. CASE n.from = d
    BY <2>1, <2>2 DEF Spent, SentOnce
  <2>3. CASE n.from = p
    <3>1. /\ m.ratchetKey \in Upto(d, generated[d])
          /\ \E l \in Upto(p, generated[p]) : Ends(m.key.root, m.ratchetKey, l)
      BY <2>1 DEF Spent, Signed
    <3>2. /\ n.ratchetKey \in Upto(p, generated[p])
          /\ \E k \in Upto(d, generated[d]) : Ends(n.key.root, n.ratchetKey, k)
      BY <2>1, <2>3 DEF Spent, Signed
    <3>3. Upto(d, generated[d]) \subseteq Own(d) /\ Upto(p, generated[p]) \subseteq Own(p)
      BY <2>1, OwnFacts DEF TypeOK
    <3>4. PICK l \in Own(p) : Ends(m.key.root, m.ratchetKey, l)
      BY <3>1, <3>3
    <3>5. PICK k \in Own(d) : Ends(m.key.root, n.ratchetKey, k)
      BY <3>2, <3>3
    <3>6. n.ratchetKey = l /\ k = m.ratchetKey
      <4> HIDE DEF d
      <4> QED BY <2>1, <3>1, <3>2, <3>3, <3>4, <3>5, EndsParts
    <3>7. Uses(d, m.ratchetKey, l) /\ Uses(p, l, m.ratchetKey)
      BY <2>1, <2>3, <3>4, <3>5, <3>6 DEF Uses
    <3> QED BY <2>1, <3>1, <3>3, <3>7 DEF Spent, NoMirror
  <2> QED BY <2>1, <2>2, <2>3
<1> QED BY <1>1, SpentAlways, TypeCorrect, PTL

(* Forward secrecy (Security.md 102): a key that sealed or opened an        *)
(* envelope is not reconstructible from the later state of that device.     *)
THEOREM KeysAreForgotten == OneStarter => (Spec => []ForwardSecrecy)
<1>1. TypeOK /\ Spent => ForwardSecrecy
  <2> SUFFICES ASSUME TypeOK, Spent, NEW d \in Device, NEW m \in network,
                      m.from = d \/ m \in seen[d], Derivable(session[d], m.key)
               PROVE  FALSE
    BY DEF ForwardSecrecy
  <2> DEFINE s == session[d]
             g == generated[d]
             r == m.key.root
  <2>1. Fit(d, s, g, seen[d]) /\ g \in Nat /\ s \in Session /\ r \in Root
        /\ s.root \in Root /\ m.key.pos \in Nat
    BY SessionFields, EnvelopeFields DEF Spent, Sessions, TypeOK, ChainKey
  <2>2. s.myKey = <<d, g>> /\ s.myKey \in Own(d) /\ s.theirKey \in Own(Peer(d))
    BY <2>1, OwnFacts DEF Fit
  <2>3. /\ s.sendChain # NoChain =>
             s.sendChain.root = s.root /\ Ends(s.root, s.myKey, s.theirKey)
        /\ s.recvChain # NoChain => Old(d, g, s.recvChain.root)
        /\ \A i \in DOMAIN s.skipped : s.skipped[i] \in Cache(s)
        /\ \A e \in Cache(s) : Old(d, g, e.key.root)
    BY <2>1 DEF Fit, Passed, Cache
  <2>4. \/ s.sendChain # NoChain /\ s.sendChain.root = r /\ s.sendChain.pos <= m.key.pos
        \/ s.recvChain # NoChain /\ OnChain(s.recvChain, m.key) /\ s.recvChain.root = r
        \/ \E e \in Cache(s) : e.key = m.key
        \/ Len(r) > Len(s.root) /\ s.myKey \in r[Len(r)]
    <3>1. CASE OnChain(s.sendChain, m.key)
      BY <3>1 DEF OnChain
    <3>2. CASE OnChain(s.recvChain, m.key)
      BY <3>2 DEF OnChain
    <3>3. CASE \E i \in DOMAIN s.skipped : s.skipped[i].key = m.key
      BY <2>3, <3>3
    <3>4. CASE /\ Len(r) > Len(s.root)
               /\ \A j \in (Len(s.root) + 1)..Len(r) : s.myKey \in r[j]
      <4>1. Len(r) \in Nat /\ Len(s.root) \in Nat
        BY <2>1 DEF Root
      <4>2. Len(r) \in (Len(s.root) + 1)..Len(r)
        BY <3>4, <4>1
      <4> QED BY <3>4, <4>2
    <3> QED BY <3>1, <3>2, <3>3, <3>4 DEF Derivable
  <2>5. CASE m.from = d
    <3>1. m \in From(d)
      BY <2>5 DEF From
    <3>2. m.ratchetKey \in Own(d) /\ \E l \in Own(Peer(d)) : Ends(r, m.ratchetKey, l)
      <4>1. Upto(d, g) \subseteq Own(d) /\ Upto(Peer(d), generated[Peer(d)]) \subseteq Own(Peer(d))
        BY PeerFacts, OwnFacts DEF TypeOK
      <4> QED BY <3>1, <4>1 DEF Spent, Signed
    <3>3. m.ratchetKey = s.myKey => r = s.root /\ m.key.pos < s.sendChain.pos /\ s.sendChain # NoChain
      BY <2>1, <3>1 DEF Fit
    <3>4. ~Old(d, g, r)
      BY <3>1 DEF Old
    <3>5. CASE s.sendChain # NoChain /\ s.sendChain.root = r /\ s.sendChain.pos <= m.key.pos
      <4>1. m.ratchetKey = s.myKey
        <5> HIDE DEF s, r
        <5> QED BY <2>2, <2>3, <3>2, <3>5, EndsParts
      <4>2. s.sendChain.pos \in Nat
        BY <2>1, <3>5, SessionFields DEF ChainKey
      <4> QED BY <2>1, <3>3, <3>5, <4>1, <4>2
    <3>6. CASE Len(r) > Len(s.root) /\ s.myKey \in r[Len(r)]
      <4>1. m.ratchetKey = s.myKey
        <5> HIDE DEF s, r
        <5> QED BY <2>2, <3>2, <3>6, EndsParts
      <4> QED BY <2>1, <3>3, <3>6, <4>1 DEF Root
    <3> QED BY <2>3, <2>4, <3>4, <3>5, <3>6
  <2>6. CASE m \in seen[d]
    <3>1. Old(d, g, r) /\ ~OnChain(s.recvChain, m.key) /\ \A e \in Cache(s) : e.key # m.key
      BY <2>1, <2>6 DEF Fit, Passed
    <3>2. ~Ends(r, s.myKey, s.theirKey) /\ s.myKey \notin r[Len(r)]
      <4> HIDE DEF s, r, g
      <4> QED BY <2>1, <2>2, <3>1, OldIsOld
    <3> QED BY <2>3, <2>4, <3>1, <3>2
  <2> QED BY <2>5, <2>6
<1> QED BY <1>1, SpentAlways, TypeCorrect, PTL
----------------------------------------------------------------------------
(* Healing, whoever starts the session.                                     *)

(* A device that has opened an envelope has rolled its key pair over, and   *)
(* its sending chain is begun with the pair that it holds.                  *)
RolledOver(d, s, g) ==
  /\ s.myKey = <<d, g>> /\ s.theirKey \in Own(Peer(d))
  /\ s.recvChain = NoChain <=> g = 0
  /\ g = 0 => Cache(s) = {}
  /\ s.sendChain # NoChain => Ends(s.sendChain.root, s.myKey, s.theirKey)

Rolled ==
  /\ \A d \in Device : /\ RolledOver(d, session[d], generated[d])
                       /\ seen[d] # {} => generated[d] > 0
  /\ \A m \in network : m.ratchetKey \in Own(m.from)

(* skipForward leaves the sending half alone.                               *)
LEMMA SkipForwardRolled ==
  ASSUME NEW s \in Session, NEW n \in Nat, NEW t, t = SkipForward(s, n)
  PROVE  /\ t \in Session /\ t.myKey = s.myKey /\ t.theirKey = s.theirKey
         /\ t.sendChain = s.sendChain
         /\ t.recvChain = NoChain <=> s.recvChain = NoChain
         /\ s.recvChain # NoChain => t.recvChain \in ChainKey
<1>1. t \in Session
  BY SkipForwardType
<1>2. CASE s.recvChain = NoChain \/ n <= s.recvN
  <2>1. t = s
    BY <1>2 DEF SkipForward
  <2> QED BY <2>1, SessionFields
<1>3. CASE s.recvChain # NoChain /\ s.recvN < n
  <2>1. PICK new \in Seq(SkippedKey) :
          t = [s EXCEPT !.skipped   = s.skipped \o new,
                        !.recvChain = StepChain(s.recvChain, n - s.recvN),
                        !.recvN     = n]
    BY <1>3, SkipForwardOpens
  <2>2. s.recvChain \in ChainKey /\ n - s.recvN \in Nat
    BY <1>3, SessionFields
  <2>3. StepChain(s.recvChain, n - s.recvN) \in ChainKey
    BY <2>2, StepChainType
  <2>4. /\ t.myKey = s.myKey /\ t.theirKey = s.theirKey /\ t.sendChain = s.sendChain
        /\ t.recvChain \in ChainKey
    BY <2>1, <2>3 DEF Session
  <2> QED BY <1>1, <1>3, <2>4, NoChainIsNoKey
<1> QED BY <1>2, <1>3, SessionFields

(* So does the tail of ratchetDecrypt.                                      *)
LEMMA ReceiveOnRolled ==
  ASSUME TypeOK, NEW d \in Device, NEW m \in network, NEW s \in Session,
         s.recvChain # NoChain, ReceiveOn(d, m, s)
  PROVE  \E t : Handled(d, m, s, t) /\ t.sendChain = s.sendChain
<1>1. m.num \in Nat
  BY EnvelopeFields
<1>2. ASSUME NEW u \in Session
      PROVE  /\ Capped(u).myKey = u.myKey /\ Capped(u).theirKey = u.theirKey
             /\ Capped(u).sendChain = u.sendChain /\ Capped(u).recvChain = u.recvChain
  BY DEF Capped, Session
<1>3. CASE m.num < s.recvN \/ Refuses(s, m.num)
  <2>1. Throw(d, m, Capped(s))
    BY <1>3 DEF ReceiveOn
  <2> QED BY <1>2, <2>1 DEF Throw, Handled
<1>4. CASE ~(m.num < s.recvN \/ Refuses(s, m.num))
  <2> PICK t : t = SkipForward(s, m.num)
    OBVIOUS
  <2> PICK u : u = TakeNext(t)
    OBVIOUS
  <2>1. Unseal(d, m, Capped(u), t.recvChain)
    BY <1>4 DEF ReceiveOn
  <2>2. /\ t \in Session /\ t.myKey = s.myKey /\ t.theirKey = s.theirKey
        /\ t.sendChain = s.sendChain /\ t.recvChain \in ChainKey
    BY <1>1, SkipForwardRolled
  <2>3. t.recvN + 1 \in Nat /\ 1 \in Nat /\ StepChain(t.recvChain, 1) \in ChainKey
    <3>1. t.recvN \in Nat /\ 1 \in Nat
      BY <2>2, SessionFields
    <3> QED BY <2>2, <3>1, StepChainType, SMTT(20)
  <2>4. u = [t EXCEPT !.recvChain = StepChain(t.recvChain, 1), !.recvN = t.recvN + 1]
    BY DEF TakeNext
  <2>5. /\ u \in Session /\ u.myKey = t.myKey /\ u.theirKey = t.theirKey
        /\ u.sendChain = t.sendChain /\ u.recvChain \in ChainKey
    BY <2>2, <2>3, <2>4 DEF Session
  <2>6. /\ Capped(u).myKey = s.myKey /\ Capped(u).theirKey = s.theirKey
        /\ Capped(u).sendChain = s.sendChain /\ Capped(u).recvChain # NoChain
    BY <1>2, <2>2, <2>5, NoChainIsNoKey
  <2> QED BY <2>1, <2>6 DEF Unseal, Handled
<1> QED BY <1>3, <1>4

(* Handling an envelope leaves a session that has rolled its key pair over. *)
LEMMA HandledRolled ==
  ASSUME TypeOK, Rolled, NEW d \in Device, NEW m \in network, NEW s, NEW t, NEW g \in Nat,
         Handled(d, m, s, t), t.sendChain = s.sendChain, RolledOver(d, s, g),
         s.recvChain # NoChain,
         network' = network, generated' = [generated EXCEPT ![d] = g]
  PROVE  Rolled'
<1>1. /\ session \in [Device -> Session] /\ generated \in [Device -> Nat]
      /\ seen \in [Device -> SUBSET network]
  BY DEF TypeOK
<1>2. RolledOver(d, t, g)
  BY DEF RolledOver, Handled
<1>3. /\ session'[d] = t /\ generated'[d] = g
      /\ \A e \in Device : e # d => /\ session'[e] = session[e]
                                    /\ generated'[e] = generated[e] /\ seen'[e] = seen[e]
  BY <1>1 DEF Handled
<1>4. seen'[d] # {} => g > 0
  BY <1>3 DEF RolledOver, Rolled
<1>5. ASSUME NEW e \in Device
      PROVE  RolledOver(e, session'[e], generated'[e]) /\ (seen'[e] # {} => generated'[e] > 0)
  BY <1>2, <1>3, <1>4 DEF Rolled
<1> QED BY <1>5 DEF Rolled, RolledOver, Own, Ends, Cache

(* The session heals after one round trip (ratchet.ts:24-28): once a device *)
(* has opened an envelope of its peer, what it sends is keyed by a DH       *)
(* result in which its own half is fresh, never its identity key; also when *)
(* both devices start the session.                                          *)
THEOREM SessionHeals == Spec => []Healed
<1>1. Init => Rolled
  <2> SUFFICES ASSUME Init PROVE Rolled
    OBVIOUS
  <2>1. ASSUME NEW d \in Device
        PROVE  RolledOver(d, session[d], generated[d]) /\ seen[d] = {}
    <3> DEFINE s == InitSession(d)
    <3>1. session[d] = s /\ generated[d] = 0 /\ seen[d] = {} /\ Peer(d) \in Device
      BY PeerFacts DEF Init
    <3>2. /\ s.myKey = Identity(d) /\ s.theirKey = Identity(Peer(d))
          /\ s.sendChain = NoChain /\ s.recvChain = NoChain /\ s.skipped = <<>>
      BY DEF InitSession
    <3> HIDE DEF s
    <3>3. Cache(s) = {}
      BY <3>2 DEF Cache
    <3> QED BY <3>1, <3>2, <3>3 DEF RolledOver, Identity, Own
  <2>2. network = {}
    BY DEF Init
  <2> QED BY <2>1, <2>2 DEF Rolled
<1>2. TypeOK /\ Rolled /\ [Next]_vars => Rolled'
  <2> SUFFICES ASSUME TypeOK, Rolled, [Next]_vars PROVE Rolled'
    OBVIOUS
  <2>1. CASE UNCHANGED vars
    BY <2>1 DEF vars, Rolled, RolledOver, Cache
  <2>2. ASSUME NEW d \in Device
        PROVE  /\ RolledOver(d, session[d], generated[d]) /\ generated[d] \in Nat
               /\ generated \in [Device -> Nat] /\ session \in [Device -> Session]
               /\ generated = [generated EXCEPT ![d] = generated[d]]
               /\ session[d] \in Session
    BY DEF Rolled, TypeOK
  <2>3. ASSUME NEW d \in Device, Send(d)
        PROVE  Rolled'
    <3> DEFINE o == session[d]
               s == OpenSendChain(o)
               m == [from |-> d, id |-> sent[d], ratchetKey |-> s.myKey,
                     num |-> s.sendN, prev |-> s.prevLen, key |-> s.sendChain]
    <3> PICK t : t = [s EXCEPT !.sendChain = StepChain(@, 1), !.sendN = @ + 1]
      OBVIOUS
    <3>1. /\ network' = network \cup {m} /\ session' = [session EXCEPT ![d] = t]
          /\ generated' = generated /\ seen' = seen
      BY <2>3 DEF Send
    <3>2. s \in Session /\ s.sendChain \in ChainKey /\ s.skipped = o.skipped
      BY <2>2, OpenSendChainType
    <3>3. /\ s.myKey = o.myKey /\ s.theirKey = o.theirKey /\ s.recvChain = o.recvChain
          /\ Ends(s.sendChain.root, o.myKey, o.theirKey)
      <4>1. CASE o.sendChain # NoChain
        BY <2>2, <4>1 DEF OpenSendChain, RolledOver
      <4>2. CASE o.sendChain = NoChain
        <5> PICK root : root = DhRatchetStep(o.root, o.myKey, o.theirKey)
          OBVIOUS
        <5>1. s = [o EXCEPT !.root = root, !.sendChain = ChainFrom(root),
                            !.prevLen = o.sendN, !.sendN = 0]
          BY <4>2 DEF OpenSendChain
        <5>2. /\ s.myKey = o.myKey /\ s.theirKey = o.theirKey
              /\ s.recvChain = o.recvChain /\ s.sendChain = ChainFrom(root)
          <6> HIDE DEF s, o
          <6> QED BY <2>2, <5>1 DEF Session, o
        <5>3. Ends(root, o.myKey, o.theirKey)
          <6>1. o.root \in Root /\ o.myKey \in KeyPair /\ o.theirKey \in KeyPair
            BY <2>2, SessionFields
          <6> QED BY <6>1, StepEnds
        <5> QED BY <5>2, <5>3 DEF ChainFrom
      <4> QED BY <4>1, <4>2
    <3> HIDE DEF s
    <3>4. /\ t.myKey = s.myKey /\ t.theirKey = s.theirKey /\ t.recvChain = s.recvChain
          /\ t.skipped = s.skipped /\ t.sendChain = StepChain(s.sendChain, 1)
          /\ t.sendChain.root = s.sendChain.root
      <4>1. 1 \in Nat
        OBVIOUS
      <4>2. StepChain(s.sendChain, 1).root = s.sendChain.root
        BY <3>2, <4>1, StepChainType
      <4> QED BY <3>2, <4>2 DEF Session
    <3>5. Cache(t) = Cache(o)
      BY <3>2, <3>4 DEF Cache
    <3>6. RolledOver(d, t, generated[d])
      BY <2>2, <3>3, <3>4, <3>5 DEF RolledOver
    <3>7. m.ratchetKey \in Own(m.from)
      <4>1. o.myKey \in Own(d)
        BY <2>2 DEF RolledOver, Own
      <4> QED BY <3>3, <4>1
    <3>8. \A n \in network' : n.ratchetKey \in Own(n.from)
      <4> HIDE DEF m
      <4> QED BY <3>1, <3>7 DEF Rolled
    <3>9. ASSUME NEW e \in Device
          PROVE  RolledOver(e, session'[e], generated'[e]) /\ (seen'[e] # {} => generated'[e] > 0)
      BY <2>2, <3>1, <3>6 DEF Rolled
    <3> QED BY <3>8, <3>9 DEF Rolled, RolledOver, Own, Ends, Cache
  <2>4. ASSUME NEW d \in Device, NEW m \in network, ReceiveSkipped(d, m)
        PROVE  Rolled'
    <3> DEFINE s == session[d]
    <3>1. PICK i \in DOMAIN s.skipped :
            Unseal(d, m, [s EXCEPT !.skipped = RemoveIndex(@, i)], s.skipped[i].key)
      BY <2>4 DEF ReceiveSkipped, CachedAt
    <3> PICK t : t = [s EXCEPT !.skipped = RemoveIndex(@, i)]
      OBVIOUS
    <3>2. /\ t.myKey = s.myKey /\ t.theirKey = s.theirKey /\ t.recvChain = s.recvChain
          /\ t.sendChain = s.sendChain
      BY <2>2 DEF Session
    <3>3. s.recvChain # NoChain
      <4>1. s.skipped[i] \in Cache(s)
        BY <3>1 DEF Cache
      <4>2. RolledOver(d, s, generated[d])
        BY <2>2 DEF Rolled
      <4> QED BY <4>1, <4>2, Zenon DEF RolledOver
    <3>4. Handled(d, m, s, t)
      BY <3>1, <3>2 DEF Unseal, Handled
    <3>5. network' = network /\ generated' = [generated EXCEPT ![d] = generated[d]]
      BY <2>2, <2>4 DEF ReceiveSkipped
    <3>6. t.sendChain = s.sendChain /\ RolledOver(d, s, generated[d]) /\ generated[d] \in Nat
      BY <2>2, <3>2
    <3> HIDE DEF s
    <3> QED BY <3>3, <3>4, <3>5, <3>6, HandledRolled
  <2>5. ASSUME NEW d \in Device, NEW m \in network, ReceiveCurrent(d, m)
        PROVE  Rolled'
    <3>1. /\ ReceiveOn(d, m, session[d]) /\ session[d].recvChain # NoChain
          /\ network' = network /\ generated' = generated
      BY <2>5 DEF ReceiveCurrent, OnCurrentChain
    <3>2. PICK t : Handled(d, m, session[d], t) /\ t.sendChain = session[d].sendChain
      BY <2>2, <3>1, ReceiveOnRolled
    <3> QED BY <2>2, <3>1, <3>2, HandledRolled
  <2>6. ASSUME NEW d \in Device, NEW m \in network, ReceiveTurn(d, m)
        PROVE  Rolled'
    <3> DEFINE s == session[d]
               g == generated[d]
    <3>1. network' = network /\ m.from = Peer(d) /\ m.prev \in Nat
      BY <2>6, EnvelopeFields DEF ReceiveTurn, Arrives
    <3>2. CASE Refuses(s, m.prev)
      <4>1. generated' = generated /\ Handled(d, m, s, s)
        BY <2>6, <3>2 DEF ReceiveTurn, Throw, Handled
      <4>2. s.recvChain # NoChain
        BY <3>2 DEF Refuses
      <4> QED BY <2>2, <3>1, <4>1, <4>2, HandledRolled
    <3>3. CASE ~Refuses(s, m.prev)
      <4> PICK old : old = SkipForward(s, m.prev)
        OBVIOUS
      <4> PICK fresh : fresh = <<d, g + 1>>
        OBVIOUS
      <4> PICK u : u = OpenRecvChain(old, m.ratchetKey, fresh)
        OBVIOUS
      <4>1. generated' = [generated EXCEPT ![d] = g + 1] /\ generated'[d] = g + 1 /\ g + 1 \in Nat
        BY <2>2, <2>6, <3>3 DEF ReceiveTurn
      <4>2. ReceiveOn(d, m, u)
        BY <2>6, <3>3, <4>1 DEF ReceiveTurn
      <4>3. old \in Session /\ m.ratchetKey \in KeyPair /\ fresh \in KeyPair
        BY <2>2, <3>1, <4>1, SkipForwardRolled, EnvelopeFields DEF KeyPair
      <4>4. u \in Session
        BY <4>3, OpenRecvChainType
      <4>5. /\ u.myKey = fresh /\ u.theirKey = m.ratchetKey /\ u.sendChain = NoChain
            /\ u.recvChain = ChainFrom(DhRatchetStep(old.root, old.myKey, m.ratchetKey))
        BY DEF OpenRecvChain
      <4>6. u.recvChain # NoChain
        <5>1. DhRatchetStep(old.root, old.myKey, m.ratchetKey) \in Root
          BY <4>3, SessionFields, DhRatchetStepType
        <5> QED BY <4>5, <5>1, NoChainIsNoKey DEF ChainFrom, ChainKey
      <4>7. RolledOver(d, u, g + 1)
        <5>1. m.ratchetKey \in Own(Peer(d))
          BY <3>1 DEF Rolled
        <5> QED BY <2>2, <4>5, <4>6, <5>1 DEF RolledOver
      <4>8. PICK t : Handled(d, m, u, t) /\ t.sendChain = u.sendChain
        BY <4>2, <4>4, <4>6, ReceiveOnRolled
      <4> QED BY <3>1, <4>1, <4>6, <4>7, <4>8, HandledRolled
    <3> QED BY <3>2, <3>3
  <2> QED BY <2>1, <2>3, <2>4, <2>5, <2>6 DEF Next
<1>3. TypeOK /\ Rolled => Healed
  <2> SUFFICES ASSUME TypeOK, Rolled, NEW d \in Device, seen[d] # {}
               PROVE  /\ session[d].myKey # Identity(d)
                      /\ session[d].sendChain # NoChain =>
                           LET r == session[d].sendChain.root
                           IN  Identity(d) \notin r[Len(r)]
    BY DEF Healed
  <2>1. generated[d] > 0 /\ RolledOver(d, session[d], generated[d]) /\ generated[d] \in Nat
    BY DEF Rolled, TypeOK
  <2>2. session[d].myKey # Identity(d) /\ session[d].myKey \in Own(d) /\ Identity(d) \in Own(d)
    BY <2>1 DEF RolledOver, Identity, Own
  <2>3. session[d].sendChain # NoChain =>
          Ends(session[d].sendChain.root, session[d].myKey, session[d].theirKey)
    BY <2>1 DEF RolledOver
  <2>4. session[d].theirKey \in Own(Peer(d))
    BY <2>1 DEF RolledOver
  <2> QED BY <2>2, <2>3, <2>4, EndsParts
<1> QED BY <1>1, <1>2, <1>3, TypeCorrect, PTL DEF Spec

-----------------------------------------------------------------------------
(* SessionTasks: with one task at a time and no cap hit, the awaits between *)
(* the steps of a task do not matter.                                       *)

CONSTANTS Slots, MaxCrashes
VARIABLES mem, task, wire, crashes

Tasks == INSTANCE SessionTasks WITH disk <- session, opened <- seen

(* A device runs one task at a time, and no header position was given up.   *)
OneSlot == \E k : Slots = {k}
NothingLost == \A d \in Device : lost[d] = {}

(* What the session of d becomes on the way to its next save, when it sends *)
Open(d) == OpenSendChain(session[d])
Sealed(s) == [s EXCEPT !.sendChain = StepChain(@, 1), !.sendN = @ + 1]
Header(s) == [ratchetKey |-> s.myKey, num |-> s.sendN, prev |-> s.prevLen, key |-> s.sendChain]
(* and when m turns the ratchet.                                            *)
Drain(d, m) == SkipForward(session[d], m.prev)
OnTurn(d, m, key) == OpenRecvChain(Drain(d, m), m.ratchetKey, key)
NextKey(d) == <<d, session[d].myKey[2] + 1>>

(* No key pair was generated since the last save.                           *)
OldKey(d) == generated[d] = session[d].myKey[2]

(* d has received something, or need not have, and has envelopes left.      *)
MaySend(d) == sent[d] < MaxMessages /\ (d \in Starters \/ session[d].recvChain # NoChain)

(* Where a task that sends stands.                                          *)
SendsAt(d, t) ==
  /\ t.pc \in {"theirs", "dh", "step", "header", "persist"} => OldKey(d) /\ MaySend(d)
  /\ t.pc \in {"theirs", "dh"} => mem[d] = session[d] /\ session[d].sendChain = NoChain
  /\ t.pc = "theirs" => t.theirs = session[d].theirKey
  /\ t.pc = "dh" => t.root = DhRatchetStep(session[d].root, session[d].myKey, session[d].theirKey)
  /\ t.pc \in {"step", "header"} => mem[d] = Open(d) /\ t.chain = Open(d).sendChain
  /\ t.pc = "header" => t.myKey = Open(d).myKey
  /\ t.pc = "persist" => mem[d] = Sealed(Open(d)) /\ t.header = Header(Open(d))
  /\ t.pc = "deliver" => t.m \in network /\ t.m.from = d /\ t.m \notin wire \cup seen[Peer(d)]

(* The envelope m may turn the ratchet of d, or be read on the session s.   *)
Turning(d, m) ==
  /\ CachedAt(d, m) = {} /\ ~OnCurrentChain(d, m)
  /\ session[d].myKey[2] < MaxMessages /\ ~Refuses(session[d], m.prev)
ReadOn(d, m, s) ==
  \/ CachedAt(d, m) = {} /\ OnCurrentChain(d, m) /\ s = session[d] /\ OldKey(d)
  \/ Turning(d, m) /\ s = OnTurn(d, m, NextKey(d)) /\ generated[d] = session[d].myKey[2] + 1

(* What is to be saved, and the key found, once m has been read.            *)
Cached(d, m, s, key) ==
  /\ OldKey(d)
  /\ \E i \in CachedAt(d, m) :
       /\ \A j \in CachedAt(d, m) : i <= j
       /\ s = [session[d] EXCEPT !.skipped = RemoveIndex(@, i)]
       /\ key = session[d].skipped[i].key
Followed(d, m, s, key) ==
  \E u \in {session[d], OnTurn(d, m, NextKey(d))} :
    /\ ReadOn(d, m, u) /\ m.num >= u.recvN /\ ~Refuses(u, m.num)
    /\ Evicted(SkipForward(u, m.num).skipped) = {}
    /\ s = TakeNext(SkipForward(u, m.num)) /\ key = SkipForward(u, m.num).recvChain

(* Where a task that receives stands.                                       *)
ReceivesAt(d, t) ==
  /\ t.pc \in {"turn", "mixed", "tail", "save"} =>
       t.m \in network /\ Arrives(d, t.m) /\ t.m \notin wire
  /\ t.pc \in {"turn", "mixed"} => OldKey(d) /\ Turning(d, t.m)
  /\ t.pc = "turn" => mem[d] = Drain(d, t.m)
  /\ t.pc = "mixed" =>
       /\ t \in [pc : {"mixed"}, m : network, new : BOOLEAN,
                 root : {DhRatchetStep(Drain(d, t.m).root, session[d].myKey, t.m.ratchetKey)}]
       /\ mem[d] = IF t.new THEN OnTurn(d, t.m, session[d].myKey) ELSE Drain(d, t.m)
  /\ t.pc = "tail" => ReadOn(d, t.m, mem[d])
  /\ t.pc = "save" => Cached(d, t.m, mem[d], t.key) \/ Followed(d, t.m, mem[d], t.key)

Stands(d, t) ==
  /\ t.pc \in {"idle", "deliver"} => mem[d] = session[d] /\ OldKey(d)
  /\ t.pc \in {"idle", "theirs", "dh", "step", "header", "persist", "deliver", "turn", "mixed",
               "tail", "save"}
  /\ SendsAt(d, t) /\ ReceivesAt(d, t)

(* Every envelope is in one place.                                          *)
Apart ==
  /\ wire \subseteq network /\ \A d \in Device : seen[d] \subseteq network
  /\ \A m \in network : m \in Envelope /\ m.id < sent[m.from]
  /\ \A m \in wire : m \notin seen[Peer(m.from)]
  /\ \A d \in Device : \A j, k \in Slots :
       task[d][j].pc = "deliver" /\ task[Peer(d)][k].pc \in {"turn", "mixed", "tail", "save"} =>
         task[d][j].m # task[Peer(d)][k].m

(* Types, and that a saved session has a cache within the cap and its own key. *)
TaskTypes ==
  /\ mem \in [Device -> Session] /\ session \in [Device -> Session]
  /\ generated \in [Device -> Nat] /\ sent \in [Device -> Nat]
  /\ \A d \in Device : Len(session[d].skipped) <= MaxSkippedKeys /\ session[d].myKey[1] = d
  /\ seen = [d \in Device |-> seen[d]] /\ failed = [d \in Device |-> failed[d]]
  /\ lost = [d \in Device |-> lost[d]]
  /\ task = [d \in Device |-> [k \in Slots |-> task[d][k]]]

Settled == TaskTypes /\ Apart /\ \A d \in Device : \A k \in Slots : Stands(d, task[d][k])

(* SessionTasks uses the helpers of Ratchet.                                *)
LEMMA SameHelpers ==
  /\ Tasks!Device = Device /\ Tasks!R!Device = Device
  /\ \A d : Tasks!R!Peer(d) = Peer(d) /\ Tasks!R!InitSession(d) = InitSession(d)
  /\ \A r, k, l : Tasks!R!DhRatchetStep(r, k, l) = DhRatchetStep(r, k, l)
  /\ \A r : Tasks!R!ChainFrom(r) = ChainFrom(r)
  /\ \A c, n : Tasks!R!StepChain(c, n) = StepChain(c, n)
  /\ \A q : Tasks!R!Evicted(q) = Evicted(q)
  /\ \A q, i : Tasks!R!RemoveIndex(q, i) = RemoveIndex(q, i)
  /\ \A s : /\ Tasks!R!OpenSendChain(s) = OpenSendChain(s)
            /\ Tasks!R!Capped(s) = Capped(s) /\ Tasks!R!TakeNext(s) = TakeNext(s)
  /\ \A s, n : /\ Tasks!R!Refuses(s, n) = Refuses(s, n)
               /\ Tasks!R!SkipForward(s, n) = SkipForward(s, n)
  /\ \A s, m, k : Tasks!R!OpenRecvChain(s, m, k) = OpenRecvChain(s, m, k)
<1>1. Tasks!Device = Device /\ Tasks!R!Device = Device
  BY DEF Tasks!Device, Tasks!R!Device, Device
<1>2. \A d : Tasks!R!Peer(d) = Peer(d)
  BY DEF Tasks!R!Peer, Peer
<1>3. \A d : Tasks!R!InitSession(d) = InitSession(d)
  BY DEF Tasks!R!InitSession, Tasks!R!Identity, Tasks!R!Peer, InitSession, Identity, Peer
<1>4. \A r, k, l : Tasks!R!DhRatchetStep(r, k, l) = DhRatchetStep(r, k, l)
  BY DEF Tasks!R!DhRatchetStep, Tasks!R!DH, DhRatchetStep, DH
<1>5. \A r : Tasks!R!ChainFrom(r) = ChainFrom(r)
  BY DEF Tasks!R!ChainFrom, ChainFrom
<1>6. \A c, n : Tasks!R!StepChain(c, n) = StepChain(c, n)
  BY DEF Tasks!R!StepChain, StepChain
<1>7. \A q : Tasks!R!Evicted(q) = Evicted(q)
  BY DEF Tasks!R!Evicted, Tasks!R!Overflow, Evicted, Overflow
<1>8. \A q, i : Tasks!R!RemoveIndex(q, i) = RemoveIndex(q, i)
  BY DEF Tasks!R!RemoveIndex, RemoveIndex
<1>9. \A s : Tasks!R!OpenSendChain(s) = OpenSendChain(s)
  BY DEF Tasks!R!OpenSendChain, Tasks!R!DhRatchetStep, Tasks!R!DH, Tasks!R!ChainFrom,
         OpenSendChain, DhRatchetStep, DH, ChainFrom
<1>10. \A s : Tasks!R!Capped(s) = Capped(s)
  BY DEF Tasks!R!Capped, Tasks!R!PushSkipped, Tasks!R!Overflow, Capped, PushSkipped, Overflow
<1>11. \A s : Tasks!R!TakeNext(s) = TakeNext(s)
  BY DEF Tasks!R!TakeNext, Tasks!R!StepChain, TakeNext, StepChain
<1>12. \A s, n : Tasks!R!Refuses(s, n) = Refuses(s, n)
  BY DEF Tasks!R!Refuses, Refuses
<1>13. \A s, n : Tasks!R!SkipForward(s, n) = SkipForward(s, n)
  BY DEF Tasks!R!SkipForward, Tasks!R!StepChain, SkipForward, StepChain
<1>14. \A s, m, k : Tasks!R!OpenRecvChain(s, m, k) = OpenRecvChain(s, m, k)
  BY DEF Tasks!R!OpenRecvChain, Tasks!R!DhRatchetStep, Tasks!R!DH, Tasks!R!ChainFrom,
         OpenRecvChain, DhRatchetStep, DH, ChainFrom
<1> QED BY <1>1, <1>2, <1>3, <1>4, <1>5, <1>6, <1>7, <1>8, <1>9, <1>10, <1>11, <1>12, <1>13, <1>14

(* Only the task in the slot of d becomes another.                          *)
LEMMA TaskPut ==
  ASSUME TaskTypes, NEW d \in Device, NEW k \in Slots, NEW t, Tasks!Become(d, k, t)
  PROVE  /\ task' = [e \in Device |-> [j \in Slots |-> task'[e][j]]]
         /\ task'[d][k] = t
         /\ \A e \in Device : \A j \in Slots : e # d \/ j # k => task'[e][j] = task[e][j]
<1>1. PICK f : f = task[d]
  OBVIOUS
<1>2. f = [j \in Slots |-> f[j]] /\ task = [e \in Device |-> task[e]]
  BY <1>1 DEF TaskTypes
<1>3. task' = [task EXCEPT ![d] = [f EXCEPT ![k] = t]]
  BY <1>1 DEF Tasks!Become
<1> QED BY <1>1, <1>2, <1>3 DEF TaskTypes

(* What an envelope means to a session depends on that session alone.       *)
LEMMA SameReading ==
  ASSUME NEW d \in Device, session'[d] = session[d], seen'[d] = seen[d]
  PROVE  /\ \A m : /\ CachedAt(d, m)' = CachedAt(d, m)
                   /\ (OnCurrentChain(d, m)' <=> OnCurrentChain(d, m))
                   /\ (Arrives(d, m)' <=> Arrives(d, m)) /\ (Turning(d, m)' <=> Turning(d, m))
                   /\ Drain(d, m)' = Drain(d, m) /\ \A key : OnTurn(d, m, key)' = OnTurn(d, m, key)
         /\ NextKey(d)' = NextKey(d)
         /\ generated'[d] = generated[d] =>
              /\ (OldKey(d)' <=> OldKey(d))
              /\ \A m, s : (ReadOn(d, m, s)' <=> ReadOn(d, m, s))
              /\ \A m, s, key : /\ (Cached(d, m, s, key)' <=> Cached(d, m, s, key))
                                /\ (Followed(d, m, s, key)' <=> Followed(d, m, s, key))
<1>1. \A m : /\ CachedAt(d, m)' = CachedAt(d, m) /\ (OnCurrentChain(d, m)' <=> OnCurrentChain(d, m))
             /\ (Arrives(d, m)' <=> Arrives(d, m)) /\ (Turning(d, m)' <=> Turning(d, m))
             /\ Drain(d, m)' = Drain(d, m) /\ \A key : OnTurn(d, m, key)' = OnTurn(d, m, key)
  BY DEF CachedAt, OnCurrentChain, Arrives, Turning, Drain, OnTurn
<1>2. NextKey(d)' = NextKey(d)
  BY DEF NextKey
<1>3. ASSUME generated'[d] = generated[d]
      PROVE  /\ (OldKey(d)' <=> OldKey(d))
             /\ \A m, s : (ReadOn(d, m, s)' <=> ReadOn(d, m, s))
             /\ \A m, s, key : /\ (Cached(d, m, s, key)' <=> Cached(d, m, s, key))
                               /\ (Followed(d, m, s, key)' <=> Followed(d, m, s, key))
  <2>1. OldKey(d)' <=> OldKey(d)
    BY <1>3 DEF OldKey
  <2>2. \A m, s : ReadOn(d, m, s)' <=> ReadOn(d, m, s)
    BY <1>1, <1>2, <1>3, <2>1 DEF ReadOn
  <2>3. \A m, s, key : Cached(d, m, s, key)' <=> Cached(d, m, s, key)
    BY <1>1, <2>1 DEF Cached
  <2>4. \A m, s, key : Followed(d, m, s, key)' <=> Followed(d, m, s, key)
    BY <1>1, <1>2, <2>2 DEF Followed
  <2> QED BY <2>1, <2>2, <2>3, <2>4
<1> QED BY <1>1, <1>2, <1>3

(* A device is not disturbed by what happens elsewhere.                     *)
LEMMA StandsStill ==
  ASSUME NEW d \in Device, NEW t, Stands(d, t),
         mem'[d] = mem[d], session'[d] = session[d], generated'[d] = generated[d],
         sent'[d] = sent[d], seen'[d] = seen[d], network \subseteq network',
         t.pc = "deliver" => t.m \notin wire' \cup seen'[Peer(d)],
         t.pc \in {"turn", "mixed", "tail", "save"} => t.m \notin wire'
  PROVE  Stands(d, t)'
<1>1. SendsAt(d, t)'
  BY DEF Stands, SendsAt, OldKey, MaySend, Open
<1>2. ReceivesAt(d, t)'
  BY SameReading DEF Stands, ReceivesAt
<1>3. OldKey(d)' <=> OldKey(d)
  BY SameReading
<1> QED BY <1>1, <1>2, <1>3 DEF Stands

(* The task has taken an envelope from the wire.                           *)
Reads == {"turn", "mixed", "tail", "save"}

(* A task of d takes a step; the others stand where they stood.             *)
LEMMA OthersStand ==
  ASSUME Settled, NEW d \in Device, NEW k, Slots = {k}, NEW t, Tasks!Become(d, k, t), Stands(d, t)',
         \A e \in Device \ {d} : /\ mem'[e] = mem[e] /\ session'[e] = session[e] /\ sent'[e] = sent[e]
                                 /\ generated'[e] = generated[e] /\ seen'[e] = seen[e]
                                 /\ task[e][k].pc = "deliver" => task[e][k].m \notin wire' \cup seen'[Peer(e)]
                                 /\ task[e][k].pc \in Reads => task[e][k].m \notin wire',
         network \subseteq network'
  PROVE  \A e \in Device : \A j \in Slots : Stands(e, task[e][j])'
<1> SUFFICES ASSUME NEW e \in Device PROVE Stands(e, task[e][k])'
  OBVIOUS
<1>1. task'[d][k] = t /\ \A f \in Device : f # d => task'[f][k] = task[f][k]
  BY TaskPut DEF Settled
<1>2. CASE e = d
  BY <1>1, <1>2 DEF Stands, SendsAt, ReceivesAt
<1>3. CASE e # d
  <2>1. PICK u : u = task[e][k]
    OBVIOUS
  <2>2. Stands(e, u)'
    BY <1>3, <2>1, StandsStill DEF Settled, Reads
  <2> QED BY <1>1, <1>3, <2>1, <2>2 DEF Stands, SendsAt, ReceivesAt
<1> QED BY <1>2, <1>3

(* A step of a task that neither saves the session nor hands over keeps     *)
(* the invariant.                                                           *)
LEMMA TaskStep ==
  ASSUME Settled, NEW d \in Device, NEW k, Slots = {k}, NEW t, Tasks!Become(d, k, t), Stands(d, t)',
         mem' \in [Device -> Session], generated' \in [Device -> Nat],
         \A e \in Device \ {d} : mem'[e] = mem[e] /\ generated'[e] = generated[e],
         UNCHANGED <<session, sent, network, seen>>, wire' \subseteq wire,
         failed' = [e \in Device |-> failed'[e]], lost' = [e \in Device |-> lost'[e]],
         t.pc # "deliver",
         t.pc \in Reads => t.m \in wire \/ (task[d][k].pc \in Reads /\ t.m = task[d][k].m)
  PROVE  Settled'
<1>1. TaskTypes /\ Apart /\ \A e \in Device : Stands(e, task[e][k])
  BY DEF Settled
<1>2. /\ task' = [e \in Device |-> [j \in Slots |-> task'[e][j]]]
      /\ task'[d][k] = t /\ \A e \in Device : e # d => task'[e][k] = task[e][k]
  <2>1. k \in Slots
    OBVIOUS
  <2>2. /\ task' = [e \in Device |-> [j \in Slots |-> task'[e][j]]]
        /\ task'[d][k] = t
        /\ \A e \in Device : \A j \in Slots : e # d \/ j # k => task'[e][j] = task[e][j]
    BY <1>1, <2>1, TaskPut, Zenon
  <2> QED BY <2>1, <2>2
<1>3. TaskTypes'
  BY <1>1, <1>2 DEF TaskTypes
<1>4. \A e \in Device : task[e][k].pc = "deliver" => task[e][k].m \notin wire \cup seen[Peer(e)]
  BY <1>1 DEF Stands, SendsAt
<1>5. \A e \in Device : task[e][k].pc \in Reads => task[e][k].m \notin wire
  BY <1>1 DEF Stands, ReceivesAt, Reads
<1>6. ASSUME NEW e \in Device, task'[e][k].pc = "deliver", task'[Peer(e)][k].pc \in Reads
      PROVE  task'[e][k].m # task'[Peer(e)][k].m
  <2>1. e # d /\ task'[e][k] = task[e][k] /\ Peer(e) = d
    BY <1>2, <1>6, PeerFacts DEF Device
  <2> QED BY <1>1, <1>2, <1>4, <1>6, <2>1 DEF Apart, Reads
<1>7. Apart'
  BY <1>1, <1>6 DEF Apart, Reads
<1>8. \A e \in Device : \A j \in Slots : Stands(e, task[e][j])'
  BY <1>4, <1>5, OthersStand
<1> QED BY <1>3, <1>7, <1>8 DEF Settled

(* What Ratchet sees stays as it is.                                        *)
LEMMA Stutters ==
  ASSUME UNCHANGED <<session, sent, network, seen, failed, lost>>
  PROVE  UNCHANGED Tasks!R!vars
BY DEF Tasks!R!vars

(* The cardinality of the instance is that of FiniteSets.                   *)
LEMMA SameCardinality == \A S : Tasks!Cardinality(S) = Cardinality(S)
BY DEF Tasks!Cardinality, Cardinality

(* The chain steps once for each envelope.                                  *)
LEMMA SealedType ==
  ASSUME NEW d \in Device, session[d] \in Session
  PROVE  /\ Sealed(Open(d)) \in Session
         /\ Sealed(Open(d)).myKey = session[d].myKey /\ Sealed(Open(d)).skipped = session[d].skipped
<1>1. /\ Open(d) \in Session /\ Open(d).sendChain \in ChainKey
      /\ Open(d).skipped = session[d].skipped /\ Open(d).myKey = session[d].myKey
  <2>1. Open(d) \in Session /\ Open(d).sendChain \in ChainKey /\ Open(d).skipped = session[d].skipped
    BY OpenSendChainType DEF Open
  <2>2. Open(d).myKey = session[d].myKey
    BY DEF Open, OpenSendChain, Session
  <2> QED BY <2>1, <2>2
<1>2. StepChain(Open(d).sendChain, 1) \in ChainKey /\ Open(d).sendN + 1 \in Nat
  <2>1. PICK s \in Session : s = Open(d)
    BY <1>1
  <2>2. StepChain(s.sendChain, 1) \in ChainKey
    BY <1>1, <2>1, StepChainType
  <2>3. s.sendN + 1 \in Nat
    BY SessionFields
  <2> QED BY <2>1, <2>2, <2>3
<1> QED BY <1>1, <1>2 DEF Sealed, Session

(* A task that sends begins, and goes on up to the saving.                  *)
LEMMA EncryptSteps ==
  ASSUME Settled, NEW d \in Device, NEW k, Slots = {k},
         \/ Tasks!EncryptBegin(d, k) \/ Tasks!EncryptDH(d, k) \/ Tasks!EncryptOpen(d, k)
         \/ Tasks!EncryptHeader(d, k) \/ Tasks!EncryptEnd(d, k)
  PROVE  Settled' /\ UNCHANGED Tasks!R!vars
<1>1. /\ UNCHANGED <<session, sent, network, seen, failed, lost, wire, generated>>
      /\ UNCHANGED Tasks!R!vars
  BY Stutters DEF Tasks!EncryptBegin, Tasks!EncryptDH, Tasks!EncryptOpen, Tasks!EncryptHeader,
                  Tasks!EncryptEnd
<1>2. TaskTypes /\ Stands(d, task[d][k]) /\ session[d] \in Session /\ mem[d] \in Session
  BY DEF Settled, TaskTypes
<1>3. ASSUME NEW t, Tasks!Become(d, k, t), Stands(d, t)', t.pc \notin Reads \cup {"deliver"},
             mem' = mem \/ \E s \in Session : mem' = [mem EXCEPT ![d] = s]
      PROVE  Settled'
  <2>1. mem' \in [Device -> Session] /\ \A e \in Device \ {d} : mem'[e] = mem[e]
    BY <1>2, <1>3 DEF TaskTypes
  <2> QED BY <1>1, <1>2, <1>3, <2>1, TaskStep DEF TaskTypes
<1>4. CASE Tasks!EncryptBegin(d, k)
  <2>1. task[d][k].pc = "idle" /\ mem[d] = session[d] /\ OldKey(d) /\ mem' = mem
    BY <1>2, <1>4 DEF Tasks!EncryptBegin, Tasks!At, Stands
  <2>2. MaySend(d)
    <3>1. Tasks!Sending(d) = {}
      BY <2>1 DEF Tasks!Sending
    <3>2. Tasks!Cardinality({}) = 0
      BY SameCardinality, FS_EmptySet
    <3> QED BY <1>2, <1>4, <2>1, <3>1, <3>2 DEF Tasks!EncryptBegin, MaySend, TaskTypes
  <2>3. CASE session[d].sendChain = NoChain
    <3>1. PICK t : t = [pc |-> "theirs", theirs |-> session[d].theirKey]
      OBVIOUS
    <3>2. Tasks!Become(d, k, t)
      BY <1>4, <2>1, <2>3, <3>1 DEF Tasks!EncryptBegin
    <3>3. Stands(d, t)
      BY <2>1, <2>2, <2>3, <3>1 DEF Stands, SendsAt, ReceivesAt
    <3>4. Stands(d, t)'
      BY <1>1, <2>1, <3>1, <3>3, StandsStill
    <3> QED BY <1>1, <1>3, <2>1, <3>1, <3>2, <3>4 DEF Reads
  <2>4. CASE session[d].sendChain # NoChain
    <3>1. PICK t : t = [pc |-> "step", chain |-> session[d].sendChain]
      OBVIOUS
    <3>2. Tasks!Become(d, k, t)
      BY <1>4, <2>1, <2>4, <3>1 DEF Tasks!EncryptBegin
    <3>3. Stands(d, t)
      BY <2>1, <2>2, <2>4, <3>1 DEF Stands, SendsAt, ReceivesAt, Open, OpenSendChain
    <3>4. Stands(d, t)'
      BY <1>1, <2>1, <3>1, <3>3, StandsStill
    <3> QED BY <1>1, <1>3, <2>1, <3>1, <3>2, <3>4 DEF Reads
  <2> QED BY <1>1, <2>3, <2>4
<1>5. CASE Tasks!EncryptDH(d, k)
  <2>1. PICK t : t = [pc |-> "dh", root |-> DhRatchetStep(mem[d].root, mem[d].myKey, task[d][k].theirs)]
    OBVIOUS
  <2>2. Tasks!Become(d, k, t) /\ task[d][k].pc = "theirs" /\ mem' = mem
    BY <1>5, <2>1, SameHelpers DEF Tasks!EncryptDH, Tasks!At
  <2>3. Stands(d, t)'
    BY <1>1, <1>2, <2>1, <2>2 DEF Stands, SendsAt, ReceivesAt, OldKey, MaySend
  <2> QED BY <1>1, <1>3, <2>1, <2>2, <2>3 DEF Reads
<1>6. CASE Tasks!EncryptOpen(d, k)
  <2>1. PICK t : t = [pc |-> "step", chain |-> ChainFrom(task[d][k].root)]
    OBVIOUS
  <2>2. Tasks!Become(d, k, t) /\ task[d][k].pc = "dh"
    BY <1>6, <2>1, SameHelpers DEF Tasks!EncryptOpen, Tasks!At
  <2>3. /\ mem[d] = session[d] /\ session[d].sendChain = NoChain
        /\ task[d][k].root = DhRatchetStep(session[d].root, session[d].myKey, session[d].theirKey)
    BY <1>2, <2>2 DEF Stands, SendsAt
  <2>4. mem' = [mem EXCEPT ![d] = Open(d)] /\ Open(d).sendChain = t.chain /\ Open(d) \in Session
    <3>1. Open(d) \in Session /\ Open(d) =
            [session[d] EXCEPT !.root = task[d][k].root, !.sendChain = ChainFrom(task[d][k].root),
                               !.prevLen = session[d].sendN, !.sendN = 0]
      BY <1>2, <2>3, OpenSendChainType DEF Open, OpenSendChain
    <3>2. mem' = [mem EXCEPT ![d] = Open(d)]
      BY <1>6, <2>3, <3>1, SameHelpers DEF Tasks!EncryptOpen, Tasks!Set
    <3> QED BY <1>2, <2>1, <3>1, <3>2 DEF Session
  <2>5. mem'[d] = Open(d)
    BY <1>2, <2>4 DEF TaskTypes
  <2>6. Stands(d, t)'
    BY <1>1, <1>2, <2>1, <2>2, <2>4, <2>5 DEF Stands, SendsAt, ReceivesAt, OldKey, MaySend, Open
  <2> QED BY <1>1, <1>3, <2>1, <2>2, <2>4, <2>6 DEF Reads
<1>7. CASE Tasks!EncryptHeader(d, k)
  <2>1. PICK t : t = [pc |-> "header", chain |-> task[d][k].chain, myKey |-> mem[d].myKey]
    OBVIOUS
  <2>2. Tasks!Become(d, k, t) /\ task[d][k].pc = "step" /\ mem' = mem
    BY <1>7, <2>1 DEF Tasks!EncryptHeader, Tasks!At
  <2>3. Stands(d, t)'
    BY <1>1, <1>2, <2>1, <2>2 DEF Stands, SendsAt, ReceivesAt, OldKey, MaySend, Open
  <2> QED BY <1>1, <1>3, <2>1, <2>2, <2>3 DEF Reads
<1>8. CASE Tasks!EncryptEnd(d, k)
  <2>1. task[d][k].pc = "header" /\ mem[d] = Open(d) /\ task[d][k].chain = Open(d).sendChain
        /\ task[d][k].myKey = Open(d).myKey
    BY <1>2, <1>8 DEF Tasks!EncryptEnd, Tasks!At, Stands, SendsAt
  <2>2. PICK t : t = [pc |-> "persist", header |-> Header(Open(d))]
    OBVIOUS
  <2>3. Tasks!Become(d, k, t)
    BY <1>8, <2>1, <2>2 DEF Tasks!EncryptEnd, Header
  <2>4. mem' = [mem EXCEPT ![d] = Sealed(Open(d))]
    <3>1. Sealed(Open(d)) = [Open(d) EXCEPT !.sendChain = StepChain(Open(d).sendChain, 1),
                                           !.sendN = Open(d).sendN + 1]
      BY <1>2, OpenSendChainType DEF Sealed, Open, Session
    <3> QED BY <1>8, <2>1, <3>1, SameHelpers DEF Tasks!EncryptEnd, Tasks!Set, Session
  <2>5. Sealed(Open(d)) \in Session
    BY <1>2, SealedType
  <2>6. mem'[d] = Sealed(Open(d))
    BY <1>2, <2>4 DEF TaskTypes
  <2>7. Stands(d, t)'
    BY <1>1, <1>2, <2>1, <2>2, <2>6 DEF Stands, SendsAt, ReceivesAt, OldKey, MaySend, Open
  <2> QED BY <1>1, <1>3, <2>2, <2>3, <2>4, <2>5, <2>7 DEF Reads
<1> QED BY <1>1, <1>4, <1>5, <1>6, <1>7, <1>8

(* The session of d is replaced by what d has in memory.                    *)
LEMMA SavePut ==
  ASSUME TaskTypes, NEW d \in Device, session' = [session EXCEPT ![d] = mem[d]],
         Len(mem[d].skipped) <= MaxSkippedKeys, mem[d].myKey[1] = d
  PROVE  /\ session' \in [Device -> Session] /\ session'[d] = mem[d]
         /\ \A e \in Device \ {d} : session'[e] = session[e]
         /\ \A e \in Device : Len(session'[e].skipped) <= MaxSkippedKeys /\ session'[e].myKey[1] = e
<1>1. session \in [Device -> Session] /\ mem[d] \in Session
  BY DEF TaskTypes
<1>2. session' \in [Device -> Session] /\ session'[d] = mem[d]
      /\ \A e \in Device \ {d} : session'[e] = session[e]
  BY <1>1
<1> QED BY <1>1, <1>2 DEF TaskTypes

(* An envelope is sealed when the session that has moved past its key is    *)
(* saved: sendOps as one step.                                              *)
LEMMA SealIsSend ==
  ASSUME Settled, NEW d \in Device, NEW k, Slots = {k}, Tasks!Seal(d, k)
  PROVE  Settled' /\ Tasks!R!Next
<1>1. TaskTypes /\ Apart /\ \A e \in Device : Stands(e, task[e][k])
  BY DEF Settled
<1>2. /\ task[d][k].pc = "persist" /\ mem[d] = Sealed(Open(d)) /\ task[d][k].header = Header(Open(d))
      /\ OldKey(d) /\ MaySend(d) /\ session[d] \in Session /\ mem[d] \in Session
  <2>1. task[d][k].pc = "persist" /\ session[d] \in Session /\ mem[d] \in Session
    BY <1>1 DEF Tasks!Seal, Tasks!At, TaskTypes
  <2> QED BY <1>1, <2>1 DEF Stands, SendsAt
<1>3. PICK m : m = [from |-> d, id |-> sent[d], ratchetKey |-> Open(d).myKey, num |-> Open(d).sendN,
                    prev |-> Open(d).prevLen, key |-> Open(d).sendChain]
  OBVIOUS
<1>4. PICK t : t = [pc |-> "deliver", m |-> m]
  OBVIOUS
<1>5. /\ network' = network \cup {m} /\ Tasks!Become(d, k, t)
      /\ session' = [session EXCEPT ![d] = mem[d]] /\ sent' = [sent EXCEPT ![d] = @ + 1]
      /\ UNCHANGED <<mem, generated, wire, seen, failed, lost>>
  BY <1>2, <1>3, <1>4 DEF Tasks!Seal, Header
<1>6. mem[d].skipped = session[d].skipped /\ mem[d].myKey = session[d].myKey
  BY <1>2, SealedType
<1>7. /\ session' \in [Device -> Session] /\ session'[d] = mem[d]
      /\ \A e \in Device \ {d} : session'[e] = session[e]
      /\ \A e \in Device : Len(session'[e].skipped) <= MaxSkippedKeys /\ session'[e].myKey[1] = e
  BY <1>1, <1>5, <1>6, SavePut DEF TaskTypes
<1>8. m \in Envelope /\ m \notin network /\ m.from = d /\ sent' \in [Device -> Nat]
      /\ m.id < sent'[d] /\ \A e \in Device : sent[e] <= sent'[e]
  <2>1. PICK s \in Session : s = Open(d) /\ s.sendChain \in ChainKey
    BY <1>2, OpenSendChainType DEF Open
  <2>2. m \in Envelope
    BY <1>1, <1>3, <2>1, SessionFields DEF Envelope, TaskTypes
  <2>3. \A n \in network : n # m
    BY <1>1, <1>3 DEF Apart, TaskTypes, Envelope
  <2> QED BY <1>1, <1>3, <1>5, <2>2, <2>3 DEF TaskTypes
<1>9. Tasks!R!Send(d)
  <2>1. PICK s : s = Open(d)
    OBVIOUS
  <2>2. Tasks!R!OpenSendChain(session[d]) = s
    BY <2>1, SameHelpers DEF Open
  <2>3. session' = [session EXCEPT ![d] = [s EXCEPT !.sendChain = Tasks!R!StepChain(@, 1), !.sendN = @ + 1]]
    BY <1>2, <1>5, <2>1, SameHelpers DEF Sealed
  <2>4. [e \in {Alice, Bob} |-> session[e].myKey[2]]' = [e \in {Alice, Bob} |-> session[e].myKey[2]]
    BY <1>6, <1>7 DEF Device
  <2> QED BY <1>2, <1>3, <1>5, <2>1, <2>2, <2>3, <2>4 DEF Tasks!R!Send, MaySend
<1>10. Tasks!R!Next
  BY <1>9, SameHelpers DEF Tasks!R!Next
<1>11. /\ task' = [e \in Device |-> [j \in Slots |-> task'[e][j]]]
       /\ task'[d][k] = t /\ \A e \in Device \ {d} : task'[e][k] = task[e][k]
  BY <1>1, <1>5, TaskPut
<1>12. TaskTypes'
  <2>1. mem' \in [Device -> Session] /\ generated' \in [Device -> Nat]
        /\ seen' = [e \in Device |-> seen'[e]] /\ failed' = [e \in Device |-> failed'[e]]
        /\ lost' = [e \in Device |-> lost'[e]]
    BY <1>1, <1>5 DEF TaskTypes
  <2> QED BY <1>7, <1>8, <1>11, <2>1, Zenon DEF TaskTypes
<1>13. m \notin wire /\ \A e \in Device : m \notin seen[e]
  BY <1>1, <1>8 DEF Apart
<1>14. Apart'
  <2>1. ASSUME NEW e \in Device, task'[e][k].pc = "deliver", task'[Peer(e)][k].pc \in Reads
        PROVE  task'[e][k].m # task'[Peer(e)][k].m
    <3>1. Peer(e) # d /\ task'[Peer(e)][k] = task[Peer(e)][k]
      BY <1>4, <1>11, <2>1, PeerFacts DEF Reads
    <3>2. task[Peer(e)][k].m \in network
      BY <2>1, <3>1, <1>1, PeerFacts DEF Reads, Stands, ReceivesAt
    <3>3. CASE e = d
      BY <1>4, <1>8, <1>11, <3>1, <3>2, <3>3
    <3>4. CASE e # d
      BY <1>1, <1>11, <2>1, <3>1, <3>4 DEF Apart, Reads
    <3> QED BY <3>3, <3>4
  <2>2. \A n \in network' : n \in Envelope /\ n.id < sent'[n.from]
    <3>1. \A n \in network : n \in Envelope /\ n.id \in Nat /\ n.id < sent[n.from] /\ n.from \in Device
      BY <1>1 DEF Apart, Envelope
    <3> QED BY <1>1, <1>5, <1>8, <3>1 DEF TaskTypes
  <2> QED BY <1>1, <1>5, <2>1, <2>2 DEF Apart, Reads
<1>15. Stands(d, t)'
  BY <1>2, <1>4, <1>5, <1>6, <1>7, <1>8, <1>13, PeerFacts DEF Stands, SendsAt, ReceivesAt, OldKey
<1>16. \A e \in Device : \A j \in Slots : Stands(e, task[e][j])'
  <2>1. ASSUME NEW e \in Device \ {d}
        PROVE  /\ mem'[e] = mem[e] /\ session'[e] = session[e] /\ sent'[e] = sent[e]
               /\ generated'[e] = generated[e] /\ seen'[e] = seen[e]
               /\ task[e][k].pc = "deliver" => task[e][k].m \notin wire' \cup seen'[Peer(e)]
               /\ task[e][k].pc \in Reads => task[e][k].m \notin wire'
    BY <1>1, <1>5, <1>7 DEF TaskTypes, Stands, SendsAt, ReceivesAt, Reads
  <2> QED BY <1>5, <1>15, <2>1, OthersStand
<1> QED BY <1>10, <1>12, <1>14, <1>16 DEF Settled

(* What has been sealed goes out.                                           *)
LEMMA DeliverStep ==
  ASSUME Settled, NEW d \in Device, NEW k, Slots = {k}, Tasks!Deliver(d, k)
  PROVE  Settled' /\ UNCHANGED Tasks!R!vars
<1>1. TaskTypes /\ Apart /\ \A e \in Device : Stands(e, task[e][k])
  BY DEF Settled
<1>2. PICK m : m = task[d][k].m
  OBVIOUS
<1>3. /\ task[d][k].pc = "deliver" /\ m \in network /\ m.from = d /\ m \notin wire \cup seen[Peer(d)]
      /\ mem[d] = session[d] /\ OldKey(d)
  BY <1>1, <1>2 DEF Tasks!Deliver, Tasks!At, Stands, SendsAt
<1>4. /\ wire' = wire \cup {m} /\ Tasks!Become(d, k, Tasks!Idle)
      /\ UNCHANGED <<mem, session, generated, sent, network, seen, failed, lost>>
  BY <1>2 DEF Tasks!Deliver
<1>5. /\ task' = [e \in Device |-> [j \in Slots |-> task'[e][j]]]
      /\ task'[d][k] = Tasks!Idle /\ \A e \in Device \ {d} : task'[e][k] = task[e][k]
  BY <1>1, <1>4, TaskPut
<1>6. TaskTypes'
  BY <1>1, <1>4, <1>5 DEF TaskTypes
<1>7. Apart'
  <2>1. ASSUME NEW e \in Device, task'[e][k].pc = "deliver", task'[Peer(e)][k].pc \in Reads
        PROVE  task'[e][k].m # task'[Peer(e)][k].m
    <3>1. e # d /\ Peer(e) # d
      BY <1>5, <2>1 DEF Tasks!Idle, Reads
    <3>2. task'[e][k] = task[e][k] /\ task'[Peer(e)][k] = task[Peer(e)][k]
      BY <1>5, <3>1, PeerFacts
    <3> QED BY <1>1, <2>1, <3>2 DEF Apart, Reads
  <2>2. wire' \subseteq network' /\ \A n \in wire' : n \notin seen'[Peer(n.from)]
    BY <1>1, <1>3, <1>4 DEF Apart
  <2> QED BY <1>1, <1>4, <2>1, <2>2 DEF Apart, Reads
<1>8. Stands(d, Tasks!Idle)'
  BY <1>3, <1>4 DEF Stands, SendsAt, ReceivesAt, OldKey, Tasks!Idle
<1>9. ASSUME NEW e \in Device \ {d}
      PROVE  /\ task[e][k].pc = "deliver" => task[e][k].m \notin wire' \cup seen'[Peer(e)]
             /\ task[e][k].pc \in Reads => task[e][k].m \notin wire'
  <2>1. d = Peer(e) /\ e = Peer(d)
    BY PeerFacts DEF Device
  <2>2. task[e][k].pc = "deliver" => task[e][k].m # m
    BY <1>1, <1>3 DEF Stands, SendsAt
  <2>3. task[e][k].pc \in Reads => task[e][k].m # m
    BY <1>1, <1>2, <1>3, <2>1 DEF Apart, Reads
  <2> QED BY <1>1, <1>4, <2>2, <2>3 DEF Stands, SendsAt, ReceivesAt, Reads
<1>10. \A e \in Device : \A j \in Slots : Stands(e, task[e][j])'
  BY <1>4, <1>8, <1>9, OthersStand
<1> QED BY <1>4, <1>6, <1>7, <1>10, Stutters DEF Settled

(* A crash leaves what was saved.                                           *)
LEMMA CrashStep ==
  ASSUME Settled, NEW d \in Device, NEW k, Slots = {k}, Tasks!Crash(d)
  PROVE  Settled' /\ UNCHANGED Tasks!R!vars
<1>1. TaskTypes /\ Apart /\ \A e \in Device : Stands(e, task[e][k])
  BY DEF Settled
<1>2. /\ mem' = [mem EXCEPT ![d] = session[d]]
      /\ generated' = [generated EXCEPT ![d] = session[d].myKey[2]]
      /\ UNCHANGED <<session, sent, network, wire, seen, failed, lost>>
  BY DEF Tasks!Crash, Tasks!Set
<1>3. session[d].myKey[2] \in Nat
  BY <1>1 DEF TaskTypes, Session, KeyPair
<1>4. /\ mem' \in [Device -> Session] /\ mem'[d] = session[d]
      /\ generated' \in [Device -> Nat] /\ generated'[d] = session[d].myKey[2]
      /\ \A e \in Device \ {d} : mem'[e] = mem[e] /\ generated'[e] = generated[e]
  BY <1>1, <1>2, <1>3 DEF TaskTypes
<1>5. /\ task' = [e \in Device |-> [j \in Slots |-> task'[e][j]]]
      /\ task'[d][k] = Tasks!Idle /\ \A e \in Device \ {d} : task'[e][k] = task[e][k]
  BY <1>1 DEF Tasks!Crash, TaskTypes
<1>6. TaskTypes'
  BY <1>1, <1>2, <1>4, <1>5 DEF TaskTypes
<1>7. Apart'
  <2>1. ASSUME NEW e \in Device, task'[e][k].pc = "deliver", task'[Peer(e)][k].pc \in Reads
        PROVE  task'[e][k].m # task'[Peer(e)][k].m
    <3>1. e # d /\ Peer(e) # d
      BY <1>5, <2>1 DEF Tasks!Idle, Reads
    <3>2. task'[e][k] = task[e][k] /\ task'[Peer(e)][k] = task[Peer(e)][k]
      BY <1>5, <3>1, PeerFacts
    <3> QED BY <1>1, <2>1, <3>2 DEF Apart, Reads
  <2> QED BY <1>1, <1>2, <2>1 DEF Apart, Reads
<1>8. Stands(d, Tasks!Idle)'
  BY <1>2, <1>4 DEF Stands, SendsAt, ReceivesAt, OldKey, Tasks!Idle
<1>9. ASSUME NEW e \in Device \ {d} PROVE Stands(e, task[e][k])'
  <2>1. PICK u : u = task[e][k]
    OBVIOUS
  <2>2. Stands(e, u)'
    BY <1>1, <1>2, <1>4, <2>1, StandsStill DEF Stands, SendsAt, ReceivesAt
  <2> QED BY <1>5, <2>1, <2>2 DEF Stands, SendsAt, ReceivesAt
<1>10. Stands(d, task[d][k])'
  BY <1>5, <1>8 DEF Stands, SendsAt, ReceivesAt
<1> QED BY <1>2, <1>6, <1>7, <1>9, <1>10, Stutters DEF Settled

(* While no cap is hit nothing is given up.                                 *)
LEMMA NothingGivenUp ==
  ASSUME TaskTypes, NothingLost', NEW d \in Device, NEW positions, Tasks!GiveUp(d, positions)
  PROVE  positions = {} /\ lost' = lost
<1>1. lost' = [lost EXCEPT ![d] = @ \cup positions] /\ lost = [e \in Device |-> lost[e]]
  BY DEF Tasks!GiveUp, TaskTypes
<1>2. lost'[d] = lost[d] \cup positions /\ lost'[d] = {}
  BY <1>1 DEF NothingLost
<1> QED BY <1>1, <1>2

(* Skipping ahead leaves the own key pair alone.                            *)
LEMMA SkipForwardKeeps ==
  ASSUME NEW s \in Session, NEW upTo \in Nat
  PROVE  SkipForward(s, upTo).myKey = s.myKey
BY DEF SkipForward, Session

(* The session that follows a ratchet turn.                                 *)
LEMMA OnTurnType ==
  ASSUME TaskTypes, NEW d \in Device, NEW m \in Envelope, NEW key \in KeyPair
  PROVE  /\ Drain(d, m) \in Session /\ Drain(d, m).myKey = session[d].myKey
         /\ OnTurn(d, m, key) \in Session
         /\ OnTurn(d, m, key).myKey = key /\ OnTurn(d, m, key).recvN = 0
         /\ NextKey(d) \in KeyPair
<1>1. session[d] \in Session /\ m.prev \in Nat /\ m.ratchetKey \in KeyPair
  BY DEF TaskTypes, Envelope
<1>2. Drain(d, m) \in Session /\ Drain(d, m).myKey = session[d].myKey
  BY <1>1, SkipForwardType, SkipForwardKeeps DEF Drain
<1>3. OnTurn(d, m, key) \in Session
  BY <1>1, <1>2, OpenRecvChainType DEF OnTurn
<1>4. OnTurn(d, m, key).myKey = key /\ OnTurn(d, m, key).recvN = 0
  BY DEF OnTurn, OpenRecvChain
<1>5. NextKey(d) \in KeyPair
  BY <1>1, SessionFields DEF NextKey, KeyPair
<1> QED BY <1>2, <1>3, <1>4, <1>5

(* An envelope is taken from the wire, and its key found in the cache, on   *)
(* the chain or on the chain to come.                                       *)
LEMMA DecryptBeginStep ==
  ASSUME Settled, NEW d \in Device, NEW k, Slots = {k}, NEW m \in wire,
         Tasks!DecryptBegin(d, k, m), NothingLost'
  PROVE  Settled' /\ UNCHANGED Tasks!R!vars
<1>1. TaskTypes /\ Apart /\ Stands(d, task[d][k]) /\ session[d] \in Session
  BY DEF Settled, TaskTypes
<1>2. /\ task[d][k].pc = "idle" /\ mem[d] = session[d] /\ OldKey(d)
      /\ m.from = Peer(d) /\ wire' = wire \ {m}
      /\ UNCHANGED <<session, generated, sent, network, seen, crashes>>
  BY <1>1, SameHelpers DEF Tasks!DecryptBegin, Tasks!At, Stands
<1>3. Tasks!Cached(d, m) = CachedAt(d, m)
  BY <1>2 DEF Tasks!Cached, CachedAt
<1>4. m \in network /\ m \in Envelope /\ Arrives(d, m)
  <2>1. m \in network /\ m \in Envelope /\ m \notin seen[Peer(m.from)]
    BY <1>1 DEF Apart
  <2> QED BY <1>2, <2>1, PeerFacts DEF Arrives
<1>5. ASSUME NEW t, Tasks!Become(d, k, t), t.m = m, t.pc \in Reads, Stands(d, t)',
             UNCHANGED <<failed, lost>>,
             mem' = mem \/ \E s \in Session : mem' = [mem EXCEPT ![d] = s]
      PROVE  Settled' /\ UNCHANGED Tasks!R!vars
  <2>1. mem' \in [Device -> Session] /\ \A e \in Device \ {d} : mem'[e] = mem[e]
    BY <1>1, <1>5 DEF TaskTypes
  <2>2. Settled'
    BY <1>1, <1>2, <1>5, <2>1, TaskStep DEF TaskTypes, Reads
  <2> QED BY <1>2, <1>5, <2>2, Stutters
<1>6. /\ CachedAt(d, m)' = CachedAt(d, m) /\ Arrives(d, m)' /\ (Turning(d, m)' <=> Turning(d, m))
      /\ Drain(d, m)' = Drain(d, m) /\ OldKey(d)' /\ m \notin wire' /\ m \in network'
      /\ \A s : ReadOn(d, m, s)' <=> ReadOn(d, m, s)
      /\ \A s, key : Cached(d, m, s, key)' <=> Cached(d, m, s, key)
  BY <1>2, <1>4, SameReading
<1>7. ASSUME NEW i \in CachedAt(d, m), \A j \in CachedAt(d, m) : i <= j,
             Tasks!Set(d, [session[d] EXCEPT !.skipped = RemoveIndex(@, i)]),
             Tasks!Become(d, k, [pc |-> "save", m |-> m, key |-> session[d].skipped[i].key]),
             UNCHANGED <<failed, lost>>
      PROVE  Settled' /\ UNCHANGED Tasks!R!vars
  <2>1. PICK s : s = [session[d] EXCEPT !.skipped = RemoveIndex(@, i)]
    OBVIOUS
  <2>2. PICK t : t = [pc |-> "save", m |-> m, key |-> session[d].skipped[i].key]
    OBVIOUS
  <2>3. s \in Session
    <3>1. RemoveIndex(session[d].skipped, i) \in Seq(SkippedKey)
      BY <1>1, <1>7, RemoveIndexType, SessionFields DEF CachedAt
    <3> QED BY <1>1, <2>1, <3>1 DEF Session
  <2>4. mem' = [mem EXCEPT ![d] = s] /\ mem'[d] = s
    BY <1>1, <1>7, <2>1 DEF Tasks!Set, TaskTypes
  <2>5. Cached(d, m, s, t.key)
    BY <1>2, <1>7, <2>1, <2>2 DEF Cached
  <2>6. Stands(d, t)'
    BY <1>6, <2>2, <2>4, <2>5 DEF Stands, SendsAt, ReceivesAt
  <2> QED BY <1>5, <1>7, <2>2, <2>3, <2>4, <2>6 DEF Reads
<1>8. ASSUME CachedAt(d, m) = {}, m.ratchetKey = session[d].theirKey, session[d].recvChain # NoChain,
             Tasks!Become(d, k, [pc |-> "tail", m |-> m]), UNCHANGED <<mem, failed, lost>>
      PROVE  Settled' /\ UNCHANGED Tasks!R!vars
  <2>1. PICK t : t = [pc |-> "tail", m |-> m]
    OBVIOUS
  <2>2. ReadOn(d, m, mem[d])
    BY <1>2, <1>8 DEF ReadOn, OnCurrentChain
  <2>3. Stands(d, t)'
    BY <1>6, <1>8, <2>1, <2>2 DEF Stands, SendsAt, ReceivesAt
  <2> QED BY <1>5, <1>8, <2>1, <2>3 DEF Reads
<1>9. ASSUME CachedAt(d, m) = {}, m.ratchetKey # session[d].theirKey \/ session[d].recvChain = NoChain,
             generated[d] < MaxMessages, ~Refuses(session[d], m.prev),
             Tasks!Set(d, Capped(Drain(d, m))), Tasks!GiveUp(d, Evicted(Drain(d, m).skipped)),
             Tasks!Become(d, k, [pc |-> "turn", m |-> m]), UNCHANGED failed
      PROVE  Settled' /\ UNCHANGED Tasks!R!vars
  <2>1. PICK t : t = [pc |-> "turn", m |-> m]
    OBVIOUS
  <2>2. Evicted(Drain(d, m).skipped) = {} /\ lost' = lost
    BY <1>1, <1>9, NothingGivenUp
  <2>3. Drain(d, m) \in Session
    BY <1>1, <1>4, SkipForwardType DEF Drain, Envelope
  <2>4. Capped(Drain(d, m)) = Drain(d, m)
    BY <2>2, <2>3, CappedSame
  <2>5. mem' = [mem EXCEPT ![d] = Drain(d, m)] /\ mem'[d] = Drain(d, m)
    BY <1>1, <1>9, <2>4 DEF Tasks!Set, TaskTypes
  <2>6. Turning(d, m)
    BY <1>2, <1>9 DEF Turning, OnCurrentChain, OldKey
  <2>7. Stands(d, t)'
    BY <1>6, <2>1, <2>5, <2>6 DEF Stands, SendsAt, ReceivesAt
  <2> QED BY <1>5, <1>9, <2>1, <2>2, <2>3, <2>5, <2>7 DEF Reads
<1>10. CASE \E i \in CachedAt(d, m) :
              /\ \A j \in CachedAt(d, m) : i <= j
              /\ Tasks!Set(d, [mem[d] EXCEPT !.skipped = Tasks!R!RemoveIndex(@, i)])
              /\ Tasks!Become(d, k, [pc |-> "save", m |-> m, key |-> mem[d].skipped[i].key])
              /\ UNCHANGED <<failed, lost>>
  BY <1>2, <1>7, <1>10, SameHelpers
<1>11. CASE /\ CachedAt(d, m) = {}
            /\ m.ratchetKey = mem[d].theirKey /\ mem[d].recvChain # NoChain
            /\ Tasks!Become(d, k, [pc |-> "tail", m |-> m])
            /\ UNCHANGED <<mem, failed, lost>>
  BY <1>2, <1>8, <1>11
<1>12. CASE /\ CachedAt(d, m) = {}
            /\ m.ratchetKey # mem[d].theirKey \/ mem[d].recvChain = NoChain
            /\ generated[d] < MaxMessages
            /\ IF Tasks!R!Refuses(mem[d], m.prev)
               THEN Tasks!GiveUp(d, {<<m.ratchetKey, m.num>>})
               ELSE /\ Tasks!Set(d, Tasks!R!Capped(Tasks!R!SkipForward(mem[d], m.prev)))
                    /\ Tasks!GiveUp(d, Tasks!R!Evicted(Tasks!R!SkipForward(mem[d], m.prev).skipped))
                    /\ Tasks!Become(d, k, [pc |-> "turn", m |-> m])
                    /\ UNCHANGED failed
  <2>1. ~Refuses(session[d], m.prev)
    BY <1>1, <1>2, <1>12, NothingGivenUp, SameHelpers
  <2>2. Tasks!R!SkipForward(mem[d], m.prev) = Drain(d, m)
    BY <1>2, SameHelpers DEF Drain
  <2> QED BY <1>2, <1>9, <1>12, <2>1, <2>2, SameHelpers
<1> QED BY <1>3, <1>10, <1>11, <1>12 DEF Tasks!DecryptBegin

(* A session is its fields.                                                 *)
LEMMA SameSession ==
  ASSUME NEW s \in Session, NEW t \in Session,
         s.root = t.root, s.myKey = t.myKey, s.theirKey = t.theirKey, s.sendChain = t.sendChain,
         s.recvChain = t.recvChain, s.sendN = t.sendN, s.recvN = t.recvN, s.prevLen = t.prevLen,
         s.skipped = t.skipped
  PROVE  s = t
BY DEF Session

(* The ratchet turns, in the three steps that its awaits leave.             *)
LEMMA TurnSteps ==
  ASSUME Settled, NEW d \in Device, NEW k, Slots = {k},
         Tasks!TurnMix(d, k) \/ Tasks!TurnWrite(d, k) \/ Tasks!TurnKey(d, k)
  PROVE  Settled' /\ UNCHANGED Tasks!R!vars
<1>1. /\ TaskTypes /\ Apart /\ Stands(d, task[d][k]) /\ session[d] \in Session /\ mem[d] \in Session
      /\ UNCHANGED <<session, sent, network, wire, seen, failed, lost>> /\ UNCHANGED Tasks!R!vars
  BY Stutters DEF Settled, TaskTypes, Tasks!TurnMix, Tasks!TurnWrite, Tasks!TurnKey
<1>2. PICK t : t = task[d][k]
  OBVIOUS
<1>3. PICK m : m = t.m
  OBVIOUS
<1>4. /\ t.pc \in {"turn", "mixed"} /\ m \in network /\ m \in Envelope /\ Arrives(d, m) /\ m \notin wire
      /\ OldKey(d) /\ Turning(d, m) /\ session[d].myKey \in KeyPair
  <2>1. t.pc \in {"turn", "mixed"}
    BY <1>2 DEF Tasks!TurnMix, Tasks!TurnWrite, Tasks!TurnKey, Tasks!At
  <2> QED BY <1>1, <1>2, <1>3, <2>1, SessionFields DEF Stands, ReceivesAt, Apart
<1>5. /\ Arrives(d, m)' /\ Turning(d, m)' /\ Drain(d, m)' = Drain(d, m) /\ NextKey(d)' = NextKey(d)
      /\ \A key : OnTurn(d, m, key)' = OnTurn(d, m, key)
      /\ generated'[d] = generated[d] => OldKey(d)'
  BY <1>1, <1>4, SameReading
<1>6. /\ Drain(d, m) \in Session /\ Drain(d, m).myKey = session[d].myKey
      /\ OnTurn(d, m, session[d].myKey) \in Session /\ OnTurn(d, m, NextKey(d)) \in Session
  BY <1>1, <1>4, OnTurnType
<1>7. ASSUME NEW u, Tasks!Become(d, k, u), u.m = m, u.pc \in Reads, Stands(d, u)',
             mem' = mem \/ \E s \in Session : mem' = [mem EXCEPT ![d] = s],
             generated' = generated \/ generated' = [generated EXCEPT ![d] = @ + 1]
      PROVE  Settled'
  <2>1. mem' \in [Device -> Session] /\ \A e \in Device \ {d} : mem'[e] = mem[e]
    BY <1>1, <1>7 DEF TaskTypes
  <2>2. generated' \in [Device -> Nat] /\ \A e \in Device \ {d} : generated'[e] = generated[e]
    BY <1>1, <1>7 DEF TaskTypes
  <2> QED BY <1>1, <1>2, <1>3, <1>4, <1>7, <2>1, <2>2, TaskStep DEF TaskTypes, Reads
<1>8. CASE Tasks!TurnMix(d, k)
  <2>1. PICK u : u = [pc |-> "mixed", m |-> m, new |-> FALSE,
                      root |-> DhRatchetStep(mem[d].root, mem[d].myKey, m.ratchetKey)]
    OBVIOUS
  <2>2. t.pc = "turn" /\ Tasks!Become(d, k, u) /\ mem' = mem /\ generated' = generated
    BY <1>2, <1>3, <1>8, <2>1, SameHelpers DEF Tasks!TurnMix, Tasks!At
  <2>3. mem[d] = Drain(d, m)
    BY <1>1, <1>2, <1>3, <2>2 DEF Stands, ReceivesAt
  <2>4. Stands(d, u)'
    BY <1>1, <1>4, <1>5, <1>6, <2>1, <2>2, <2>3 DEF Stands, SendsAt, ReceivesAt
  <2> QED BY <1>1, <1>7, <2>1, <2>2, <2>4 DEF Reads
<1>9. CASE Tasks!TurnWrite(d, k)
  <2>1. PICK u : u = [t EXCEPT !.new = TRUE]
    OBVIOUS
  <2>2. t.pc = "mixed" /\ ~t.new /\ Tasks!Become(d, k, u) /\ generated' = generated
    BY <1>2, <1>9, <2>1 DEF Tasks!TurnWrite, Tasks!At
  <2>3. mem[d] = Drain(d, m) /\ t \in [pc : {"mixed"}, m : network, new : BOOLEAN,
           root : {DhRatchetStep(Drain(d, m).root, session[d].myKey, m.ratchetKey)}]
    BY <1>1, <1>2, <1>3, <2>2 DEF Stands, ReceivesAt
  <2>4. u.m = m /\ u.pc = "mixed" /\ u.new /\ u \in [pc : {"mixed"}, m : network, new : BOOLEAN,
           root : {DhRatchetStep(Drain(d, m).root, session[d].myKey, m.ratchetKey)}]
    BY <1>3, <2>1, <2>3
  <2>5. mem' = [mem EXCEPT ![d] = OnTurn(d, m, session[d].myKey)]
    <3>1. PICK s \in Session : s = Drain(d, m)
      BY <1>6
    <3>2. PICK w : w = [s EXCEPT !.root = t.root, !.recvChain = ChainFrom(t.root), !.recvN = 0,
                                 !.theirKey = m.ratchetKey, !.sendChain = NoChain]
      OBVIOUS
    <3>3. t.root = DhRatchetStep(s.root, s.myKey, m.ratchetKey) /\ t.root \in Root
          /\ m.ratchetKey \in KeyPair
      BY <1>4, <1>6, <2>3, <3>1, SessionFields, DhRatchetStepType DEF Envelope
    <3>4. w \in Session
      BY <3>2, <3>3 DEF Session, ChainFrom, ChainKey
    <3>5. w = OnTurn(d, m, session[d].myKey)
      <4>1. PICK v \in Session : v = OnTurn(d, m, session[d].myKey)
        BY <1>6
      <4>2. /\ w.root = t.root /\ w.recvChain = ChainFrom(t.root) /\ w.recvN = 0
            /\ w.theirKey = m.ratchetKey /\ w.sendChain = NoChain /\ w.myKey = s.myKey
            /\ w.sendN = s.sendN /\ w.prevLen = s.prevLen /\ w.skipped = s.skipped
        BY <3>2 DEF Session
      <4>3. /\ v.root = t.root /\ v.recvChain = ChainFrom(t.root) /\ v.recvN = 0
            /\ v.theirKey = m.ratchetKey /\ v.sendChain = NoChain /\ v.myKey = s.myKey
            /\ v.sendN = s.sendN /\ v.prevLen = s.prevLen /\ v.skipped = s.skipped
        BY <1>6, <3>1, <3>3, <4>1 DEF OnTurn, OpenRecvChain
      <4> QED BY <3>4, <4>1, <4>2, <4>3, SameSession
    <3>6. mem' = [mem EXCEPT ![d] = [mem[d] EXCEPT !.root = t.root, !.recvChain = ChainFrom(t.root),
                    !.recvN = 0, !.theirKey = t.m.ratchetKey, !.sendChain = NoChain]]
      <4>1. Tasks!Set(d, [mem[d] EXCEPT !.root = t.root, !.recvChain = Tasks!R!ChainFrom(t.root),
                    !.recvN = 0, !.theirKey = t.m.ratchetKey, !.sendChain = NoChain])
        BY <1>2, <1>9, Zenon DEF Tasks!TurnWrite
      <4> QED BY <4>1, SameHelpers DEF Tasks!Set
    <3> QED BY <1>3, <2>3, <3>1, <3>2, <3>5, <3>6
  <2>6. mem'[d] = OnTurn(d, m, session[d].myKey)
    BY <1>1, <2>5 DEF TaskTypes
  <2>7. Stands(d, u)'
    BY <1>1, <1>4, <1>5, <2>2, <2>3, <2>4, <2>6 DEF Stands, SendsAt, ReceivesAt
  <2> QED BY <1>1, <1>6, <1>7, <2>2, <2>4, <2>5, <2>7 DEF Reads
<1>10. CASE Tasks!TurnKey(d, k)
  <2>1. PICK u : u = [pc |-> "tail", m |-> m]
    OBVIOUS
  <2>2. /\ t.pc = "mixed" /\ t.new /\ Tasks!Become(d, k, u)
        /\ generated' = [generated EXCEPT ![d] = @ + 1]
        /\ mem' = [mem EXCEPT ![d] = [mem[d] EXCEPT !.myKey = <<d, generated'[d]>>]]
    BY <1>2, <1>3, <1>10, <2>1 DEF Tasks!TurnKey, Tasks!At, Tasks!Set
  <2>3. mem[d] = OnTurn(d, m, session[d].myKey)
    BY <1>1, <1>2, <1>3, <2>2 DEF Stands, ReceivesAt
  <2>4. generated'[d] = session[d].myKey[2] + 1 /\ NextKey(d) = <<d, generated'[d]>>
    BY <1>1, <1>4, <2>2 DEF TaskTypes, OldKey, NextKey
  <2>5. [mem[d] EXCEPT !.myKey = <<d, generated'[d]>>] = OnTurn(d, m, NextKey(d))
    <3>1. PICK s \in Session : s = Drain(d, m)
      BY <1>6
    <3> QED BY <2>3, <2>4, <3>1 DEF OnTurn, OpenRecvChain
  <2>6. mem' = [mem EXCEPT ![d] = OnTurn(d, m, NextKey(d))] /\ mem'[d] = OnTurn(d, m, NextKey(d))
    BY <1>1, <2>2, <2>5 DEF TaskTypes
  <2>7. ReadOn(d, m, mem[d])'
    BY <1>1, <1>5, <2>4, <2>6 DEF ReadOn
  <2>8. Stands(d, u)'
    BY <1>1, <1>4, <1>5, <2>1, <2>7 DEF Stands, SendsAt, ReceivesAt
  <2> QED BY <1>1, <1>6, <1>7, <2>1, <2>2, <2>6, <2>8 DEF Reads
<1> QED BY <1>1, <1>8, <1>9, <1>10

(* A chain followed to a position and one step further.                     *)
LEMMA TakeNextType ==
  ASSUME NEW u \in Session, u.recvChain # NoChain, NEW n \in Nat
  PROVE  LET t == SkipForward(u, n)
         IN  /\ t \in Session /\ TakeNext(t) \in Session
             /\ TakeNext(t).skipped = t.skipped /\ TakeNext(t).myKey = u.myKey
             /\ Evicted(t.skipped) = {} =>
                  Capped(TakeNext(t)) = TakeNext(t) /\ Len(TakeNext(t).skipped) <= MaxSkippedKeys
<1>1. PICK t \in Session : t = SkipForward(u, n) /\ t.myKey = u.myKey
  BY SkipForwardType, SkipForwardKeeps
<1>2. u.recvChain \in ChainKey
  BY SessionFields
<1>3. t.recvChain \in ChainKey /\ t.recvN \in Nat
  <2>1. CASE n <= u.recvN
    BY <1>1, <1>2, <2>1, SessionFields DEF SkipForward
  <2>2. CASE u.recvN < n
    <3>1. n - u.recvN \in Nat
      BY <2>2, SessionFields
    <3>2. StepChain(u.recvChain, n - u.recvN) \in ChainKey
      BY <1>2, <3>1, StepChainType
    <3>3. t.recvChain = StepChain(u.recvChain, n - u.recvN)
      BY <1>1, <1>2, <2>2, NoChainIsNoKey, SessionFields DEF SkipForward, Session
    <3> QED BY <3>2, <3>3, SessionFields
  <2>3. u.recvN \in Nat
    BY SessionFields
  <2> QED BY <2>1, <2>2, <2>3
<1>4. StepChain(t.recvChain, 1) \in ChainKey
  BY <1>3, StepChainType
<1>5. TakeNext(t) \in Session /\ TakeNext(t).skipped = t.skipped /\ TakeNext(t).myKey = t.myKey
  <2>1. PICK c \in ChainKey, l \in Nat : TakeNext(t) = [t EXCEPT !.recvChain = c, !.recvN = l]
    <3>1. t.recvN + 1 \in Nat
      BY <1>3
    <3>2. TakeNext(t) = [t EXCEPT !.recvChain = StepChain(t.recvChain, 1), !.recvN = t.recvN + 1]
      BY DEF TakeNext, Session
    <3> QED BY <1>4, <3>1, <3>2
  <2> QED BY <2>1 DEF Session
<1>6. ASSUME Evicted(t.skipped) = {}
      PROVE  Capped(TakeNext(t)) = TakeNext(t) /\ Len(TakeNext(t).skipped) <= MaxSkippedKeys
  <2>1. Capped(TakeNext(t)) = TakeNext(t)
    BY <1>5, <1>6, CappedSame
  <2>2. Len(Capped(TakeNext(t)).skipped) <= MaxSkippedKeys
    BY <1>5, CappedType
  <2> QED BY <2>1, <2>2
<1> QED BY <1>1, <1>5, <1>6

(* What is read on is a session with an open chain.                         *)
LEMMA ReadOnType ==
  ASSUME TaskTypes, NEW d \in Device, NEW m \in Envelope, NEW s, ReadOn(d, m, s)
  PROVE  /\ s \in Session /\ s.recvChain # NoChain /\ s.myKey[1] = d /\ s.myKey[2] = generated[d]
         /\ m.num < s.recvN => OnCurrentChain(d, m) /\ s = session[d]
<1>1. session[d] \in Session /\ session[d].myKey[1] = d /\ m.num \in Nat
  BY DEF TaskTypes, Envelope
<1>2. CASE OnCurrentChain(d, m) /\ s = session[d] /\ OldKey(d)
  BY <1>1, <1>2 DEF OnCurrentChain, OldKey
<1>3. CASE s = OnTurn(d, m, NextKey(d)) /\ generated[d] = session[d].myKey[2] + 1
  <2>1. NextKey(d) \in KeyPair
    BY OnTurnType, <1>1, SessionFields DEF NextKey, KeyPair
  <2>2. s \in Session /\ s.myKey = NextKey(d) /\ s.recvN = 0
    BY <1>3, <2>1, OnTurnType
  <2>3. s.recvChain # NoChain
    <3>1. PICK root : root = DhRatchetStep(Drain(d, m).root, Drain(d, m).myKey, m.ratchetKey)
      OBVIOUS
    <3>2. root \in Root
      BY <1>1, <3>1, OnTurnType, <2>1, SessionFields, DhRatchetStepType DEF Envelope
    <3>3. s.recvChain = ChainFrom(root) /\ ChainFrom(root) \in ChainKey
      BY <1>3, <3>1, <3>2 DEF OnTurn, OpenRecvChain, ChainFrom, ChainKey
    <3> QED BY <3>3, NoChainIsNoKey
  <2> QED BY <1>1, <1>3, <2>2, <2>3 DEF NextKey
<1> QED BY <1>2, <1>3 DEF ReadOn

(* Ratchet handles an envelope alike for SessionTasks.                      *)
LEMMA SameHandling ==
  \A d, m :
    /\ (Tasks!R!Arrives(d, m) <=> Arrives(d, m)) /\ Tasks!R!CachedAt(d, m) = CachedAt(d, m)
    /\ (Tasks!R!OnCurrentChain(d, m) <=> OnCurrentChain(d, m))
    /\ \A s, key : (Tasks!R!Unseal(d, m, s, key) <=> Unseal(d, m, s, key))
    /\ \A s : (Tasks!R!ReceiveOn(d, m, s) <=> ReceiveOn(d, m, s))
<1> TAKE d, m
<1>1. Tasks!R!Arrives(d, m) <=> Arrives(d, m)
  BY SameHelpers DEF Tasks!R!Arrives, Arrives
<1>2. Tasks!R!CachedAt(d, m) = CachedAt(d, m)
  BY DEF Tasks!R!CachedAt, CachedAt
<1>3. Tasks!R!OnCurrentChain(d, m) <=> OnCurrentChain(d, m)
  BY DEF Tasks!R!OnCurrentChain, OnCurrentChain
<1>4. \A s, key : (Tasks!R!Unseal(d, m, s, key) <=> Unseal(d, m, s, key))
  BY DEF Tasks!R!Unseal, Unseal
<1>5. \A s : (Tasks!R!Throw(d, m, s) <=> Throw(d, m, s))
  BY DEF Tasks!R!Throw, Throw
<1>6. \A p : (Tasks!R!GiveUp(d, p) <=> GiveUp(d, p))
  BY DEF Tasks!R!GiveUp, GiveUp
<1>7. \A s : (Tasks!R!ReceiveOn(d, m, s) <=> ReceiveOn(d, m, s))
  BY <1>4, <1>5, <1>6, SameHelpers DEF Tasks!R!ReceiveOn, ReceiveOn
<1> QED BY <1>1, <1>2, <1>3, <1>4, <1>7

(* The message key is derived, or the envelope lies behind the chain: then  *)
(* ratchetDecrypt throws and leaves the session as it was saved.            *)
LEMMA DecryptTailStep ==
  ASSUME Settled, NEW d \in Device, NEW k, Slots = {k}, Tasks!DecryptTail(d, k), NothingLost'
  PROVE  Settled' /\ (UNCHANGED Tasks!R!vars \/ Tasks!R!Next)
<1>1. /\ TaskTypes /\ Apart /\ Stands(d, task[d][k]) /\ session[d] \in Session
      /\ mem[d] \in Session /\ lost = [e \in Device |-> lost[e]]
      /\ UNCHANGED <<session, generated, sent, network, wire, seen>>
  BY DEF Settled, TaskTypes, Tasks!DecryptTail
<1>2. PICK m : m = task[d][k].m
  OBVIOUS
<1>3. /\ task[d][k].pc = "tail" /\ m \in network /\ m \in Envelope /\ m.num \in Nat
      /\ Arrives(d, m) /\ m \notin wire /\ ReadOn(d, m, mem[d])
  BY <1>1, <1>2 DEF Tasks!DecryptTail, Tasks!At, Stands, ReceivesAt, Apart, Envelope
<1>4. PICK s : s = SkipForward(mem[d], m.num)
  OBVIOUS
<1>5. CASE m.num < mem[d].recvN
  <2>1. OnCurrentChain(d, m) /\ mem[d] = session[d] /\ OldKey(d) /\ CachedAt(d, m) = {}
    <3>1. OnCurrentChain(d, m) /\ mem[d] = session[d]
      BY <1>1, <1>3, <1>5, ReadOnType
    <3> QED BY <1>3, <3>1 DEF ReadOn, Turning
  <2>2. /\ failed' = [failed EXCEPT ![d] = @ \cup {m}] /\ Tasks!Become(d, k, Tasks!Idle)
        /\ mem' = mem /\ Tasks!GiveUp(d, {})
    BY <1>2, <1>5 DEF Tasks!DecryptTail, Tasks!Fails
  <2>3. lost' = lost
    BY <1>1, <2>2, NothingGivenUp
  <2>4. Stands(d, Tasks!Idle)'
    BY <1>1, <2>1, <2>2 DEF Stands, SendsAt, ReceivesAt, OldKey, Tasks!Idle
  <2>5. Settled'
    BY <1>1, <2>2, <2>3, <2>4, TaskStep DEF TaskTypes, Tasks!Idle, Reads
  <2>6. ReceiveOn(d, m, session[d])
    <3>1. Evicted(session[d].skipped) = {} /\ Capped(session[d]) = session[d]
      <4>1. session[d].skipped \in Seq(SkippedKey) /\ Len(session[d].skipped) <= MaxSkippedKeys
        BY <1>1, SessionFields DEF TaskTypes
      <4>2. Evicted(session[d].skipped) = {}
        <5>1. Overflow(session[d].skipped) = 0
          BY <4>1, CapsAreNat DEF Overflow
        <5> QED BY <5>1 DEF Evicted
      <4> QED BY <1>1, <4>2, CappedSame
    <3>2. Throw(d, m, session[d])
      BY <1>1, <2>2 DEF Throw, TaskTypes
    <3>3. GiveUp(d, {} \cup {})
      BY <1>1, <2>3 DEF GiveUp
    <3> QED BY <1>5, <2>1, <3>1, <3>2, <3>3 DEF ReceiveOn
  <2>7. Tasks!R!ReceiveCurrent(d, m)
    BY <1>1, <1>3, <2>1, <2>6, SameHandling DEF Tasks!R!ReceiveCurrent
  <2> QED BY <1>3, <2>5, <2>7, SameHelpers DEF Tasks!R!Next
<1>6. CASE ~(m.num < mem[d].recvN)
  <2>1. ~Refuses(mem[d], m.num)
    BY <1>1, <1>2, <1>6, NothingGivenUp, SameHelpers DEF Tasks!DecryptTail
  <2>2. PICK t : t = [pc |-> "save", m |-> m, key |-> s.recvChain]
    OBVIOUS
  <2>3. /\ Tasks!Set(d, Capped(TakeNext(s))) /\ Tasks!GiveUp(d, Evicted(s.skipped))
        /\ Tasks!Become(d, k, t) /\ failed' = failed
    <3>1. Tasks!R!SkipForward(mem[d], m.num) = s
      BY <1>4, SameHelpers
    <3> QED BY <1>2, <1>6, <2>1, <2>2, <3>1, SameHelpers DEF Tasks!DecryptTail
  <2>4. Evicted(s.skipped) = {} /\ lost' = lost
    BY <1>1, <2>3, NothingGivenUp
  <2>5. TakeNext(s) \in Session /\ Capped(TakeNext(s)) = TakeNext(s)
    BY <1>1, <1>3, <1>4, <2>4, ReadOnType, TakeNextType
  <2>6. mem' = [mem EXCEPT ![d] = TakeNext(s)] /\ mem'[d] = TakeNext(s)
    BY <1>1, <2>3, <2>5 DEF Tasks!Set, TaskTypes
  <2>7. Followed(d, m, TakeNext(s), s.recvChain)
    <3>1. m.num >= mem[d].recvN
      BY <1>1, <1>3, <1>6, SessionFields
    <3> QED BY <1>3, <1>4, <2>1, <2>4, <3>1 DEF Followed, ReadOn
  <2>8. Followed(d, m, TakeNext(s), s.recvChain)' /\ Arrives(d, m)'
    <3>1. Arrives(d, m)' /\ \A r, key : Followed(d, m, r, key)' <=> Followed(d, m, r, key)
      BY <1>1, <1>3, SameReading
    <3> QED BY <2>5, <2>7, <3>1 DEF Followed
  <2>9. Stands(d, t)'
    BY <1>1, <1>3, <2>2, <2>6, <2>8 DEF Stands, SendsAt, ReceivesAt
  <2>10. mem' \in [Device -> Session] /\ \A e \in Device \ {d} : mem'[e] = mem[e]
    BY <1>1, <2>5, <2>6 DEF TaskTypes
  <2>11. Settled'
    BY <1>1, <1>2, <1>3, <2>2, <2>3, <2>4, <2>9, <2>10, TaskStep DEF TaskTypes, Reads
  <2> QED BY <1>1, <2>3, <2>4, <2>11, Stutters
<1> QED BY <1>5, <1>6

(* An envelope read is a step of Ratchet when the session is saved, whether *)
(* its key was cached, on the chain, or on the chain of a new turn.         *)
LEMMA SaveIsReceive ==
  ASSUME Settled, NEW d \in Device, NEW m \in network, NEW key, NEW s,
         Cached(d, m, s, key) \/ Followed(d, m, s, key),
         Arrives(d, m), Unseal(d, m, s, key), UNCHANGED <<sent, network, lost>>
  PROVE  /\ Tasks!R!Next
         /\ Len(s.skipped) <= MaxSkippedKeys /\ s.myKey[1] = d /\ s.myKey[2] = generated[d]
<1>1. /\ TaskTypes /\ session \in [Device -> Session] /\ session[d] \in Session /\ session[d].myKey[1] = d
      /\ Len(session[d].skipped) <= MaxSkippedKeys /\ lost = [e \in Device |-> lost[e]]
      /\ m \in Envelope /\ m.num \in Nat
  BY DEF Settled, TaskTypes, Apart, Envelope
<1>2. session' = [session EXCEPT ![d] = s] /\ session'[d] = s
      /\ \A e \in Device \ {d} : session'[e] = session[e]
  BY <1>1 DEF Unseal
<1>3. Tasks!R!Arrives(d, m) /\ Tasks!R!Unseal(d, m, s, key)
  BY SameHandling
<1>4. PICK g : g = [e \in {Alice, Bob} |-> session[e].myKey[2]]
  OBVIOUS
<1>5. CASE Cached(d, m, s, key)
  <2>1. PICK i \in CachedAt(d, m) :
          /\ \A j \in CachedAt(d, m) : i <= j
          /\ s = [session[d] EXCEPT !.skipped = RemoveIndex(@, i)]
          /\ key = session[d].skipped[i].key
    BY <1>5 DEF Cached
  <2>2. s.myKey = session[d].myKey /\ Len(s.skipped) <= MaxSkippedKeys
    <3>1. session[d].skipped \in Seq(SkippedKey) /\ i \in DOMAIN session[d].skipped
      BY <1>1, SessionFields DEF CachedAt
    <3>2. Len(RemoveIndex(session[d].skipped, i)) = Len(session[d].skipped) - 1
          /\ Len(session[d].skipped) \in Nat
      BY <3>1, RemoveIndexType
    <3>3. s.skipped = RemoveIndex(session[d].skipped, i) /\ s.myKey = session[d].myKey
      BY <1>1, <2>1 DEF Session
    <3> QED BY <1>1, <3>2, <3>3, CapsAreNat
  <2>3. [e \in {Alice, Bob} |-> session[e].myKey[2]]' = [e \in {Alice, Bob} |-> session[e].myKey[2]]
    BY <1>2, <2>2 DEF Device
  <2>4. Tasks!R!ReceiveSkipped(d, m)
    BY <1>3, <2>1, <2>3, SameHandling, SameHelpers DEF Tasks!R!ReceiveSkipped
  <2>5. OldKey(d)
    BY <1>5 DEF Cached
  <2> QED BY <1>1, <2>2, <2>4, <2>5, SameHelpers DEF Tasks!R!Next, OldKey
<1>6. CASE Followed(d, m, s, key)
  <2>1. PICK u : /\ ReadOn(d, m, u) /\ m.num >= u.recvN /\ ~Refuses(u, m.num)
                 /\ Evicted(SkipForward(u, m.num).skipped) = {}
                 /\ s = TakeNext(SkipForward(u, m.num)) /\ key = SkipForward(u, m.num).recvChain
    BY <1>6 DEF Followed
  <2>2. u \in Session /\ u.recvChain # NoChain /\ u.myKey[1] = d /\ u.myKey[2] = generated[d]
    BY <1>1, <2>1, ReadOnType
  <2>3. Capped(s) = s /\ Len(s.skipped) <= MaxSkippedKeys /\ s.myKey = u.myKey
    BY <1>1, <2>1, <2>2, TakeNextType
  <2>4. ReceiveOn(d, m, u)
    <3>1. ~(m.num < u.recvN)
      BY <1>1, <2>1, <2>2, SessionFields
    <3>2. GiveUp(d, {})
      BY <1>1 DEF GiveUp
    <3> QED BY <2>1, <2>3, <3>1, <3>2 DEF ReceiveOn
  <2>5. CASE CachedAt(d, m) = {} /\ OnCurrentChain(d, m) /\ u = session[d]
    <3>1. [e \in {Alice, Bob} |-> session[e].myKey[2]]' = [e \in {Alice, Bob} |-> session[e].myKey[2]]
      BY <1>2, <2>3, <2>5 DEF Device
    <3>2. Tasks!R!ReceiveCurrent(d, m)
      BY <1>3, <2>4, <2>5, <3>1, SameHandling DEF Tasks!R!ReceiveCurrent
    <3> QED BY <2>2, <2>3, <3>2, SameHelpers DEF Tasks!R!Next
  <2>6. CASE Turning(d, m) /\ u = OnTurn(d, m, NextKey(d)) /\ generated[d] = session[d].myKey[2] + 1
    <3>1. g[d] = session[d].myKey[2] /\ session'[d].myKey[2] = g[d] + 1
      BY <1>2, <1>4, <2>2, <2>3, <2>6 DEF Device
    <3>2. [e \in {Alice, Bob} |-> session[e].myKey[2]]' = [g EXCEPT ![d] = @ + 1]
      BY <1>2, <1>4, <3>1 DEF Device
    <3>3. NextKey(d) = <<d, g[d] + 1>> /\ Drain(d, m) = SkipForward(session[d], m.prev)
      BY <3>1 DEF NextKey, Drain
    <3>4. Tasks!R!ReceiveTurn(d, m)
      <4>1. /\ Tasks!R!CachedAt(d, m) = {} /\ ~Tasks!R!OnCurrentChain(d, m)
            /\ g[d] < MaxMessages /\ ~Tasks!R!Refuses(session[d], m.prev)
        BY <2>6, <3>1, SameHandling, SameHelpers DEF Turning
      <4>2. PICK h : h = [e \in {Alice, Bob} |-> session[e].myKey[2]]'
        OBVIOUS
      <4>3. h[d] = g[d] + 1 /\ h = [g EXCEPT ![d] = @ + 1]
        BY <1>4, <3>2, <4>2 DEF Device
      <4>4. Tasks!R!ReceiveOn(d, m, Tasks!R!OpenRecvChain(Tasks!R!SkipForward(session[d], m.prev),
                                                          m.ratchetKey, <<d, h[d]>>))
        BY <2>4, <2>6, <3>3, <4>3, SameHandling, SameHelpers DEF OnTurn
      <4> QED BY <1>3, <1>4, <4>1, <4>2, <4>3, <4>4 DEF Tasks!R!ReceiveTurn
    <3> QED BY <2>2, <2>3, <3>4, SameHelpers DEF Tasks!R!Next
  <2> QED BY <2>1, <2>5, <2>6 DEF ReadOn
<1> QED BY <1>5, <1>6

(* The session is saved and the envelope opens or does not.                 *)
LEMMA SaveStep ==
  ASSUME Settled, NEW d \in Device, NEW k, Slots = {k}, Tasks!Save(d, k)
  PROVE  Settled' /\ Tasks!R!Next
<1>1. TaskTypes /\ Apart /\ \A e \in Device : Stands(e, task[e][k])
  BY DEF Settled
<1>2. PICK t : t = task[d][k]
  OBVIOUS
<1>3. PICK m : m = t.m
  OBVIOUS
<1>4. /\ t.pc = "save" /\ session' = [session EXCEPT ![d] = mem[d]] /\ Tasks!Become(d, k, Tasks!Idle)
      /\ Unseal(d, m, mem[d], t.key)
      /\ UNCHANGED <<mem, generated, sent, network, wire, lost>>
  BY <1>2, <1>3 DEF Tasks!Save, Tasks!At, Tasks!Fails, Unseal
<1>5. /\ m \in network /\ Arrives(d, m) /\ m \notin wire /\ m.from = Peer(d)
      /\ Cached(d, m, mem[d], t.key) \/ Followed(d, m, mem[d], t.key)
  BY <1>1, <1>2, <1>3, <1>4 DEF Stands, ReceivesAt, Arrives
<1>6. /\ Tasks!R!Next
      /\ Len(mem[d].skipped) <= MaxSkippedKeys /\ mem[d].myKey[1] = d /\ mem[d].myKey[2] = generated[d]
  BY <1>4, <1>5, SaveIsReceive
<1>7. /\ session' \in [Device -> Session] /\ session'[d] = mem[d]
      /\ \A e \in Device \ {d} : session'[e] = session[e]
      /\ \A e \in Device : Len(session'[e].skipped) <= MaxSkippedKeys /\ session'[e].myKey[1] = e
  BY <1>1, <1>4, <1>6, SavePut
<1>8. /\ seen' = [e \in Device |-> seen'[e]] /\ failed' = [e \in Device |-> failed'[e]]
      /\ \A e \in Device \ {d} : seen'[e] = seen[e]
      /\ seen'[d] \subseteq seen[d] \cup {m}
  <2>1. seen = [e \in Device |-> seen[e]] /\ failed = [e \in Device |-> failed[e]]
    BY <1>1 DEF TaskTypes
  <2>2. \/ seen' = [seen EXCEPT ![d] = @ \cup {m}] /\ failed' = failed
        \/ failed' = [failed EXCEPT ![d] = @ \cup {m}] /\ seen' = seen
    BY <1>4 DEF Unseal
  <2> QED BY <2>1, <2>2
<1>9. /\ task' = [e \in Device |-> [j \in Slots |-> task'[e][j]]]
      /\ task'[d][k] = Tasks!Idle /\ \A e \in Device \ {d} : task'[e][k] = task[e][k]
  BY <1>1, <1>4, TaskPut
<1>10. TaskTypes'
  <2>1. mem' \in [Device -> Session] /\ generated' \in [Device -> Nat] /\ sent' \in [Device -> Nat]
        /\ lost' = [e \in Device |-> lost'[e]]
    BY <1>1, <1>4 DEF TaskTypes
  <2> QED BY <1>7, <1>8, <1>9, <2>1 DEF TaskTypes
<1>11. Apart'
  <2>1. ASSUME NEW e \in Device, task'[e][k].pc = "deliver", task'[Peer(e)][k].pc \in Reads
        PROVE  task'[e][k].m # task'[Peer(e)][k].m
    <3>1. e # d /\ Peer(e) # d
      BY <1>9, <2>1 DEF Tasks!Idle, Reads
    <3>2. task'[e][k] = task[e][k] /\ task'[Peer(e)][k] = task[Peer(e)][k]
      BY <1>9, <3>1, PeerFacts
    <3> QED BY <1>1, <2>1, <3>2 DEF Apart, Reads
  <2>2. \A e \in Device : seen'[e] \subseteq network'
    BY <1>1, <1>4, <1>5, <1>8 DEF Apart
  <2>3. ASSUME NEW n \in wire' PROVE n \notin seen'[Peer(n.from)]
    <3>1. n \in wire /\ n \notin seen[Peer(n.from)] /\ n # m /\ Peer(n.from) \in Device
      BY <1>1, <1>4, <1>5, PeerFacts DEF Apart, Envelope
    <3> QED BY <1>8, <3>1
  <2> QED BY <1>1, <1>4, <2>1, <2>2, <2>3 DEF Apart, Reads
<1>12. Stands(d, Tasks!Idle)'
  BY <1>4, <1>6, <1>7 DEF Stands, SendsAt, ReceivesAt, OldKey, Tasks!Idle
<1>13. ASSUME NEW e \in Device \ {d}
       PROVE  /\ task[e][k].pc = "deliver" => task[e][k].m \notin wire' \cup seen'[Peer(e)]
              /\ task[e][k].pc \in Reads => task[e][k].m \notin wire'
  <2>1. d = Peer(e)
    BY PeerFacts DEF Device
  <2>2. task[e][k].pc = "deliver" => task[e][k].m # m /\ task[e][k].m \notin wire \cup seen[d]
    BY <1>1, <1>2, <1>3, <1>4, <2>1 DEF Apart, Stands, SendsAt
  <2>3. task[e][k].pc \in Reads => task[e][k].m \notin wire
    BY <1>1 DEF Stands, ReceivesAt, Reads
  <2> QED BY <1>4, <1>8, <2>1, <2>2, <2>3
<1>14. \A e \in Device : \A j \in Slots : Stands(e, task[e][j])'
  BY <1>4, <1>7, <1>8, <1>12, <1>13, OthersStand
<1> QED BY <1>6, <1>10, <1>11, <1>14 DEF Settled

(* Nothing has been sealed and every task is idle.                          *)
LEMMA TasksBegin ==
  ASSUME OneSlot, Tasks!Init
  PROVE  Settled /\ Tasks!R!Init
<1>1. /\ mem = [d \in Device |-> InitSession(d)] /\ session = mem
      /\ task = [d \in Device |-> [k \in Slots |-> Tasks!Idle]]
      /\ generated = [d \in Device |-> 0] /\ sent = [d \in Device |-> 0]
      /\ network = {} /\ wire = {} /\ seen = [d \in Device |-> {}]
      /\ failed = [d \in Device |-> {}] /\ lost = [d \in Device |-> {}]
  BY SameHelpers DEF Tasks!Init
<1>2. \A d \in Device : /\ InitSession(d) \in Session /\ InitSession(d).myKey = <<d, 0>>
                        /\ Len(InitSession(d).skipped) <= MaxSkippedKeys
  <2>1. \A d \in Device : InitSession(d) \in Session
    BY PeerFacts DEF InitSession, Session, Root, KeyPair, Identity, Device
  <2> QED BY <2>1, CapsAreNat DEF InitSession, Identity
<1>3. TaskTypes
  BY <1>1, <1>2 DEF TaskTypes
<1>4. Apart
  BY <1>1 DEF Apart, Tasks!Idle
<1>5. ASSUME NEW d \in Device, NEW k \in Slots PROVE Stands(d, task[d][k])
  <2>1. task[d][k] = Tasks!Idle /\ mem[d] = session[d] /\ generated[d] = 0 /\ session[d].myKey = <<d, 0>>
    BY <1>1, <1>2
  <2> QED BY <2>1 DEF Stands, SendsAt, ReceivesAt, OldKey, Tasks!Idle
<1>6. Tasks!R!Init
  <2>1. [d \in {Alice, Bob} |-> session[d].myKey[2]] = [d \in {Alice, Bob} |-> 0]
    BY <1>1, <1>2 DEF Device
  <2>2. session = [d \in {Alice, Bob} |-> Tasks!R!InitSession(d)]
    BY <1>1, SameHelpers DEF Device
  <2> QED BY <1>1, <2>1, <2>2 DEF Tasks!R!Init, Tasks!R!Device, Device
<1> QED BY <1>3, <1>4, <1>5, <1>6 DEF Settled

(* One task at a time and no cap hit: whatever crashes, and wherever the    *)
(* awaits of sendOps and handleIncoming leave a task, what is saved moves   *)
(* as if each task were one step (SessionTasks implements Ratchet).         *)
THEOREM TasksAreAtomic ==
  ASSUME OneSlot
  PROVE  Tasks!Spec /\ []NothingLost => Tasks!Atomic
<1>1. Tasks!Init => Settled /\ Tasks!R!Init
  BY TasksBegin
<1>2. Settled /\ NothingLost' /\ [Tasks!Next]_(Tasks!vars)
        => Settled' /\ [Tasks!R!Next]_(Tasks!R!vars)
  <2> SUFFICES ASSUME Settled, NothingLost', [Tasks!Next]_(Tasks!vars)
               PROVE  Settled' /\ [Tasks!R!Next]_(Tasks!R!vars)
    OBVIOUS
  <2>1. PICK k : Slots = {k}
    BY DEF OneSlot
  <2>2. CASE UNCHANGED Tasks!vars
    <3>1. UNCHANGED <<session, sent, network, seen, failed, lost>>
      BY <2>2 DEF Tasks!vars
    <3>2. Settled'
      <4>1. UNCHANGED <<mem, session, task, generated, sent, network, wire, seen, failed, lost>>
        BY <2>2 DEF Tasks!vars
      <4>2. TaskTypes'
        BY <4>1 DEF Settled, TaskTypes
      <4>3. Apart'
        BY <4>1 DEF Settled, Apart
      <4>4. ASSUME NEW d \in Device PROVE Stands(d, task[d][k])'
        <5>1. PICK t : t = task[d][k]
          OBVIOUS
        <5>2. Stands(d, t)'
          BY <2>1, <4>1, <5>1, StandsStill DEF Settled, Stands, SendsAt, ReceivesAt
        <5> QED BY <4>1, <5>1, <5>2 DEF Stands, SendsAt, ReceivesAt
      <4> QED BY <2>1, <4>2, <4>3, <4>4 DEF Settled
    <3> QED BY <3>1, <3>2, Stutters
  <2>3. CASE Tasks!Next
    <3>1. PICK d \in Device :
            \/ Tasks!Crash(d)
            \/ Tasks!EncryptBegin(d, k) \/ Tasks!EncryptDH(d, k) \/ Tasks!EncryptOpen(d, k)
            \/ Tasks!EncryptHeader(d, k) \/ Tasks!EncryptEnd(d, k)
            \/ Tasks!Seal(d, k) \/ Tasks!Deliver(d, k)
            \/ \E m \in wire : Tasks!DecryptBegin(d, k, m)
            \/ Tasks!TurnMix(d, k) \/ Tasks!TurnWrite(d, k) \/ Tasks!TurnKey(d, k)
            \/ Tasks!DecryptTail(d, k) \/ Tasks!Save(d, k)
      BY <2>1, <2>3, SameHelpers DEF Tasks!Next
    <3>2. CASE Tasks!Crash(d)
      BY <2>1, <3>2, CrashStep
    <3>3. CASE \/ Tasks!EncryptBegin(d, k) \/ Tasks!EncryptDH(d, k) \/ Tasks!EncryptOpen(d, k)
               \/ Tasks!EncryptHeader(d, k) \/ Tasks!EncryptEnd(d, k)
      BY <2>1, <3>3, EncryptSteps
    <3>4. CASE Tasks!Seal(d, k)
      BY <2>1, <3>4, SealIsSend
    <3>5. CASE Tasks!Deliver(d, k)
      BY <2>1, <3>5, DeliverStep
    <3>6. CASE \E m \in wire : Tasks!DecryptBegin(d, k, m)
      BY <2>1, <3>6, DecryptBeginStep
    <3>7. CASE Tasks!TurnMix(d, k) \/ Tasks!TurnWrite(d, k) \/ Tasks!TurnKey(d, k)
      BY <2>1, <3>7, TurnSteps
    <3>8. CASE Tasks!DecryptTail(d, k)
      BY <2>1, <3>8, DecryptTailStep
    <3>9. CASE Tasks!Save(d, k)
      BY <2>1, <3>9, SaveStep
    <3> QED BY <3>1, <3>2, <3>3, <3>4, <3>5, <3>6, <3>7, <3>8, <3>9
  <2> QED BY <2>2, <2>3
<1> QED BY <1>1, <1>2, PTL DEF Tasks!Spec, Tasks!Atomic, Tasks!R!Spec
=============================================================================
