------------------------------ MODULE Ratchet ------------------------------
(***************************************************************************)
(* The Double Ratchet session between two devices                          *)
(* (packages/crypto/src/ratchet.ts) as MeshEngine drives it                *)
(* (packages/sync/src/engine.ts, sendOps and handleIncoming).              *)
(*                                                                         *)
(* Cryptography is symbolic.  A key pair is <<device, n>>, n = 0 being the *)
(* identity key; a Diffie-Hellman result is the set of the two key pairs;  *)
(* a root key is the sequence of the results mixed into it, the bootstrap  *)
(* root being <<>>.  A chain key, and the message key derived from it, is  *)
(* the root that began the chain with a position on it.  Two keys are the  *)
(* same exactly when they are the same term, and an envelope opens exactly *)
(* with the key that sealed it.                                            *)
(*                                                                         *)
(* The network keeps every envelope ever sent: one that stays there for    *)
(* ever was lost, envelopes arrive in any order, and one handled without   *)
(* being opened may come again.  An envelope already in the seen table is  *)
(* dropped without effect, which is a stuttering step.                     *)
(***************************************************************************)
EXTENDS Integers, Sequences

CONSTANTS
  Alice, Bob,      (* the two devices                                          *)
  Starters,        (* devices that send before they have received anything     *)
  MaxSkippedKeys,  (* MAX_SKIPPED_KEYS                                         *)
  MaxSkipPerStep,  (* MAX_SKIP_PER_STEP                                        *)
  MaxMessages,     (* bound: envelopes each device sends, and so chains a      *)
                   (* device can be made to follow                             *)
  NoChain          (* the null chain key                                       *)

ASSUME DevicesAreDistinct == Alice # Bob
ASSUME StartersAreDevices == Starters \subseteq {Alice, Bob}
ASSUME CapsAreNat == MaxSkippedKeys \in Nat /\ MaxSkipPerStep \in Nat
ASSUME BoundIsNat == MaxMessages \in Nat

Device == {Alice, Bob}
Peer(d) == IF d = Alice THEN Bob ELSE Alice

KeyPair  == Device \X Nat
Identity(d) == <<d, 0>>
DH(k, l) == {k, l}
Root     == Seq(SUBSET KeyPair)
ChainKey == [root : Root, pos : Nat]

ASSUME NoChainIsNoKey == NoChain \notin ChainKey

SkippedKey == [ratchetKey : KeyPair, num : Nat, key : ChainKey]

Session ==
  [root      : Root,                   \* rootKey
   myKey     : KeyPair,                \* myRatchetKeyPair
   theirKey  : KeyPair,                \* theirRatchetPublicKeyB64
   sendChain : ChainKey \cup {NoChain},
   recvChain : ChainKey \cup {NoChain},
   sendN     : Nat,                    \* sendMessageNumber
   recvN     : Nat,                    \* recvMessageNumber
   prevLen   : Nat,                    \* previousSendChainLength
   skipped   : Seq(SkippedKey)]

(* An envelope: sender, its number among the sender's envelopes, the three
   header fields, and the key its ciphertext was sealed with.               *)
Envelope ==
  [from : Device, id : Nat, ratchetKey : KeyPair, num : Nat, prev : Nat,
   key : ChainKey]

VARIABLES
  session,    \* session[d]: the ratchet session d keeps with its peer
  generated,  \* generated[d]: how many fresh key pairs d has generated
  sent,       \* sent[d]: how many envelopes d has sent
  network,    \* every envelope sent
  seen,       \* seen[d]: envelopes d opened (the seen table)
  failed,     \* history: failed[d], envelopes d handled and could not open
  lost        \* history: lost[d], header positions given up to a cap

vars == <<session, generated, sent, network, seen, failed, lost>>

----------------------------------------------------------------------------
(* Helpers of ratchet.ts                                                    *)

InitSession(d) ==
  [root |-> <<>>, myKey |-> Identity(d), theirKey |-> Identity(Peer(d)),
   sendChain |-> NoChain, recvChain |-> NoChain,
   sendN |-> 0, recvN |-> 0, prevLen |-> 0, skipped |-> <<>>]

(* One DH step: the new root, which also names the chain that it begins.   *)
DhRatchetStep(root, mine, theirs) == Append(root, DH(mine, theirs))

ChainFrom(root) == [root |-> root, pos |-> 0]
ChainStaysPut(chain, n) == chain                    \* mutant: key not advanced
StepChain(chain, n) == [chain EXCEPT !.pos = @ + n]

(* The cache after more entries: the oldest are shifted out over the cap.  *)
Overflow(keys) ==
  IF Len(keys) > MaxSkippedKeys THEN Len(keys) - MaxSkippedKeys ELSE 0
KeepEverySkipped(keys) == keys                      \* mutant: no cap
PushSkipped(keys) == SubSeq(keys, Overflow(keys) + 1, Len(keys))
Evicted(keys) ==
  {<<keys[i].ratchetKey, keys[i].num>> : i \in 1..Overflow(keys)}

KeepTakenKey(keys, i) == keys                       \* mutant: no splice
RemoveIndex(keys, i) ==
  [j \in 1..(Len(keys) - 1) |-> IF j < i THEN keys[j] ELSE keys[j + 1]]

Refuses(s, upTo) == s.recvChain # NoChain /\ upTo - s.recvN > MaxSkipPerStep

(* skipForward before the cap is applied to the cache.                     *)
SkipForward(s, upTo) ==
  IF s.recvChain = NoChain \/ upTo <= s.recvN THEN s
  ELSE LET count == upTo - s.recvN
           entry(i) == [ratchetKey |-> s.theirKey, num |-> s.recvN + i - 1,
                        key |-> StepChain(s.recvChain, i - 1)]
       IN  [s EXCEPT !.skipped   = @ \o [i \in 1..count |-> entry(i)],
                     !.recvChain = StepChain(@, count),
                     !.recvN     = upTo]

Capped(s) == [s EXCEPT !.skipped = PushSkipped(@)]

(* The sending half of a session: a DH step when there is no sending chain *)
ForgetPrevLen(s) ==                     \* mutant: prevLen keeps its old value
  IF s.sendChain # NoChain THEN s
  ELSE LET root == DhRatchetStep(s.root, s.myKey, s.theirKey)
       IN  [s EXCEPT !.root = root, !.sendChain = ChainFrom(root), !.sendN = 0]
OpenSendChain(s) ==
  IF s.sendChain # NoChain THEN s
  ELSE LET root == DhRatchetStep(s.root, s.myKey, s.theirKey)
       IN  [s EXCEPT !.root = root, !.sendChain = ChainFrom(root),
                     !.prevLen = s.sendN, !.sendN = 0]

(* The receiving half: a DH step towards the ratchet key of the header,    *)
(* which also rolls the own key pair over and closes the sending chain.    *)
KeepKeyPair(s, theirs, fresh) ==            \* mutant: the key pair is kept
  LET root == DhRatchetStep(s.root, s.myKey, theirs)
  IN  [s EXCEPT !.root = root, !.theirKey = theirs, !.sendChain = NoChain,
                !.recvChain = ChainFrom(root), !.recvN = 0]
OpenRecvChain(s, theirs, fresh) ==
  LET root == DhRatchetStep(s.root, s.myKey, theirs)
  IN  [root |-> root, myKey |-> fresh, theirKey |-> theirs,
       sendChain |-> NoChain, recvChain |-> ChainFrom(root),
       sendN |-> s.sendN, recvN |-> 0, prevLen |-> s.prevLen,
       skipped |-> s.skipped]

ForgetPosition(s) ==                        \* mutant: recvN not advanced
  [s EXCEPT !.recvChain = StepChain(@, 1)]
TakeNext(s) == [s EXCEPT !.recvChain = StepChain(@, 1), !.recvN = @ + 1]

----------------------------------------------------------------------------
Init ==
  /\ session = [d \in Device |-> InitSession(d)]
  /\ generated = [d \in Device |-> 0]
  /\ sent = [d \in Device |-> 0]
  /\ network = {}
  /\ seen = [d \in Device |-> {}]
  /\ failed = [d \in Device |-> {}]
  /\ lost = [d \in Device |-> {}]

(* sendOps: ratchetEncrypt, persist, seal, hand to a transport or the outbox *)
Send(d) ==
  /\ sent[d] < MaxMessages
  /\ d \in Starters \/ session[d].recvChain # NoChain
  /\ LET s == OpenSendChain(session[d])
     IN  /\ network' = network \cup
              {[from |-> d, id |-> sent[d], ratchetKey |-> s.myKey,
                num |-> s.sendN, prev |-> s.prevLen, key |-> s.sendChain]}
         /\ session' = [session EXCEPT ![d] =
              [s EXCEPT !.sendChain = StepChain(@, 1), !.sendN = @ + 1]]
  /\ sent' = [sent EXCEPT ![d] = @ + 1]
  /\ UNCHANGED <<generated, seen, failed, lost>>

(* An envelope that reaches the ratchet: addressed to d, authentic, unseen. *)
Arrives(d, m) == m.from = Peer(d) /\ m \notin seen[d]

CachedAt(d, m) ==
  {i \in DOMAIN session[d].skipped :
     /\ session[d].skipped[i].ratchetKey = m.ratchetKey
     /\ session[d].skipped[i].num = m.num}

OnCurrentChain(d, m) ==
  m.ratchetKey = session[d].theirKey /\ session[d].recvChain # NoChain

(* The session is persisted, then the ciphertext opens or does not.         *)
Unseal(d, m, s, key) ==
  /\ session' = [session EXCEPT ![d] = s]
  /\ IF key = m.key
     THEN seen' = [seen EXCEPT ![d] = @ \cup {m}] /\ UNCHANGED failed
     ELSE failed' = [failed EXCEPT ![d] = @ \cup {m}] /\ UNCHANGED seen

(* ratchetDecrypt throws: nothing was opened, s is what it left behind.     *)
Throw(d, m, s) ==
  /\ session' = [session EXCEPT ![d] = s]
  /\ failed' = [failed EXCEPT ![d] = @ \cup {m}]
  /\ UNCHANGED seen

GiveUp(d, positions) == lost' = [lost EXCEPT ![d] = @ \cup positions]

(* takeSkipped finds the key.                                               *)
ReceiveSkipped(d, m) ==
  /\ Arrives(d, m)
  /\ \E i \in CachedAt(d, m) :
       /\ \A j \in CachedAt(d, m) : i <= j
       /\ Unseal(d, m,
                 [session[d] EXCEPT !.skipped = RemoveIndex(@, i)],
                 session[d].skipped[i].key)
  /\ UNCHANGED <<generated, sent, network, lost>>

(* The common tail of ratchetDecrypt on receiving chain s.                  *)
ReceiveOn(d, m, s) ==
  IF m.num < s.recvN \/ Refuses(s, m.num)
  THEN /\ Throw(d, m, Capped(s))
       /\ GiveUp(d, Evicted(s.skipped) \cup
            IF m.num < s.recvN THEN {} ELSE {<<m.ratchetKey, m.num>>})
  ELSE LET t == SkipForward(s, m.num)
       IN  /\ Unseal(d, m, Capped(TakeNext(t)), t.recvChain)
           /\ GiveUp(d, Evicted(t.skipped))

ReceiveCurrent(d, m) ==
  /\ Arrives(d, m)
  /\ CachedAt(d, m) = {}
  /\ OnCurrentChain(d, m)
  /\ ReceiveOn(d, m, session[d])
  /\ UNCHANGED <<generated, sent, network>>

(* Another ratchet key, or nothing received yet: drain, then a DH step.     *)
ReceiveTurn(d, m) ==
  /\ Arrives(d, m)
  /\ CachedAt(d, m) = {}
  /\ ~OnCurrentChain(d, m)
  /\ generated[d] < MaxMessages
  /\ IF Refuses(session[d], m.prev)
     THEN /\ Throw(d, m, session[d])
          /\ GiveUp(d, {<<m.ratchetKey, m.num>>})
          /\ UNCHANGED generated
     ELSE /\ generated' = [generated EXCEPT ![d] = @ + 1]
          /\ ReceiveOn(d, m,
               OpenRecvChain(SkipForward(session[d], m.prev),
                             m.ratchetKey, <<d, generated'[d]>>))
  /\ UNCHANGED <<sent, network>>

Next ==
  \E d \in Device :
    \/ Send(d)
    \/ \E m \in network :
         ReceiveSkipped(d, m) \/ ReceiveCurrent(d, m) \/ ReceiveTurn(d, m)

Spec == Init /\ [][Next]_vars

----------------------------------------------------------------------------
TypeOK ==
  /\ session \in [Device -> Session]
  /\ generated \in [Device -> Nat]
  /\ sent \in [Device -> Nat]
  /\ network \subseteq Envelope
  /\ seen \in [Device -> SUBSET network]
  /\ failed \in [Device -> SUBSET network]
  /\ lost \in [Device -> SUBSET (KeyPair \X Nat)]
  /\ \A d \in Device : Len(session[d].skipped) <= MaxSkippedKeys

(* Whatever is lost, reordered or repeated on the way, a device opens every *)
(* envelope that reaches it, as long as no cap of the skipped-key cache has *)
(* been hit: ratchetDecrypt finds the key ratchetEncrypt used.              *)
WithinCaps == \A d \in Device : lost[d] = {}
InSync == WithinCaps => \A d \in Device : failed[d] = {}

(* "Each envelope its own single-use encryption key" (ratchet.ts:5-6): no   *)
(* two envelopes of the pair, in either direction, are sealed with one key. *)
KeySingleUse == \A m, n \in network : m.key = n.key => m = n

(* What a device can still compute from the session it stores: positions at *)
(* or after its chain keys, the cached keys, and chains that begin from its *)
(* root key with the private key it holds.                                  *)
OnChain(chain, key) ==
  chain # NoChain /\ chain.root = key.root /\ chain.pos <= key.pos

Derivable(s, key) ==
  \/ OnChain(s.sendChain, key)
  \/ OnChain(s.recvChain, key)
  \/ \E i \in DOMAIN s.skipped : s.skipped[i].key = key
  \/ /\ Len(key.root) > Len(s.root)
     /\ SubSeq(key.root, 1, Len(s.root)) = s.root
     /\ \A j \in (Len(s.root) + 1)..Len(key.root) : s.myKey \in key.root[j]

(* Forward secrecy (Security.md 102): a key that sealed or opened an        *)
(* envelope is not reconstructible from the later state of that device.     *)
ForwardSecrecy ==
  \A d \in Device : \A m \in network :
    m.from = d \/ m \in seen[d] => ~Derivable(session[d], m.key)

(* The session heals after one round trip (ratchet.ts:24-28): once a device *)
(* has opened an envelope of its peer, what it sends is keyed by a DH       *)
(* result in which its own half is fresh, never its identity key.           *)
Healed ==
  \A d \in Device : seen[d] # {} =>
    /\ session[d].myKey # Identity(d)
    /\ session[d].sendChain # NoChain =>
         LET r == session[d].sendChain.root
         IN  Identity(d) \notin r[Len(r)]

(* Security.md 118: a message skipped beyond the cap, or whose slot was     *)
(* evicted, is unrecoverable; every other message still opens.              *)
OnlyCappedAreLost ==
  \A d \in Device : \A m \in failed[d] : <<m.ratchetKey, m.num>> \in lost[d]
=============================================================================
