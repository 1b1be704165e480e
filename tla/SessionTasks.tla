---------------------------- MODULE SessionTasks ----------------------------
(***************************************************************************)
(* sendOps and handleIncoming on one ratchet session at the grain of their *)
(* awaits: ratchetEncrypt and ratchetDecrypt read the session object, wait *)
(* for WebCrypto and write it back, and the session is saved to the        *)
(* database afterwards.  Incoming envelopes are handled one at a time      *)
(* (engine.ts, incomingQueue); calls of sendOps are not serialised with    *)
(* each other or with them.  A process may crash between any two steps and *)
(* restarts from the saved session.                                        *)
(*                                                                         *)
(* With one slot a device runs one task at a time, and the module          *)
(* implements Ratchet, whose steps are whole tasks: the step is taken when *)
(* the session is saved.                                                   *)
(***************************************************************************)
EXTENDS Integers, Sequences, FiniteSets

CONSTANTS
  Alice, Bob, Starters, MaxSkippedKeys, MaxSkipPerStep, MaxMessages, NoChain,
  Slots,        (* the tasks a device may have in progress at once            *)
  MaxCrashes    (* bound on the crashes of both devices together              *)

ASSUME SomeSlot == Slots # {}
ASSUME CrashBound == MaxCrashes \in Nat

VARIABLES
  mem,        \* mem[d]: the session object in this.ratchets
  disk,       \* disk[d]: the row of the ratchets table
  task,       \* task[d][k]: where the task in slot k of d stands
  generated,  \* generated[d]: the key pairs d has generated
  sent,       \* sent[d]: the envelopes d has sealed
  network,    \* every envelope ever sealed
  wire,       \* the envelopes still to be handed to their recipient
  opened,     \* opened[d]: the envelopes whose key d derived
  failed, lost, crashes

vars == <<mem, disk, task, generated, sent, network, wire, opened, failed,
          lost, crashes>>

R == INSTANCE Ratchet WITH
       session   <- disk,
       generated <- [d \in {Alice, Bob} |-> disk[d].myKey[2]],
       seen      <- opened

Device == {Alice, Bob}
Idle == [pc |-> "idle"]
At(d, k, pc) == task[d][k].pc = pc
Become(d, k, t) == task' = [task EXCEPT ![d][k] = t]
Set(d, s) == mem' = [mem EXCEPT ![d] = s]

Init ==
  /\ mem = [d \in Device |-> R!InitSession(d)]
  /\ disk = mem
  /\ task = [d \in Device |-> [k \in Slots |-> Idle]]
  /\ generated = [d \in Device |-> 0]
  /\ sent = [d \in Device |-> 0]
  /\ network = {} /\ wire = {}
  /\ opened = [d \in Device |-> {}]
  /\ failed = [d \in Device |-> {}]
  /\ lost = [d \in Device |-> {}]
  /\ crashes = 0

----------------------------------------------------------------------------
(* sendOps                                                                  *)

Sending(d) == {k \in Slots : task[d][k].pc \in
                 {"theirs", "dh", "step", "header", "persist"}}

(* The chain is read at once, or their key first when it has to be opened.  *)
EncryptBegin(d, k) ==
  /\ At(d, k, "idle")
  /\ sent[d] + Cardinality(Sending(d)) < MaxMessages
  /\ d \in Starters \/ mem[d].recvChain # NoChain
  /\ Become(d, k, IF mem[d].sendChain = NoChain
                  THEN [pc |-> "theirs", theirs |-> mem[d].theirKey]
                  ELSE [pc |-> "step", chain |-> mem[d].sendChain])
  /\ UNCHANGED <<mem, disk, generated, sent, network, wire, opened, failed,
                 lost, crashes>>

EncryptDH(d, k) ==
  /\ At(d, k, "theirs")
  /\ Become(d, k, [pc |-> "dh",
                   root |-> R!DhRatchetStep(mem[d].root, mem[d].myKey,
                                            task[d][k].theirs)])
  /\ UNCHANGED <<mem, disk, generated, sent, network, wire, opened, failed,
                 lost, crashes>>

EncryptOpen(d, k) ==
  /\ At(d, k, "dh")
  /\ LET root == task[d][k].root
     IN  /\ Set(d, [mem[d] EXCEPT !.root = root,
                                  !.sendChain = R!ChainFrom(root),
                                  !.prevLen = mem[d].sendN, !.sendN = 0])
         /\ Become(d, k, [pc |-> "step", chain |-> R!ChainFrom(root)])
  /\ UNCHANGED <<disk, generated, sent, network, wire, opened, failed, lost,
                 crashes>>

EncryptHeader(d, k) ==
  /\ At(d, k, "step")
  /\ Become(d, k, [pc |-> "header", chain |-> task[d][k].chain,
                   myKey |-> mem[d].myKey])
  /\ UNCHANGED <<mem, disk, generated, sent, network, wire, opened, failed,
                 lost, crashes>>

(* The chain key that was read is stepped; the number is read only now.     *)
EncryptEnd(d, k) ==
  /\ At(d, k, "header")
  /\ LET t == task[d][k]
     IN  /\ Set(d, [mem[d] EXCEPT !.sendChain = R!StepChain(t.chain, 1),
                                  !.sendN = @ + 1])
         /\ Become(d, k, [pc |-> "persist",
                          header |-> [ratchetKey |-> t.myKey,
                                      num |-> mem[d].sendN,
                                      prev |-> mem[d].prevLen,
                                      key |-> t.chain]])
  /\ UNCHANGED <<disk, generated, sent, network, wire, opened, failed, lost,
                 crashes>>

(* The session is saved, then the envelope sealed, ...                      *)
SealUnsaved(d, k) ==                           \* mutant: sealed without saving
  /\ At(d, k, "persist")
  /\ LET h == task[d][k].header
         m == [from |-> d, id |-> sent[d], ratchetKey |-> h.ratchetKey,
               num |-> h.num, prev |-> h.prev, key |-> h.key]
     IN  network' = network \cup {m} /\ Become(d, k, [pc |-> "deliver", m |-> m])
  /\ sent' = [sent EXCEPT ![d] = @ + 1]
  /\ UNCHANGED <<mem, disk, generated, wire, opened, failed, lost, crashes>>
Seal(d, k) ==
  /\ At(d, k, "persist")
  /\ disk' = [disk EXCEPT ![d] = mem[d]]
  /\ LET h == task[d][k].header
         m == [from |-> d, id |-> sent[d], ratchetKey |-> h.ratchetKey,
               num |-> h.num, prev |-> h.prev, key |-> h.key]
     IN  network' = network \cup {m} /\ Become(d, k, [pc |-> "deliver", m |-> m])
  /\ sent' = [sent EXCEPT ![d] = @ + 1]
  /\ UNCHANGED <<mem, generated, wire, opened, failed, lost, crashes>>

(* ... and handed to a transport or put in the outbox.                      *)
Deliver(d, k) ==
  /\ At(d, k, "deliver")
  /\ wire' = wire \cup {task[d][k].m}
  /\ Become(d, k, Idle)
  /\ UNCHANGED <<mem, disk, generated, sent, network, opened, failed, lost,
                 crashes>>

----------------------------------------------------------------------------
(* handleIncoming.  skipForward's awaits are not separate steps: only the   *)
(* one task that handles incoming envelopes touches the receiving chain.    *)

Receiving(d) == {k \in Slots : task[d][k].pc \in
                   {"turn", "mixed", "tail", "save"}}

Cached(d, m) ==
  {i \in DOMAIN mem[d].skipped :
     mem[d].skipped[i].ratchetKey = m.ratchetKey /\ mem[d].skipped[i].num = m.num}

Fails(d, k, m) ==
  /\ failed' = [failed EXCEPT ![d] = @ \cup {m}]
  /\ Become(d, k, Idle)

GiveUp(d, positions) == lost' = [lost EXCEPT ![d] = @ \cup positions]

DecryptBegin(d, k, m) ==
  /\ At(d, k, "idle") /\ Receiving(d) = {}
  /\ m.from = R!Peer(d)
  /\ wire' = wire \ {m}
  /\ \/ \E i \in Cached(d, m) :                               \* takeSkipped
          /\ \A j \in Cached(d, m) : i <= j
          /\ Set(d, [mem[d] EXCEPT !.skipped = R!RemoveIndex(@, i)])
          /\ Become(d, k, [pc |-> "save", m |-> m,
                           key |-> mem[d].skipped[i].key])
          /\ UNCHANGED <<failed, lost>>
     \/ /\ Cached(d, m) = {}
        /\ m.ratchetKey = mem[d].theirKey /\ mem[d].recvChain # NoChain
        /\ Become(d, k, [pc |-> "tail", m |-> m])
        /\ UNCHANGED <<mem, failed, lost>>
     \/ /\ Cached(d, m) = {}
        /\ m.ratchetKey # mem[d].theirKey \/ mem[d].recvChain = NoChain
        /\ generated[d] < MaxMessages
        /\ IF R!Refuses(mem[d], m.prev)
           THEN /\ Fails(d, k, m)
                /\ GiveUp(d, {<<m.ratchetKey, m.num>>})
                /\ UNCHANGED mem
           ELSE LET s == R!SkipForward(mem[d], m.prev)
                IN  /\ Set(d, R!Capped(s))
                    /\ GiveUp(d, R!Evicted(s.skipped))
                    /\ Become(d, k, [pc |-> "turn", m |-> m])
                    /\ UNCHANGED failed
  /\ UNCHANGED <<disk, generated, sent, network, opened, crashes>>

(* The root and the own key are read, then mixed with the key of the header, *)
TurnMix(d, k) ==
  /\ At(d, k, "turn")
  /\ Become(d, k, [pc |-> "mixed", m |-> task[d][k].m, new |-> FALSE,
                   root |-> R!DhRatchetStep(mem[d].root, mem[d].myKey,
                                            task[d][k].m.ratchetKey)])
  /\ UNCHANGED <<mem, disk, generated, sent, network, wire, opened, failed,
                 lost, crashes>>

(* the chains are replaced,                                                  *)
TurnWrite(d, k) ==
  /\ At(d, k, "mixed") /\ ~task[d][k].new
  /\ LET t == task[d][k]
     IN  /\ Set(d, [mem[d] EXCEPT !.root = t.root,
                                  !.recvChain = R!ChainFrom(t.root),
                                  !.recvN = 0, !.theirKey = t.m.ratchetKey,
                                  !.sendChain = NoChain])
         /\ Become(d, k, [t EXCEPT !.new = TRUE])
  /\ UNCHANGED <<disk, generated, sent, network, wire, opened, failed, lost,
                 crashes>>

(* and only after another await the own key pair.                            *)
TurnKey(d, k) ==
  /\ At(d, k, "mixed") /\ task[d][k].new
  /\ generated' = [generated EXCEPT ![d] = @ + 1]
  /\ Set(d, [mem[d] EXCEPT !.myKey = <<d, generated'[d]>>])
  /\ Become(d, k, [pc |-> "tail", m |-> task[d][k].m])
  /\ UNCHANGED <<disk, sent, network, wire, opened, failed, lost, crashes>>

DecryptTail(d, k) ==
  /\ At(d, k, "tail")
  /\ LET m == task[d][k].m
         s == R!SkipForward(mem[d], m.num)
     IN  IF m.num < mem[d].recvN \/ R!Refuses(mem[d], m.num)
         THEN /\ Fails(d, k, m)
              /\ GiveUp(d, IF m.num < mem[d].recvN THEN {}
                           ELSE {<<m.ratchetKey, m.num>>})
              /\ UNCHANGED mem
         ELSE /\ Set(d, R!Capped(R!TakeNext(s)))
              /\ GiveUp(d, R!Evicted(s.skipped))
              /\ Become(d, k, [pc |-> "save", m |-> m, key |-> s.recvChain])
              /\ UNCHANGED failed
  /\ UNCHANGED <<disk, generated, sent, network, wire, opened, crashes>>

(* The session is saved and the ciphertext opens or does not; the operations *)
(* inside are applied outside this module.                                   *)
Save(d, k) ==
  /\ At(d, k, "save")
  /\ disk' = [disk EXCEPT ![d] = mem[d]]
  /\ LET t == task[d][k]
     IN  IF t.key = t.m.key
         THEN /\ opened' = [opened EXCEPT ![d] = @ \cup {t.m}]
              /\ Become(d, k, Idle)
              /\ UNCHANGED failed
         ELSE Fails(d, k, t.m) /\ UNCHANGED opened
  /\ UNCHANGED <<mem, generated, sent, network, wire, lost, crashes>>

(* The process dies and start() loads the saved session.  A key pair that   *)
(* was not saved is gone with it; its number is used again.                 *)
Crash(d) ==
  /\ crashes < MaxCrashes
  /\ crashes' = crashes + 1
  /\ Set(d, disk[d])
  /\ generated' = [generated EXCEPT ![d] = disk[d].myKey[2]]
  /\ task' = [task EXCEPT ![d] = [k \in Slots |-> Idle]]
  /\ UNCHANGED <<disk, sent, network, wire, opened, failed, lost>>

Next ==
  \E d \in Device :
    \/ Crash(d)
    \/ \E k \in Slots :
         \/ EncryptBegin(d, k) \/ EncryptDH(d, k) \/ EncryptOpen(d, k)
         \/ EncryptHeader(d, k) \/ EncryptEnd(d, k) \/ Seal(d, k)
         \/ Deliver(d, k)
         \/ \E m \in wire : DecryptBegin(d, k, m)
         \/ TurnMix(d, k) \/ TurnWrite(d, k) \/ TurnKey(d, k)
         \/ DecryptTail(d, k) \/ Save(d, k)

Spec == Init /\ [][Next]_vars

----------------------------------------------------------------------------
(* Tasks that run one at a time are the atomic steps of Ratchet, whatever   *)
(* crashes: saving the session before the envelope leaves, and before the   *)
(* plaintext is used, loses nothing and repeats nothing.                    *)
Atomic == R!Spec

(* No two envelopes are sealed with one key.                                *)
KeySingleUse == R!KeySingleUse
=============================================================================
