------------------------- MODULE FileTransferProofs -------------------------
(***************************************************************************)
(* Proofs about the chunked file transfer: what the sender believes of the *)
(* recipient is true, whatever is lost or reordered and whoever crashes    *)
(* between any two database writes, for files of every size.               *)
(***************************************************************************)
EXTENDS FileTransfer, TLAPS

Finishing == {"clear", "record", "notify"}

(* Where the chunks are while the handler is at each of its steps.          *)
Stored ==
  /\ pc # "persist" => mem \subseteq rows \cup Flaky
  /\ pc = "persist" => mem \subseteq rows \cup Flaky \cup {cur}
  /\ pc # "clear" => rows \subseteq mem
  /\ pc \in {"persist", "ack"} => cur \in mem
  /\ pc = "persist" => cur \notin rows

Assembled ==
  /\ object = {} \/ object = Chunk
  /\ pc \in Finishing => object = Chunk /\ mem = {}
  /\ pc = "notify" => record
  /\ NoStrandedFile

(* The application is told once, by the handler that created the object.    *)
Told ==
  /\ fresh => pc \in Finishing /\ received = 0
  /\ received <= 1
  /\ received = 1 => object # {}

(* The inductive invariant.                                                 *)
Core ==
  /\ TypeOK
  /\ Stored
  /\ Assembled
  /\ Told
  /\ AckedIsHeld
  /\ DeliveredIsWhole

ChunkFact == 0 \in Chunk /\ Chunk # {}
-----------------------------------------------------------------------------
(* A file has at least one chunk.                                           *)
LEMMA ChunkExists == ChunkFact
BY SomeChunks DEF ChunkFact, Chunk

(* Nothing was sent at first.                                               *)
LEMMA InitCore == Init => Core
<1> SUFFICES ASSUME Init PROVE Core
  OBVIOUS
<1> USE ChunkExists DEF Init, ChunkFact
<1>1. TypeOK
  BY DEF TypeOK, WholeFile, NoSweep
<1>2. Stored /\ Assembled /\ Told
  BY DEF Stored, Assembled, Told, Finishing, NoStrandedFile
<1>3. AckedIsHeld /\ DeliveredIsWhole
  BY DEF AckedIsHeld, DeliveredIsWhole
<1> QED BY <1>1, <1>2, <1>3 DEF Core

(* Steps of the sender leave the recipient alone and invent no claim.       *)
LEMMA SenderKeeps ==
  ASSUME Core, UNCHANGED recipient, UNCHANGED acks, UNCHANGED notes, TypeOK',
         acked' \subseteq acked, status' # "delivered" \/ status = "delivered"
  PROVE  Core'
<1> USE DEF Core, recipient
<1>1. Stored' /\ Assembled' /\ Told'
  BY DEF Stored, Assembled, Told, NoStrandedFile
<1>2. AckedIsHeld' /\ DeliveredIsWhole'
  BY DEF AckedIsHeld, DeliveredIsWhole
<1> QED BY <1>1, <1>2

(* Counting one more keeps a table of counters.                             *)
LEMMA OneMore ==
  ASSUME NEW f \in [Chunk -> Nat], NEW i
  PROVE  [f EXCEPT ![i] = @ + 1] \in [Chunk -> Nat]
<1> DEFINE g == [f EXCEPT ![i] = f[i] + 1]
<1>1. \A j \in Chunk : g[j] \in Nat
  <2> TAKE j \in Chunk
  <2>1. CASE j = i
    BY <2>1
  <2>2. CASE j # i
    BY <2>2
  <2> QED BY <2>1, <2>2
<1>2. g = [j \in Chunk |-> g[j]]
  OBVIOUS
<1> HIDE DEF g
<1>3. g \in [Chunk -> Nat]
  BY <1>1, <1>2
<1> QED BY <1>3 DEF g

(* The sender's steps keep the types.                                       *)
LEMMA SenderTypes ==
  ASSUME TypeOK,
         SenderStep \/ Retry \/ TimePasses \/ SenderCrashes
  PROVE  TypeOK'
<1> USE DEF TypeOK, recipient, network
<1>1. CASE SendChunk
  <2>1. UNCHANGED <<status, acked, overdue, sweep, resends, retries, acks, notes, crashes>>
        /\ UNCHANGED recipient
    BY <1>1 DEF SendChunk
  <2>2. chunks' \in [Chunk -> Nat]
    <3>1. chunks' = [chunks EXCEPT ![First(task.left)] = @ + 1]
      BY <1>1 DEF SendChunk
    <3> QED BY <3>1, OneMore
  <2>3. task' \in [pc : {"none", "send", "mark"}, left : SUBSET Chunk, live : BOOLEAN]
    <3> DEFINE i == First(task.left)
    <3>1. PICK live \in BOOLEAN :
            task' = [pc   |-> IF task.left # {i} THEN "send"
                              ELSE IF task.live /\ live THEN "mark" ELSE "none",
                     left |-> task.left \ {i},
                     live |-> task.live /\ live]
      BY <1>1 DEF SendChunk
    <3>2. task.left \ {i} \in SUBSET Chunk /\ (task.live /\ live) \in BOOLEAN
      OBVIOUS
    <3>3. (IF task.left # {i} THEN "send"
           ELSE IF task.live /\ live THEN "mark" ELSE "none") \in {"none", "send", "mark"}
      OBVIOUS
    <3> HIDE DEF i
    <3> QED BY <3>1, <3>2, <3>3, Zenon
  <2> QED BY <2>1, <2>2, <2>3
<1>2. CASE MarkSending
  BY <1>2 DEF MarkSending, NoTask
<1>3. CASE SweepRead
  BY <1>3 DEF SweepRead
<1>4. CASE SweepFails
  BY <1>4 DEF SweepFails, NoSweep
<1>5. CASE SweepResends
  <2>1. chunks' \in [Chunk -> Nat]
    <3>1. chunks' = [chunks EXCEPT ![First(sweep.left)] = @ + 1]
      BY <1>5 DEF SweepResends
    <3> QED BY <3>1, OneMore
  <2>2. sweep' \in [pc : {"off", "fail", "resend"}, left : SUBSET Chunk]
    <3> DEFINE i == First(sweep.left)
    <3>1. sweep' = NoSweep \/ sweep' = [sweep EXCEPT !.left = @ \ {i}]
      BY <1>5 DEF SweepResends
    <3> HIDE DEF i
    <3> QED BY <3>1 DEF NoSweep
  <2> QED BY <1>5, <2>1, <2>2 DEF SweepResends
<1>6. CASE Retry
  <2>1. task' \in [pc : {"none", "send", "mark"}, left : SUBSET Chunk, live : BOOLEAN]
    BY <1>6 DEF Retry, WholeFile
  <2>2. /\ status' = "queued" /\ acked' = {} /\ overdue' = FALSE
        /\ retries' \in Nat
        /\ UNCHANGED <<sweep, resends, crashes, chunks, acks, notes>>
        /\ UNCHANGED <<mem, rows, object, record, pc, cur, fresh, received>>
    BY <1>6, BoundsAreNat DEF Retry
  <2> QED BY <2>1, <2>2
<1>7. CASE TimePasses
  BY <1>7 DEF TimePasses
<1>8. CASE SenderCrashes
  <2>1. task' \in [pc : {"none", "send", "mark"}, left : SUBSET Chunk, live : BOOLEAN]
    BY <1>8 DEF SenderCrashes, NoTask
  <2>2. sweep' \in [pc : {"off", "fail", "resend"}, left : SUBSET Chunk]
    BY <1>8 DEF SenderCrashes, NoSweep
  <2> QED BY <1>8, <2>1, <2>2, BoundsAreNat DEF SenderCrashes
<1> QED BY <1>1, <1>2, <1>3, <1>4, <1>5, <1>6, <1>7, <1>8 DEF SenderStep

(* The sender's steps leave the recipient alone.                            *)
LEMMA SenderKeepsCore ==
  ASSUME Core, SenderStep \/ Retry \/ TimePasses \/ SenderCrashes
  PROVE  Core'
<1>1. TypeOK'
  BY SenderTypes DEF Core
<1>2. UNCHANGED recipient /\ UNCHANGED acks /\ UNCHANGED notes
  BY DEF SenderStep, SendChunk, MarkSending, SweepRead, SweepFails, SweepResends,
         Retry, TimePasses, SenderCrashes, network
<1>3. acked' \subseteq acked /\ (status' # "delivered" \/ status = "delivered")
  BY DEF SenderStep, SendChunk, MarkSending, SweepRead, SweepFails, SweepResends,
         Retry, TimePasses, SenderCrashes, sender
<1> QED BY <1>1, <1>2, <1>3, SenderKeeps

-----------------------------------------------------------------------------
(* What arrives at the sender.                                              *)
LEMMA ArrivalKeepsCore ==
  ASSUME Core, (\E i \in Chunk : AckArrives(i)) \/ NoteArrives
  PROVE  Core'
<1> USE DEF Core, recipient
<1>1. CASE \E i \in Chunk : AckArrives(i)
  <2> PICK i \in Chunk : AckArrives(i)
    BY <1>1
  <2>1. /\ acks[i] \in Nat /\ acks[i] > 0 /\ acks' = [acks EXCEPT ![i] = @ - 1]
        /\ acked' = acked \cup {i}
        /\ UNCHANGED <<status, overdue, task, sweep, resends, retries, crashes>>
        /\ UNCHANGED <<chunks, notes>>
        /\ UNCHANGED <<mem, rows, object, record, pc, cur, fresh, received>>
    BY DEF AckArrives, TypeOK
  <2>2. acks' \in [Chunk -> Nat] /\ \A j \in Chunk : acks'[j] > 0 => acks[j] > 0
    BY <2>1 DEF TypeOK
  <2>3. TypeOK'
    BY <2>1, <2>2 DEF TypeOK
  <2>4. Stored' /\ Assembled' /\ Told' /\ DeliveredIsWhole'
    BY <2>1 DEF Stored, Assembled, Told, NoStrandedFile, DeliveredIsWhole
  <2>5. AckedIsHeld'
    BY <2>1, <2>2 DEF AckedIsHeld
  <2> QED BY <2>3, <2>4, <2>5
<1>2. CASE NoteArrives
  <2>1. /\ notes > 0 /\ notes' = notes - 1 /\ status' = "delivered"
        /\ UNCHANGED <<acked, overdue, task, sweep, resends, retries, crashes>>
        /\ UNCHANGED <<chunks, acks>>
        /\ UNCHANGED <<mem, rows, object, record, pc, cur, fresh, received>>
    BY <1>2 DEF NoteArrives
  <2>2. notes' \in Nat
    BY <2>1 DEF TypeOK
  <2>3. TypeOK'
    BY <2>1, <2>2 DEF TypeOK
  <2>4. Stored' /\ Assembled' /\ Told' /\ AckedIsHeld'
    BY <2>1 DEF Stored, Assembled, Told, NoStrandedFile, AckedIsHeld
  <2>5. DeliveredIsWhole'
    BY <2>1 DEF DeliveredIsWhole
  <2> QED BY <2>3, <2>4, <2>5
<1> QED BY <1>1, <1>2

(* A loss leaves both devices alone.                                        *)
LEMMA LossKeepsCore ==
  ASSUME Core, Lose
  PROVE  Core'
<1> USE DEF Core
<1>1. /\ UNCHANGED <<status, acked, overdue, task, sweep, resends, retries, crashes>>
      /\ UNCHANGED <<mem, rows, object, record, pc, cur, fresh, received>>
  BY DEF Lose, sender, recipient
<1>2. /\ chunks' \in [Chunk -> Nat]
      /\ acks' \in [Chunk -> Nat] /\ \A j \in Chunk : acks'[j] > 0 => acks[j] > 0
      /\ notes' \in Nat /\ (notes' > 0 => notes > 0)
  BY DEF Lose, TypeOK
<1>3. TypeOK'
  BY <1>1, <1>2 DEF TypeOK
<1>4. Stored' /\ Assembled' /\ Told'
  BY <1>1 DEF Stored, Assembled, Told, NoStrandedFile
<1>5. AckedIsHeld' /\ DeliveredIsWhole'
  BY <1>1, <1>2 DEF AckedIsHeld, DeliveredIsWhole
<1> QED BY <1>3, <1>4, <1>5

-----------------------------------------------------------------------------
(* The recipient, a step at a time.                                         *)
LEMMA ChunkKeepsCore ==
  ASSUME Core, NEW i \in Chunk, ChunkArrives(i)
  PROVE  Core'
<1> USE DEF Core
<1>1. /\ pc = "idle" /\ chunks[i] \in Nat /\ chunks[i] > 0
      /\ chunks' = [chunks EXCEPT ![i] = @ - 1]
      /\ mem' = mem \cup {i} /\ cur' = i
      /\ pc' = IF i \in mem THEN "ack" ELSE "persist"
      /\ UNCHANGED <<status, acked, overdue, task, sweep, resends, retries, crashes>>
      /\ UNCHANGED <<acks, notes, rows, object, record, fresh, received>>
  BY DEF ChunkArrives, sender, TypeOK
<1>2. chunks' \in [Chunk -> Nat]
  BY <1>1 DEF TypeOK
<1>3. TypeOK'
  BY <1>1, <1>2 DEF TypeOK
<1>4. Stored'
  BY <1>1 DEF Stored
<1>5. Assembled' /\ Told'
  BY <1>1 DEF Assembled, Told, Finishing, NoStrandedFile
<1>6. AckedIsHeld' /\ DeliveredIsWhole'
  BY <1>1 DEF AckedIsHeld, DeliveredIsWhole
<1> QED BY <1>3, <1>4, <1>5, <1>6

(* A chunk is written to the table, or its write fails.                     *)
LEMMA PersistKeepsCore ==
  ASSUME Core, Persist \/ PersistFails
  PROVE  Core'
<1> USE DEF Core
<1>1. CASE Persist
  <2>1. /\ pc = "persist" /\ rows' = rows \cup {cur} /\ pc' = "ack"
        /\ UNCHANGED <<status, acked, overdue, task, sweep, resends, retries, crashes>>
        /\ UNCHANGED <<chunks, acks, notes, mem, object, record, cur, fresh, received>>
    BY <1>1 DEF Persist, WithRow, sender, network
  <2>2. TypeOK'
    BY <2>1 DEF TypeOK
  <2>3. Stored'
    BY <2>1 DEF Stored
  <2>4. Assembled' /\ Told'
    BY <2>1 DEF Assembled, Told, Finishing, NoStrandedFile
  <2>5. AckedIsHeld' /\ DeliveredIsWhole'
    BY <2>1 DEF AckedIsHeld, DeliveredIsWhole
  <2> QED BY <2>2, <2>3, <2>4, <2>5
<1>2. CASE PersistFails
  <2>1. /\ pc = "persist" /\ cur \in Flaky /\ pc' = "idle"
        /\ UNCHANGED <<status, acked, overdue, task, sweep, resends, retries, crashes>>
        /\ UNCHANGED <<chunks, acks, notes, mem, rows, object, record, cur, fresh, received>>
    BY <1>2 DEF PersistFails, sender, network
  <2>2. TypeOK'
    BY <2>1 DEF TypeOK
  <2>3. Stored'
    BY <2>1 DEF Stored
  <2>4. Assembled' /\ Told'
    <3>1. cur \in Chunk /\ cur \notin rows
      BY <2>1 DEF Stored, TypeOK
    <3>2. rows # Chunk
      BY <3>1
    <3> QED BY <2>1, <3>2 DEF Assembled, Told, Finishing, NoStrandedFile
  <2>5. AckedIsHeld' /\ DeliveredIsWhole'
    BY <2>1 DEF AckedIsHeld, DeliveredIsWhole
  <2> QED BY <2>2, <2>3, <2>4, <2>5
<1> QED BY <1>1, <1>2

(* A chunk is acknowledged after its write was tried.                       *)
LEMMA AcknowledgeKeepsCore ==
  ASSUME Core, Acknowledge
  PROVE  Core'
<1> USE DEF Core
<1>1. /\ pc = "ack" /\ pc' = "assemble" /\ cur \in Chunk
      /\ acks' = [acks EXCEPT ![cur] = @ + 1]
      /\ UNCHANGED <<status, acked, overdue, task, sweep, resends, retries, crashes>>
      /\ UNCHANGED <<chunks, notes, mem, rows, object, record, cur, fresh, received>>
  BY DEF Acknowledge, sender, TypeOK
<1>2. acks' \in [Chunk -> Nat]
  BY <1>1, OneMore DEF TypeOK
<1>3. TypeOK'
  BY <1>1, <1>2 DEF TypeOK
<1>4. Stored' /\ Assembled' /\ Told'
  BY <1>1 DEF Stored, Assembled, Told, Finishing, NoStrandedFile
<1>5. AckedIsHeld'
  <2> SUFFICES ASSUME NEW j \in Chunk \ Flaky, j \in acked \/ acks'[j] > 0
               PROVE  j \in rows \/ j \in object
    BY <1>1 DEF AckedIsHeld
  <2>1. CASE j = cur
    BY <2>1, <1>1 DEF Stored
  <2>2. CASE j # cur
    BY <2>2, <1>1 DEF AckedIsHeld, TypeOK
  <2> QED BY <2>1, <2>2
<1>6. DeliveredIsWhole'
  BY <1>1 DEF DeliveredIsWhole
<1> QED BY <1>3, <1>4, <1>5, <1>6

(* An object is assembled only of all chunks.                               *)
LEMMA AssembleKeepsCore ==
  ASSUME Core, Assemble
  PROVE  Core'
<1> USE DEF Core
<1>1. /\ pc = "assemble"
      /\ UNCHANGED <<status, acked, overdue, task, sweep, resends, retries, crashes>>
      /\ UNCHANGED <<chunks, acks, notes, rows, record, cur, received>>
  BY DEF Assemble, sender, network
<1>2. CASE /\ mem = Chunk /\ fresh' = (object = {})
           /\ object' = IF object = {} THEN mem ELSE object
           /\ mem' = {} /\ pc' = "clear"
  <2>1. object' = Chunk
    BY <1>2 DEF Assembled
  <2>2. fresh' \in BOOLEAN
    BY <1>2
  <2>3. TypeOK'
    BY <1>1, <1>2, <2>1, <2>2 DEF TypeOK
  <2>4. Stored' /\ Assembled'
    BY <1>1, <1>2, <2>1 DEF Stored, Assembled, Finishing, NoStrandedFile
  <2>5. Told'
    BY <1>1, <1>2, <2>1, ChunkExists DEF Told, Finishing, TypeOK, ChunkFact
  <2>6. AckedIsHeld' /\ DeliveredIsWhole'
    BY <1>1, <2>1 DEF AckedIsHeld, DeliveredIsWhole
  <2> QED BY <2>3, <2>4, <2>5, <2>6
<1>3. CASE mem # Chunk /\ pc' = "idle" /\ UNCHANGED <<fresh, object, mem>>
  <2>1. TypeOK'
    BY <1>1, <1>3 DEF TypeOK
  <2>2. Stored' /\ Assembled' /\ Told'
    BY <1>1, <1>3 DEF Stored, Assembled, Told, Finishing, NoStrandedFile, TypeOK
  <2>3. AckedIsHeld' /\ DeliveredIsWhole'
    BY <1>1, <1>3 DEF AckedIsHeld, DeliveredIsWhole
  <2> QED BY <2>1, <2>2, <2>3
<1> QED BY <1>2, <1>3 DEF Assemble, Complete, IsNewObject

(* The table is cleared once the object is there.                           *)
LEMMA FinishKeepsCore ==
  ASSUME Core, ClearRows \/ RecordDelivery \/ Notify
  PROVE  Core'
<1> USE DEF Core
<1>1. CASE ClearRows
  <2>1. /\ pc = "clear" /\ rows' = {} /\ pc' = "record"
        /\ UNCHANGED <<status, acked, overdue, task, sweep, resends, retries, crashes>>
        /\ UNCHANGED <<chunks, acks, notes, mem, object, record, cur, fresh, received>>
    BY <1>1 DEF ClearRows, sender, network
  <2>2. TypeOK'
    BY <2>1 DEF TypeOK
  <2>3. Stored' /\ Assembled' /\ Told'
    BY <2>1 DEF Stored, Assembled, Told, Finishing, NoStrandedFile
  <2>4. AckedIsHeld' /\ DeliveredIsWhole'
    BY <2>1 DEF AckedIsHeld, DeliveredIsWhole, Assembled, Finishing
  <2> QED BY <2>2, <2>3, <2>4
<1>2. CASE RecordDelivery
  <2>1. /\ pc = "record" /\ record' = TRUE /\ pc' = "notify"
        /\ UNCHANGED <<status, acked, overdue, task, sweep, resends, retries, crashes>>
        /\ UNCHANGED <<chunks, acks, notes, mem, rows, object, cur, fresh, received>>
    BY <1>2 DEF RecordDelivery, sender, network
  <2>2. TypeOK'
    BY <2>1 DEF TypeOK
  <2>3. Stored' /\ Assembled' /\ Told'
    BY <2>1 DEF Stored, Assembled, Told, Finishing, NoStrandedFile
  <2>4. AckedIsHeld' /\ DeliveredIsWhole'
    BY <2>1 DEF AckedIsHeld, DeliveredIsWhole
  <2> QED BY <2>2, <2>3, <2>4
<1>3. CASE Notify
  <2>1. /\ pc = "notify" /\ notes' = notes + 1 /\ fresh' = FALSE /\ pc' = "idle"
        /\ received' = IF fresh THEN received + 1 ELSE received
        /\ UNCHANGED <<status, acked, overdue, task, sweep, resends, retries, crashes>>
        /\ UNCHANGED <<chunks, acks, mem, rows, object, record, cur>>
    BY <1>3 DEF Notify, sender
  <2>2. notes' \in Nat /\ received' \in Nat
    BY <2>1 DEF TypeOK
  <2>3. TypeOK'
    BY <2>1, <2>2 DEF TypeOK
  <2>4. Stored' /\ Assembled'
    BY <2>1, ChunkExists DEF Stored, Assembled, Finishing, NoStrandedFile, ChunkFact
  <2>5. Told'
    BY <2>1, ChunkExists DEF Told, Assembled, Finishing, TypeOK, ChunkFact
  <2>6. AckedIsHeld' /\ DeliveredIsWhole'
    BY <2>1 DEF AckedIsHeld, DeliveredIsWhole, Assembled, Finishing
  <2> QED BY <2>3, <2>4, <2>5, <2>6
<1> QED BY <1>1, <1>2, <1>3

(* A restart reads the table back into memory.                              *)
LEMMA CrashKeepsCore ==
  ASSUME Core, RecipientCrashes
  PROVE  Core'
<1> USE DEF Core
<1>1. /\ mem' = rows /\ pc' = (IF rows = {} THEN "idle" ELSE "assemble")
      /\ fresh' = FALSE /\ crashes' = crashes + 1
      /\ UNCHANGED <<status, acked, overdue, task, sweep, resends, retries>>
      /\ UNCHANGED <<chunks, acks, notes, rows, object, record, cur, received>>
  BY DEF RecipientCrashes, AfterRestart, sender, network
<1>2. crashes' \in Nat
  BY <1>1 DEF TypeOK
<1>3. TypeOK'
  BY <1>1, <1>2 DEF TypeOK
<1>4. Stored' /\ Assembled' /\ Told'
  BY <1>1, ChunkExists DEF Stored, Assembled, Told, Finishing, NoStrandedFile, ChunkFact
<1>5. AckedIsHeld' /\ DeliveredIsWhole'
  BY <1>1 DEF AckedIsHeld, DeliveredIsWhole
<1> QED BY <1>3, <1>4, <1>5

(* Every step keeps the invariant.                                          *)
LEMMA CoreStep == Core /\ [Next]_vars => Core'
<1> SUFFICES ASSUME Core, [Next]_vars PROVE Core'
  OBVIOUS
<1>1. CASE SenderStep \/ Retry \/ TimePasses \/ SenderCrashes
  BY <1>1, SenderKeepsCore
<1>2. CASE NoteArrives \/ \E i \in Chunk : AckArrives(i)
  BY <1>2, ArrivalKeepsCore
<1>3. CASE Lose
  BY <1>3, LossKeepsCore
<1>4. CASE \E i \in Chunk : ChunkArrives(i)
  BY <1>4, ChunkKeepsCore
<1>5. CASE Persist \/ PersistFails
  BY <1>5, PersistKeepsCore
<1>6. CASE Acknowledge
  BY <1>6, AcknowledgeKeepsCore
<1>7. CASE Assemble
  BY <1>7, AssembleKeepsCore
<1>8. CASE ClearRows \/ RecordDelivery \/ Notify
  BY <1>8, FinishKeepsCore
<1>9. CASE RecipientCrashes
  BY <1>9, CrashKeepsCore
<1>10. CASE UNCHANGED vars
  BY <1>10 DEF vars, sender, recipient, network, Core, TypeOK, Stored, Assembled,
     Told, AckedIsHeld, DeliveredIsWhole, NoStrandedFile
<1> QED BY <1>1, <1>2, <1>3, <1>4, <1>5, <1>6, <1>7, <1>8, <1>9, <1>10
        DEF Next, RecipientStep

(* The inductive invariant holds always.                                    *)
THEOREM CoreAlways == Spec => []Core
<1>1. Init => Core
  BY InitCore
<1>2. Core /\ [Next]_vars => Core'
  BY CoreStep
<1> QED BY <1>1, <1>2, PTL DEF Spec

(* Both devices' state is well typed.                                       *)
THEOREM TypeCorrect == Spec => []TypeOK
BY CoreAlways, PTL DEF Core

(* An acknowledged chunk whose write cannot fail is in the recipient's      *)
(* database, whatever is lost and whoever crashes.                          *)
THEOREM AcksAreTruthful == Spec => []AckedIsHeld
BY CoreAlways, PTL DEF Core

(* A file shown as delivered is whole and recorded at the recipient.        *)
THEOREM DeliveryIsTruthful == Spec => []DeliveredIsWhole
BY CoreAlways, PTL DEF Core

(* No complete file waits in the chunk table for ever.                      *)
THEOREM NothingIsStranded == Spec => []NoStrandedFile
<1>1. Core => NoStrandedFile
  BY DEF Core, Assembled
<1> QED BY <1>1, CoreAlways, PTL

(* The application hears of the file at most once.                          *)
THEOREM FileIsReceivedOnce == Spec => []ReceivedOnce
<1>1. Core => ReceivedOnce
  BY DEF Core, Told, ReceivedOnce
<1> QED BY <1>1, CoreAlways, PTL

=============================================================================
