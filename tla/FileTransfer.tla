---------------------------- MODULE FileTransfer ----------------------------
(***************************************************************************)
(* The chunked transfer of one file from one device to another             *)
(* (packages/sync/src/engine.ts): sendObject and retryDelivery send the    *)
(* chunks, the recipient stores and acknowledges each one and assembles    *)
(* the object when it has them all, and the sender's sweep resends what    *)
(* was not acknowledged or gives the transfer up.                          *)
(*                                                                         *)
(* Every database write is a step, so that a device may crash between any  *)
(* two of them; a crash includes the restart.  An envelope is counted from *)
(* the moment it is sealed, in an outbox or on the way; it arrives at most *)
(* once (the seen table), in any order, or never.  The timeouts are        *)
(* abstracted to when they may fire: a resend at any time, giving up from  *)
(* the moment the transfer is overdue.                                     *)
(***************************************************************************)
EXTENDS Integers

CONSTANTS
  N,             (* totalChunks                                              *)
  Flaky,         (* the chunks whose writes may fail                         *)
  MaxResends,    (* bound: rounds of resending                               *)
  MaxRetries,    (* bound: retries by the user                               *)
  MaxCrashes     (* bound: crashes, of either device                         *)

ASSUME SomeChunks == N \in Nat /\ N > 0
ASSUME FlakyAreChunks == Flaky \subseteq 0..(N - 1)
ASSUME BoundsAreNat ==
  MaxResends \in Nat /\ MaxRetries \in Nat /\ MaxCrashes \in Nat

Chunk == 0..(N - 1)

VARIABLES
  (* the sender's row of the deliveries table                                *)
  status, acked,
  overdue,   \* more than FILE_TRANSFER_FAIL_MS have passed since createdAt
  (* the sender's tasks                                                      *)
  task,      \* sendObject or retryDelivery: the chunks left to send, and
             \* whether all so far went out live
  sweep,     \* retryStalledFileTransfers: what it does with what it read
  resends, retries, crashes,
  (* envelopes under way                                                     *)
  chunks,    \* chunks[i]: FILE_CHUNK envelopes with chunk i
  acks,      \* acks[i]: FILE_CHUNK_ACK envelopes for chunk i
  notes,     \* MARK_DELIVERED envelopes
  (* the recipient                                                           *)
  mem,       \* the chunks in its incomingChunks entry
  rows,      \* the chunks in its fileChunks table
  object,    \* the chunks its object was assembled from, none yet being {}
  record,    \* whether its deliveries table has the row of this file
  pc, cur,   \* where its handler stands, and with which chunk
  fresh,     \* whether the handler has created the object
  received   \* history: how often onObjectReceived was called

sender    == <<status, acked, overdue, task, sweep, resends, retries>>
recipient == <<mem, rows, object, record, pc, cur, fresh, received>>
network   == <<chunks, acks, notes>>
vars      == <<sender, recipient, network, crashes>>

NoTask == [pc |-> "none", left |-> {}, live |-> TRUE]
OneTooMany == [pc |-> "send", left |-> 0..N, live |-> TRUE]   \* mutant: off by one
WholeFile == [pc |-> "send", left |-> Chunk, live |-> TRUE]
NoSweep == [pc |-> "off", left |-> {}]
First(left) == CHOOSE i \in left : \A j \in left : i <= j

(* sendObject has added the delivery and is about to send the first chunk.  *)
Init ==
  /\ status = "queued" /\ acked = {} /\ overdue = FALSE
  /\ task = WholeFile /\ sweep = NoSweep
  /\ resends = 0 /\ retries = 0 /\ crashes = 0
  /\ chunks = [i \in Chunk |-> 0] /\ acks = [i \in Chunk |-> 0] /\ notes = 0
  /\ mem = {} /\ rows = {} /\ object = {} /\ record = FALSE
  /\ pc = "idle" /\ cur = 0 /\ fresh = FALSE /\ received = 0

----------------------------------------------------------------------------
(* The sender                                                               *)

(* One round of the loop of sendFileChunks, live or into the outbox.        *)
SendChunk ==
  /\ task.pc = "send"
  /\ LET i == First(task.left)
     IN  /\ chunks' = [chunks EXCEPT ![i] = @ + 1]
         /\ \E live \in BOOLEAN :
              task' = [pc   |-> IF task.left # {i} THEN "send"
                                ELSE IF task.live /\ live THEN "mark" ELSE "none",
                       left |-> task.left \ {i},
                       live |-> task.live /\ live]
  /\ UNCHANGED <<status, acked, overdue, sweep, resends, retries, acks, notes,
                 recipient, crashes>>

(* Everything went out live: the status is written, whatever it is by now.  *)
MarkSending ==
  /\ task.pc = "mark"
  /\ status' = "sending"
  /\ task' = NoTask
  /\ UNCHANGED <<acked, overdue, sweep, resends, retries, network, recipient,
                 crashes>>

(* retryDelivery: a failed transfer starts again from nothing.              *)
Retry ==
  /\ status = "failed" /\ task.pc = "none"
  /\ retries < MaxRetries /\ retries' = retries + 1
  /\ status' = "queued" /\ acked' = {} /\ overdue' = FALSE
  /\ task' = WholeFile
  /\ UNCHANGED <<sweep, resends, network, recipient, crashes>>

(* retryStalledFileTransfers reads the rows that are "sending" and goes     *)
(* through them one after the other: by the time it comes to this one, what *)
(* it read may be old.                                                      *)
NeverOverdue == FALSE                          \* mutant: it never gives up
IsOverdue == overdue
SweepRead ==
  /\ sweep.pc = "off"
  /\ status = "sending" /\ acked # Chunk
  /\ \/ /\ IsOverdue
        /\ sweep' = [pc |-> "fail", left |-> {}]
        /\ UNCHANGED resends
     \/ /\ ~IsOverdue
        /\ resends < MaxResends /\ resends' = resends + 1
        /\ sweep' = [pc |-> "resend", left |-> Chunk \ acked]
  /\ UNCHANGED <<status, acked, overdue, task, retries, network, recipient,
                 crashes>>

SweepFails ==
  /\ sweep.pc = "fail"
  /\ status' = "failed" /\ sweep' = NoSweep
  /\ UNCHANGED <<acked, overdue, task, resends, retries, network, recipient,
                 crashes>>

SweepResends ==
  /\ sweep.pc = "resend"
  /\ LET i == First(sweep.left)
     IN  /\ chunks' = [chunks EXCEPT ![i] = @ + 1]
         /\ sweep' = IF sweep.left = {i} THEN NoSweep
                     ELSE [sweep EXCEPT !.left = @ \ {i}]
  /\ UNCHANGED <<status, acked, overdue, task, resends, retries, acks, notes,
                 recipient, crashes>>

TimePasses ==
  /\ ~overdue /\ overdue' = TRUE
  /\ UNCHANGED <<status, acked, task, sweep, resends, retries, network,
                 recipient, crashes>>

(* FILE_CHUNK_ACK and MARK_DELIVERED arrive.                                *)
AckArrives(i) ==
  /\ acks[i] > 0 /\ acks' = [acks EXCEPT ![i] = @ - 1]
  /\ acked' = acked \cup {i}
  /\ UNCHANGED <<status, overdue, task, sweep, resends, retries, chunks, notes,
                 recipient, crashes>>

NoteArrives ==
  /\ notes > 0 /\ notes' = notes - 1
  /\ status' = "delivered"
  /\ UNCHANGED <<acked, overdue, task, sweep, resends, retries, chunks, acks,
                 recipient, crashes>>

SenderCrashes ==
  /\ crashes < MaxCrashes /\ crashes' = crashes + 1
  /\ task' = NoTask /\ sweep' = NoSweep
  /\ UNCHANGED <<status, acked, overdue, resends, retries, network, recipient>>

----------------------------------------------------------------------------
(* The recipient: the handler of FILE_CHUNK, a database write at a time     *)

ChunkArrives(i) ==
  /\ pc = "idle"
  /\ chunks[i] > 0 /\ chunks' = [chunks EXCEPT ![i] = @ - 1]
  /\ mem' = mem \cup {i} /\ cur' = i
  /\ pc' = IF i \in mem THEN "ack" ELSE "persist"
  /\ UNCHANGED <<sender, acks, notes, rows, object, record, fresh, received,
                 crashes>>

KeepInMemory(i) == rows                        \* mutant: nothing is written
WithRow(i) == rows \cup {i}
Persist ==
  /\ pc = "persist"
  /\ rows' = WithRow(cur) /\ pc' = "ack"
  /\ UNCHANGED <<sender, network, mem, object, record, cur, fresh, received,
                 crashes>>

(* The write fails and the handler throws; the entry keeps the chunk.       *)
PersistFails ==
  /\ pc = "persist" /\ cur \in Flaky
  /\ pc' = "idle"
  /\ UNCHANGED <<sender, network, mem, rows, object, record, cur, fresh, received,
                 crashes>>

Acknowledge ==
  /\ pc = "ack"
  /\ acks' = [acks EXCEPT ![cur] = @ + 1] /\ pc' = "assemble"
  /\ UNCHANGED <<sender, chunks, notes, mem, rows, object, record, cur, fresh,
                 received, crashes>>

(* The entry is complete when it has every chunk; the meta data came with   *)
(* chunk 0.                                                                 *)
OneMissing == 0 \in mem /\ \E i \in Chunk : mem \cup {i} = Chunk  \* mutant
Complete == mem = Chunk
CreateAlways == TRUE                           \* mutant: no look at the table
IsNewObject == object = {}
Assemble ==
  /\ pc = "assemble"
  /\ \/ /\ Complete
        /\ fresh' = IsNewObject
        /\ object' = IF IsNewObject THEN mem ELSE object
        /\ mem' = {} /\ pc' = "clear"
     \/ /\ ~Complete
        /\ pc' = "idle"
        /\ UNCHANGED <<fresh, object, mem>>
  /\ UNCHANGED <<sender, network, rows, record, cur, received, crashes>>

ClearRows ==
  /\ pc = "clear"
  /\ rows' = {} /\ pc' = "record"
  /\ UNCHANGED <<sender, network, mem, object, record, cur, fresh, received,
                 crashes>>

(* recordIncomingDelivery, and the callback of the application.             *)
RecordDelivery ==
  /\ pc = "record"
  /\ record' = TRUE /\ pc' = "notify"
  /\ UNCHANGED <<sender, network, mem, rows, object, cur, fresh, received, crashes>>

Notify ==
  /\ pc = "notify"
  /\ notes' = notes + 1
  /\ received' = IF fresh THEN received + 1 ELSE received
  /\ fresh' = FALSE /\ pc' = "idle"
  /\ UNCHANGED <<sender, chunks, acks, mem, rows, object, record, cur, crashes>>

(* start() reads the stored chunks back and goes through the same end of    *)
(* the handler (finishIncomingFileIfComplete) before any envelope comes in. *)
RestIdle == "idle"                          \* mutant: no look at what is there
AfterRestart == IF rows = {} THEN "idle" ELSE "assemble"
RecipientCrashes ==
  /\ crashes < MaxCrashes /\ crashes' = crashes + 1
  /\ mem' = rows /\ pc' = AfterRestart /\ fresh' = FALSE
  /\ UNCHANGED <<sender, network, rows, object, record, cur, received>>

----------------------------------------------------------------------------
(* An envelope is lost.                                                     *)
Lose ==
  /\ \/ \E i \in Chunk : chunks[i] > 0 /\ chunks' = [chunks EXCEPT ![i] = @ - 1]
                         /\ UNCHANGED <<acks, notes>>
     \/ \E i \in Chunk : acks[i] > 0 /\ acks' = [acks EXCEPT ![i] = @ - 1]
                         /\ UNCHANGED <<chunks, notes>>
     \/ notes > 0 /\ notes' = notes - 1 /\ UNCHANGED <<chunks, acks>>
  /\ UNCHANGED <<sender, recipient, crashes>>

SenderStep == SendChunk \/ MarkSending \/ SweepRead \/ SweepFails \/ SweepResends
RecipientStep ==
  Persist \/ Acknowledge \/ Assemble \/ ClearRows \/ RecordDelivery \/ Notify

Next ==
  \/ SenderStep \/ RecipientStep \/ PersistFails
  \/ Retry \/ TimePasses \/ NoteArrives \/ Lose
  \/ \E i \in Chunk : AckArrives(i) \/ ChunkArrives(i)
  \/ SenderCrashes \/ RecipientCrashes

Spec == Init /\ [][Next]_vars

(* Both event loops go on, the sweep timer comes round, and time passes;    *)
(* nothing is assumed of the network or the user.                           *)
FairSpec ==
  Spec /\ WF_vars(SenderStep) /\ WF_vars(RecipientStep) /\ WF_vars(TimePasses)

----------------------------------------------------------------------------
TypeOK ==
  /\ status \in {"queued", "sending", "delivered", "failed"}
  /\ acked \in SUBSET Chunk /\ overdue \in BOOLEAN
  /\ task \in [pc : {"none", "send", "mark"}, left : SUBSET Chunk, live : BOOLEAN]
  /\ sweep \in [pc : {"off", "fail", "resend"}, left : SUBSET Chunk]
  /\ resends \in Nat /\ retries \in Nat /\ crashes \in Nat
  /\ chunks \in [Chunk -> Nat] /\ acks \in [Chunk -> Nat] /\ notes \in Nat
  /\ mem \in SUBSET Chunk /\ rows \in SUBSET Chunk /\ object \in SUBSET Chunk
  /\ record \in BOOLEAN /\ fresh \in BOOLEAN
  /\ pc \in {"idle", "persist", "ack", "assemble", "clear", "record", "notify"}
  /\ cur \in Chunk /\ received \in Nat

(* "Sent by the receiver immediately after it durably persists a chunk"     *)
(* (protocol/src/operations.ts:129): a chunk the sender counts as landed is *)
(* in the recipient's database, by itself or in the object.  The exception  *)
(* is a chunk whose write may fail: the entry in memory keeps it, and sent  *)
(* again it is acknowledged as a duplicate.                                 *)
AckedIsHeld ==
  \A i \in Chunk \ Flaky :
    i \in acked \/ acks[i] > 0 => i \in rows \/ i \in object

(* Not so when a write has failed.                                          *)
AckedIsStored ==
  \A i \in Chunk : i \in acked \/ acks[i] > 0 => i \in rows \/ i \in object

(* A transfer shown as delivered: the recipient has every chunk of it in    *)
(* the object and a delivery row to act on.                                 *)
DeliveredIsWhole ==
  status = "delivered" \/ notes > 0 => object = Chunk /\ record

(* No crash leaves a file in the table with every chunk there and nobody    *)
(* to assemble it: no further chunk would ever come.                        *)
NoStrandedFile == ~(pc = "idle" /\ rows = Chunk)

(* The application hears of the file at most once, over every resend, retry *)
(* and restart.                                                             *)
ReceivedOnce == received <= 1

(* A transfer that misses an acknowledgement does not stay "sending".       *)
GivesUp ==
  status = "sending" /\ acked # Chunk ~> status # "sending" \/ acked = Chunk

(* "... instead of hanging as Sending forever" (engine.ts:56-58).           *)
NeverHangs == status = "sending" ~> status # "sending"

(* Created, Queued, Sending, Delivered, Opened (docs/Architecture.md:64):   *)
(* what was delivered is not sending or failed afterwards.                  *)
NeverBackwards == [][status = "delivered" => status' = "delivered"]_vars

(* "rows are deleted once the file finishes reassembling into a MeshObject" *)
(* (storage/src/db.ts:58-59).                                               *)
RowsAreDeleted == pc = "idle" /\ object # {} => rows = {}

(* A file that was assembled has its delivery row (engine.ts:465-469): the  *)
(* inbox and markOpened know received objects by it.                        *)
HeldIsRecorded == pc = "idle" /\ object # {} => record
=============================================================================
