---------------------------- MODULE EditPresence ----------------------------
(***************************************************************************)
(* The warning that somebody else has an object open in an editor          *)
(* (apps/web/src/lib/use-editing-presence.ts, setEditingPresence,          *)
(* editingPresenceFor and the handler of EDIT_PRESENCE in                  *)
(* packages/sync/src/engine.ts), and what its heartbeats do to the relay's *)
(* queue and to the ratchet session of a device that is away.              *)
(*                                                                         *)
(* One device edits and stays connected; the other watches, and comes and  *)
(* goes.  The relay keeps the order of what it forwards and queues.        *)
(***************************************************************************)
EXTENDS Integers, Sequences

CONSTANTS
  Heartbeat, Poll,   \* HEARTBEAT_MS, POLL_MS
  Stale,             \* EDIT_PRESENCE_STALE_MS
  Delay,             \* how long an envelope takes at most
  MaxQueue,          \* MAX_QUEUE_PER_DEVICE of the relay
  MaxSkip,           \* MAX_SKIP_PER_STEP of the ratchet
  MaxTime, MaxTurns  \* bounds: the clock; openings, closings and absences

VARIABLES
  now, turns,
  open,      \* the editor is open
  beat,      \* when its interval fires next
  sent,      \* how many messages the editing device has sealed
  queue,     \* the relay's queue for the watching device
  wire,      \* what the relay has sent to its socket
  online,    \* it is connected
  received,  \* recvMessageNumber of its session
  entry,     \* editingPresence: when a heartbeat arrived last, or None
  shown,     \* the warning is shown
  poll,      \* when it looks next
  since,     \* history: since when the other end can know what is so, or None
  dropped,   \* history: the messages a full queue dropped
  refused    \* history: the watching device could not open a message

editor  == <<open, beat, sent>>
relay   == <<queue, wire, online>>
watcher == <<received, entry, shown, poll>>
history == <<since, dropped, refused>>
vars    == <<now, turns, editor, relay, watcher, history>>

None == -1
Turn == turns < MaxTurns /\ turns' = turns + 1

Init ==
  /\ now = 0 /\ turns = 0
  /\ open = FALSE /\ beat = 0 /\ sent = 0
  /\ queue = <<>> /\ wire = <<>> /\ online = TRUE
  /\ received = 0 /\ entry = None /\ shown = FALSE /\ poll = 0
  /\ since = None /\ dropped = {} /\ refused = FALSE

----------------------------------------------------------------------------
(* The device that edits                                                    *)

(* setEditingPresence: an envelope like any other, sent, queued or dropped. *)
SetEditingPresence(active) ==
  LET m == [n |-> sent, active |-> active, at |-> now]
      full == ~online /\ Len(queue) >= MaxQueue
  IN  /\ sent' = sent + 1
      /\ wire' = IF online THEN Append(wire, m) ELSE wire
      /\ queue' = IF online \/ full THEN queue ELSE Append(queue, m)
      /\ dropped' = IF full THEN dropped \union {m.n} ELSE dropped
      /\ UNCHANGED online

OpenEditor ==
  /\ ~open /\ Turn /\ open' = TRUE
  /\ SetEditingPresence(TRUE) /\ beat' = now + Heartbeat
  /\ since' = IF online THEN now ELSE None
  /\ UNCHANGED <<now, watcher, refused>>

HeartbeatFires ==
  /\ open /\ beat <= now
  /\ SetEditingPresence(TRUE) /\ beat' = now + Heartbeat
  /\ since' = IF online /\ since = None THEN now ELSE since
  /\ UNCHANGED <<now, turns, open, watcher, refused>>

CloseEditor ==
  /\ open /\ Turn /\ open' = FALSE
  /\ SetEditingPresence(FALSE) /\ UNCHANGED beat
  /\ since' = IF online THEN now ELSE None
  /\ UNCHANGED <<now, watcher, refused>>

----------------------------------------------------------------------------
(* The relay, and the device that watches                                   *)

Leaves ==
  /\ online /\ Turn /\ online' = FALSE
  /\ wire' = <<>> /\ since' = None
  /\ UNCHANGED <<now, editor, queue, watcher, dropped, refused>>

Returns ==
  /\ ~online /\ Turn /\ online' = TRUE
  /\ wire' = [i \in DOMAIN queue |-> [queue[i] EXCEPT !.at = now]] /\ queue' = <<>>
  /\ UNCHANGED <<now, editor, watcher, history>>

(* The handler of EDIT_PRESENCE.                                            *)
Heard(m) == entry' = IF m.active THEN now ELSE None

(* A message is opened if not too many before it are missing.               *)
Opens(m) == m.n - received <= MaxSkip

Arrives ==
  /\ wire # <<>> /\ wire' = Tail(wire)
  /\ LET m == Head(wire)
     IN  IF Opens(m) THEN received' = m.n + 1 /\ Heard(m) /\ UNCHANGED refused
                     ELSE refused' = TRUE /\ UNCHANGED <<received, entry>>
  /\ UNCHANGED <<now, turns, editor, queue, online, shown, poll, since, dropped>>

EditingPresenceFor == entry # None /\ entry >= now - Stale

PollFires ==
  /\ poll <= now /\ poll' = now + Poll
  /\ shown' = EditingPresenceFor
  /\ UNCHANGED <<now, turns, editor, relay, received, entry, history>>

(* Timers fire on time, and an envelope takes no longer than Delay.         *)
Tick ==
  /\ now < MaxTime /\ now' = now + 1
  /\ open => beat > now
  /\ poll > now
  /\ wire # <<>> => Head(wire).at + Delay > now
  /\ UNCHANGED <<turns, editor, relay, watcher, history>>

Next ==
  \/ OpenEditor \/ HeartbeatFires \/ CloseEditor
  \/ Leaves \/ Returns \/ Arrives \/ PollFires \/ Tick

Spec == Init /\ [][Next]_vars

----------------------------------------------------------------------------
(* While both are connected the warning is there as long as the editor is   *)
(* open, without a gap between two heartbeats, and gone once it is closed,  *)
(* but for the time of an envelope and of a look ("comfortably longer than  *)
(* the UI's own heartbeat interval").                                       *)
WarningIsTimely ==
  since # None /\ now > since + Delay + Poll /\ dropped = {} => shown = open

(* Not so: a device that is treated "as no longer editing" when no          *)
(* heartbeat has come "this long".  Heartbeats that were queued count from  *)
(* the moment they arrive, and a full queue drops the message that the      *)
(* editor was closed.                                                       *)
ShownWasOpen ==
  shown /\ ~open => \E n \in 0..(Stale + Delay + Poll) : now - n <= beat

(* Not so: an "ephemeral" signal "never blocks another device".  The        *)
(* heartbeats for a device that is away fill its queue, the ones that are   *)
(* dropped are missing from the ratchet's chain, and after more of them     *)
(* than MAX_SKIP_PER_STEP nothing that the editing device sends to it,      *)
(* objects included, is ever opened again.                                  *)
SessionSurvives == ~refused
=============================================================================
