# ScreenMesh in TLA+

ScreenMesh moves objects (text, links, files, checklists, commands) between the
devices of one workspace, end-to-end encrypted, over a relay, a direct channel,
a local route or another device that carries them. This directory holds TLA+
models of the parts of it that are hard to test, the TLC configurations that
check them on small instances, and theorems about them that TLAPS proves for
every instance. Paths are relative to the repository; `engine.ts` is
`packages/sync/src/engine.ts`, `ratchet.ts` is `packages/crypto/src/ratchet.ts`,
`app.ts` is `apps/web/src/lib/app.ts`.

    tlc -config MCRelay.cfg MCRelay.tla         check one configuration
    tlapm RelayProofs.tla                       check one module's proofs

Sections: 1 the system, 2 the modules, 3 the runs, 4 where code and documents
disagree, 5 the proofs, 6 what is not modelled, 7 what comes next.

## 1. The system

| Component | State it keeps | Operations | Interacts with | What makes it correct | Module |
|---|---|---|---|---|---|
| Double Ratchet session, `ratchet.ts` | per peer: root key, chains, message numbers, skipped-key cache | `initRatchetSession`, `ratchetEncrypt`, `ratchetDecrypt` | called by the engine | both sides derive the same key; no key is used twice; used keys cannot be recomputed | `Ratchet` |
| MeshEngine sealing and opening, `engine.ts` | sessions in memory and in the `ratchets` table, `seen` table, sequence number | `sendOps`, `handleIncoming`, `start` | ratchet, transports, storage | its tasks do not disturb each other across awaits; a crash neither repeats a key nor breaks the session | `SessionTasks` |
| File transfer, `engine.ts` | delivery row with acknowledged chunks; chunks in memory and in their table; object | `sendFileChunks`, FILE_CHUNK, FILE_CHUNK_ACK, MARK_DELIVERED, sweep, `retryDelivery`, `rehydrateIncomingChunks` | `sendOps`, storage, sweep timer | acknowledgements tell the truth; every crash can be recovered from; a transfer ends | `FileTransfer` |
| Delivery life cycle, `engine.ts` | delivery rows of both sides | send, accept, reject, open, delete, expire, receipts | file transfer, agent, inbox, library | both sides agree; gated content is not opened early; what is to be deleted is deleted | `Delivery` |
| Store-carry-forward, `engine.ts` | `outbox` and `carried` tables, hop limits | `drainOutbox`, `offerCarrying`, `attemptCarriedDelivery` | transports, presence | bounded copies, nobody lets go of a bundle it has not sent, applied once | `Carry` |
| Presence and roster, `engine.ts` | `devices` table, key cache, sessions | `applyPresence`, REVOKE_DEVICE, capabilities | relay roster | the table is the roster; nothing of a removed device stays | `Roster` |
| Collaborative objects, `engine.ts`, `Inbox.tsx`, `Library.tsx` | Yjs documents in memory and on disk, object rows, drafts | `editText`, `updateObjectContent`, `retypeObject`, `continueOnDevice`, YJS_UPDATE, UPDATE_OBJECT | Yjs, storage | replicas converge, and converge on all that was written | `TextEdit` |
| Editing presence, `use-editing-presence.ts` | who edits what, in memory | heartbeat, poll, EDIT_PRESENCE | engine, relay queue, ratchet | the warning is timely; it harms nothing else | `EditPresence` |
| Relay, `apps/server/src/relay.ts` | connections, queues, per-socket login | challenge, auth, envelope, forward, signal, close, `disconnectDevice` | registry, clients | order and bound of queues; newest login wins; only members connect | `Relay` |
| Registry and pairing, `registry.ts`, `workspaces.ts`, `owner-auth.ts` | members, pairing token, rotation nonces, expiry | create, join, rotate, revoke, capabilities | relay presence, pairing panel, joining devices | a token works once; a request works once; what is shown is what is accepted | `Pairing` |
| WebSocket client, `packages/transport/src/websocket.ts` | socket, status, retry timer | dial, challenge, reconnect, disconnect | relay, engine | one live socket; it reconnects until told not to | `RelayClient` |
| Page life cycle, `App.tsx`, `app.ts` | workspace state, the engine in force, the tables | build and stop an engine, join, leave, be removed | engine, database | a stopped engine is stopped; leaving leaves nothing; re-joining works | `RelayClient`, `Membership` |
| WebRTC channel, `webrtc.ts`, `negotiator.ts` | peer connections, channels | offer, answer, candidate, teardown | relay signals | an answer meets its offer; a channel comes about | `WebRtc` |
| LAN companion, `apps/agent/src/lan.ts`, `companion.ts`, the extension, `companion.ts` of the page | one session, listener, token; native port queue; panel | start, handshake, send, stop; queued requests, events | Android, web app | replies meet their requests; the user sees the listener that is open | `LanSession` |
| Desktop agent, `apps/agent/src` | identity on disk, the rest in memory | join, approve, run, answer | engine | nothing runs unapproved; a restart keeps it reachable | `Delivery`, `Pairing`, `RatchetRestart` |
| Android application, `MeshEngine.kt`, `Ratchet.kt`, transports | as the engine, on threads | as the engine | relay, radios | as the engine, with locks in place of an event loop | none (section 6) |
| Crypto primitives, storage schema, protocol types | - | - | all | assumed (section 6) | - |

Hard behaviours: everything in a browser or Node process is an event loop, so
the interleavings are those at awaits; incoming envelopes are serialised
(`incomingQueue`), outgoing ones and presence are not. Envelopes are lost when
a socket dies, late when a device is offline or a carrier has them, and out of
order whenever two routes exist. Every table write is a point where the
process may die. Timers (the sweep, the reconnect, the panel's poll, the
heartbeat) race with what they watch. `PROJECT.json` lists the hazards by source
line, with the properties that watch them, or why none does.

## 2. What is modelled

| Module | Models | Uses |
|---|---|---|
| `Ratchet` | the session of a pair, both directions, an arbitrary network; each task one step | - |
| `RatchetProofs` | its theorems, and that `SessionTasks` implements it | `Ratchet`, an instance of `SessionTasks` |
| `RatchetRestart` | a device that keeps its identity and loses its sessions | extends `Ratchet` |
| `SessionTasks` | `sendOps` and `handleIncoming` at the grain of their awaits, with crashes | implements `Ratchet` |
| `Relay`, `MCRelay`, `RelayProofs` | the relay for one workspace, with join, revoke and expiry; its symmetry; its theorems | - |
| `RelayClient` | one page, its engines and their transports to the relay | - |
| `Membership` | the page over several memberships, with its tables and a session | extends `RelayClient` |
| `Pairing`, `MCPairing`, `PairingProofs` | the pairing record, the owner's panel, the devices that redeem a code; its theorems | - |
| `Roster`, `MCRoster`, `RosterProofs` | the device table, keys, sessions and capabilities at one member; its theorems | - |
| `FileTransfer`, `FileTransferProofs` | one chunked transfer, both devices, each database write a step | - |
| `Delivery`, `MCDelivery`, `DeliveryProofs` | deliveries at both ends, composer, inbox, library, agent; its theorems, among them that it keeps the promise | implements `DeliveryPromise` |
| `DeliveryPromise` | the abstract specification of a delivery status | - |
| `Carry`, `CarryProofs` | store-carry-forward of one bundle; its theorems | - |
| `LanSession` | page, extension, native port and agent | - |
| `WebRtc` | the negotiation of two pages over the relay's signals | - |
| `TextEdit`, `MCTextEdit` | one object edited on several devices, as text and as checklist; its symmetry | - |
| `EditPresence` | the heartbeats of an open editor, down to queue and ratchet | - |
| `ClientProofs` | the theorems of what runs in a page: its three transports and its text editor | extends `RelayClient`, `WebRtc`, `LanSession` and `TextEdit`, whose names differ for that |

**Ratchet.** Keys are terms: a key pair is a device and a number, a
Diffie-Hellman result the set of two key pairs, a root key the sequence of
results mixed into it, a chain or message key a root and a position. The
session record has the fields of `RatchetSession`. `Send` is `sendOps` up to
the sealed envelope. `ReceiveSkipped`, `ReceiveCurrent` and `ReceiveTurn` are
the three ways through `ratchetDecrypt`: a cached key, the chain at hand, a new
ratchet key with its drain of the old chain, its DH step and the fresh key
pair. Their failures (a number already used, a skip beyond
`MAX_SKIP_PER_STEP`, a wrong key) leave the session as the code leaves it. The
network is the set of all envelopes sent, any of which may arrive at any time
or never. **RatchetRestart** adds `Restart(d)` for the devices in `Forgetful`:
the desktop agent's database is in memory, so `ratchetSessionFor` starts anew.

**SessionTasks** splits the same code at its awaits: what is read before an
await is carried in the task, and what is written after it is computed from
that. `disk` is the `ratchets` table. Its instance of `Ratchet` maps the
session to `disk`, so a step of `Ratchet` happens when the session is saved. A
crash drops every task and goes on from `disk`.

**Relay.** One variable per map of `registerRelay` (`connections`, `queues`)
and per-socket state (`claim` between the start of the signature check and its
end, `auth` after it). `ready` follows `readyState`; a socket closed by the
relay may still deliver messages that were under way ("kicked"), a socket that
has gone waits for its close event ("closing"). Handlers are atomic but for
the signature check. `handed` and `dropped` are history. `Envelope` covers
"envelope" and "forward", which differ in the check of the sender only.

**RelayClient.** `Mount` and `Unmount` are the effect of `App.tsx` that builds
an engine for the workspace, `Leave` and `Landed` the two sides of
`resetToLanding`'s await. `phase` is where `start()` stands, `wire` the fields
of the transport, `net` how far each socket is. A challenge is signed across an
await, and "auth" goes out on the socket of that moment, not on the one that was
challenged: `SlowSigning` says whether signing may outlast a retry delay.

**Membership** puts the database under that page: `rows` are the memberships
that have rows in the tables `leaveWorkspace` clears, `row` is the session it
does not clear, and `Handle`/`Handled` the two ends of an envelope in
`handleIncoming`, which outlives `stop()`. A session is reduced to the number of
round trips it has seen.

**Pairing.** A code stands for its token and everything signed with it. The
server's record is `pairing`; the nonce table is pruned as in the code, and a
request goes through `checking` while its signature is verified. The panel's
`pending`, `answered`, `shown` and `initial` are its React state and its calls
in progress. A guest is a page (it has what the panel shows and reports to the
server it knows) or an agent (`join.ts`: with a link or with a raw code);
requests may come late or twice, the server may restart and forget everything.

**Roster.** `devices`, `keyed` and `offering` are the columns of the `devices`
table that matter (row, encryption key, capabilities); `peerKeys` and `ratchets`
are the caches by sender. `applyPresence` is two writes with awaits between
them (`PutRows`, `Prune`), and its calls overlap. The relay sends in order: on a
login its queue, then the roster. The table of a page starts with the roster of
the join answer, the table of an agent empty.

**FileTransfer.** The sender's `task` is the loop of `sendFileChunks` with the
status write after it; `sweep` is what `retryStalledFileTransfers` has decided
from a row it read before; the recipient's `pc` walks through the FILE_CHUNK
handler one database write at a time. `mem` is the entry of `incomingChunks`,
`rows` the `fileChunks` table, `object` the chunks the object was made of;
`Flaky` are the chunks whose write may fail. A restart goes through
`rehydrateIncomingChunks`. One sending loop runs at a time (the user does not
retry while an earlier loop over the same file still runs).

**Delivery.** `sent` is the sender's row, `row` and `objs` what the recipient
holds. The recipient's `markOpened`, `acceptObject`, `rejectObject` and its
expiry sweep await between their steps; each is a record in `calls` with the
stage it is at, and two may overlap. `Composed` is what `Send.tsx` hands to
`sendObject` for one press of the button, and the module assumes that its
scenarios are made of that; `InboxUses` and `LibraryUses` are what the two views
let the user do with a row. The agent's handler goes through `markOpened`, a
question on the one terminal (`prompt`), the task and its answer.
The sender's calls await as well, and write into the row what they decided on
before without reading it again: `sendObject` and `retryDelivery` write "sending"
once their sends have returned, the sweep writes "failed" and "expired" from rows
it read at its start. `writes` holds what is still to be written, `StepWrite`
writes it, whatever the row says by then, and `ReloadSender` drops it. A file
that is sent twice may be put together from the chunks of both sendings, or be
complete when the later ones come, which are then only acknowledged
(`MergeChunks`). A hand-off (`continueOnDevice`) sends the object again without
its options: a row made from it (`plain`) knows no deletion after opening, and one
that was already there stays as it is, acknowledged even if it still waits for
confirmation (the fact "handed").
**DeliveryPromise** says what a status promises: "delivered", "opened" and
"rejected" follow only from what the recipient has done, and any other status is
one the sender had decided to write (`decided`) by what it showed when it looked.
A status may therefore go back, from "delivered" to "sending" too.

**Carry.** `outbox` is the source's row with its remaining hops and the
carriers offered to, `drains` and `sweeps` the overlapping calls with what they
read, `carried` and `forwards` the same at the carriers, `seen` the
destination's table. `listed` is whom a device believes online, which lags. A
row is deleted once the socket has taken its envelope, as in the code; what is
on its way (`copies` per holder, `offers`) may then be lost at any time, with a
dying socket or at the relay's full queue, and no holder hears of it
(`LoseCopy`, `LoseOffer`; the histories `lost` and `missed`).

**LanSession.** A request is a number, the session it starts has its name. The
page's panel polls, starts, stops and renews; its engine sends. The extension
has one request on the native port at a time; the agent's events share the port
and carry no request id. Timeouts in the page, the loss of the port, the loss of
the network interface and a second start while the first awaits its listener
are actions.

**WebRtc.** A is the page with the smaller id and makes the offers. `making`
are the answer handlers in progress at B, which are not serialised. The relay
passes signals on in order and drops those for a page that is not connected. A
candidate is a signal like the others (`SendCandidate`, `OnCandidate`): of its
content only the offer it belongs to is kept. A connection without a remote
description refuses it, one with another remote description may; the failure of
the handler tears down the connection the page has by then, as any failed
handler does, and a handler that was still making an offer on it fails later
(`failing`) and tears down the next one.

**TextEdit.** `docs` are the Yjs documents in memory (two can exist: `docFor`
builds one across an await), `disk` their rows, `row` the object's row with its
type and time, `draft` the open editor, which may be opened again, `user`,
`retyping`, `inbound` and `replacing` the calls in progress with the point they
have reached. Whoever replaces a row reads it first and writes it an await later
with what it has read: `retypeObject` its content and the time of its look at the
clock (`Retype`, `RetypeRow`), the handler of UPDATE_OBJECT the outcome of its
comparison of times (`TakeUpdate`, `UpdateRow`), the handler of YJS_UPDATE the
row's type, and its text to see whether it differs (`InboundRow`, `InboundWrite`;
it reads the clock when it begins).
`overtaken` are the devices on which another task wrote the row between the two.
A text is a set of letters and a document the characters inserted and deleted; a
checklist is a set of items and those done, replaced as a whole by the update with
the later time. `Fast` are devices whose clock is ahead.

**EditPresence.** One device has an editor open and stays connected, the other
watches, comes and goes. Heartbeats are ordinary envelopes: numbered by the
ratchet, queued by the relay up to its bound, refused by the ratchet when too
many before them are missing. Time is discrete, timers fire on time, and an
envelope takes at most `Delay`.

Abstractions shared by all: payloads, signatures and encodings are left out; an
envelope's seal is the key it was sealed with; a timeout is the point from which
it may fire, except where a property is about durations (`Pairing`,
`EditPresence`).

## 3. Properties and runs

| Run | Configuration | Bounds | Properties |
|---|---|---|---|
| `ratchet` | `Ratchet` | one starter, cache of 2, skip of 3, 5 envelopes a side | `InSync` until a cap is hit, `KeySingleUse`, `ForwardSecrecy`, `Healed` |
| `tasks_atomic` | `SessionTasks_atomic` | one task at a time, 3 envelopes a side, one crash | `Atomic`: the module implements `Ratchet!Spec` |
| `relay` | `MCRelay` | 2 devices, 3 sockets, 3 envelopes, queue of 2 | `QueueBound`, `InOrder`, `RosterIsCurrent`, `KeepsLiveSocket` |
| `file` | `FileTransfer` | 2 chunks, of which one may fail to be written; one resend, retry and crash | `AckedIsHeld`, `DeliveredIsWhole`, `NoStrandedFile`, `ReceivedOnce`, `GivesUp` |
| `client` | `RelayClient` | 2 engines, 3 sockets, 2 losses | `StopIsFinal`, `MemberStays`, `Reconnects`, `RefusalLands` |
| `pairing` | `MCPairing` | a page and an agent, 3 codes, time to 3 with a minute of 2 | `SingleUse`, `OnceInWindow`, `ShownIsCurrent` |
| `roster` | `MCRoster` | 3 devices besides the member, 4 changes, 2 envelopes | `TableIsRoster`, `RevokedIsForgotten`, `UnknownOnlyUnlisted` |
| `delivery` | `MCDelivery` | one object under each combination of options that interacts, or two tasks for an agent; one retry, resending or hand-off; 2 calls of the recipient at once | `Agreement`, `BurntAfterReading`, `OpenedWasAccepted`, `PromiseKept` |
| `carry` | `Carry` | 2 carriers, 1 hop, 2 overlapping calls, one lost connection, one lost copy or offer | `AppliedOnce`, `HeldOrLost`, `FanOutBounded`, `Arrives` |
| `lan` | `LanSession` | 3 requests, one lost port | `SentWasWritten`, `LiveIsShown`, `EveryRequestEnds` |
| `webrtc` | `WebRtc` | 6 offers, 2 faults | `AnswerFitsOffer`, `DirectAtLast` |
| `text` | `MCTextEdit` | 2 devices, 2 saves or ticks, one retyping, hand-off or reload | `NothingForgotten`, `RowShowsDocument`, `Agree` |

Two more configurations pass and answer smaller questions: `Membership.cfg`
(`StillTalks`: a device its peer never removed can go on talking to it, however
often it leaves and joins) and `EditPresence.cfg` (`WarningIsTimely`: while both
devices are connected the warning is shown exactly as long as the editor is
open, but for one envelope and one poll).

*Exceptions in the properties.* Several properties name situations in which the
code does not keep them (`~mixed`, `forked`, `torn`, `~crossed`, `unclear`,
`early`, `undone`, `overtaken`). Each is a history variable that is set where the
situation arises, so that the property still speaks of every other behaviour; the
comment above the property says what is excepted and section 4 which of these the
documents promise. For `Delivery`, `torn` also marks an object whose newer status the
sender wrote over: with everything in, nothing corrects the row then. `HeldOrLost`
excepts holder by holder whose copy the network has lost, so that it says what the
code can keep: a bundle vanishes only if every holder's copy was lost. For
`TextEdit`, `overtaken` excepts the one device, and its checklists are compared
only while no page was reloaded: the row write and the broadcast of a tick or a
retyping are one step, and a reload drops an update that was being handled.

*Why the bounds are enough.* With five envelopes a side the ratchet turns
several times, a closed chain has more than one envelope outstanding, and the
late ones arrive after one or two further turns; a cache of two and skips of
three make every refusal and eviction happen. Three sockets let a device be
logged in twice while a third, old or the peer's, is still to close; three
envelopes overflow a queue of two. Two chunks are the fewest with which a file
can be incomplete; one resend, one retry and one crash (of either device, at any
step) give every pair of them. Two engines and three sockets give a page that
replaces its engine while both have a socket to close. Three codes are a current
one, one being rotated in and one that overtakes it; the clock passes a code's
life and a nonce's. Four changes are a join, a removal, a reconnect and a change
of capability in any order, with two calls of `applyPresence` under way. One
object at a time is enough for deliveries, whose rows are independent, except
for the agent's terminal, for which there are two. One hop and two carriers let
fan-out exceed its bound, two runs let drains and sweeps overlap, and one loss is
enough to leave one holder without a copy while the others have theirs. Three
requests are one posted, one queued and one given up. Six offers and two faults
are a break or a reload, a redial and the late candidates of both connections.
One retry is a second sending whose writes, chunks and receipts cross those of the
first. Two saves give two concurrent edits, an edit against a draft, or a tick
while a retyping or an update is about to replace the row. Deadlock is not
checked: each model may stop when its bounds are spent.

*Fairness.* `FileTransfer`: weak fairness of the sender's steps (its event
loop, and the sweep on its interval timer), of the recipient's steps once it has
taken an envelope, and of time passing; nothing is assumed of the network, of
acknowledgements or of the user; a crash includes the restart, and `start` sets
the timer again. `RelayClient`: timers fire, promises settle, events are
delivered, React runs its effects; nothing makes the network fail or the user
act. `Carry`: devices come back (its question is what happens once they do),
rosters, and the envelopes that are not lost, are delivered to a device that is
connected again and again (strong fairness of `Receive`, and of the sweeps, which run on every tick
of a timer and so find a moment at which they are possible), and what was begun
goes on. `LanSession`: the extension's queue, the page's timeouts through the
port's messages, and the agent's handlers; the user is free. `WebRtc`: both
pages keep having something to send, handlers end, signals that are not lost
arrive, the network connects an offer with its answer, and reports failures; that
candidates are sent, or refused, is not assumed.

## 4. Where code and documents disagree

Each configuration below checks one statement of a document, comment or text of
the interface, and TLC refutes it; `PROJECT.json` quotes the statements. Where a
configuration lists further properties in comments, they are refuted too, one at
a time.

| Configuration | Module | Refutes | What happens |
|---|---|---|---|
| `Ratchet_glare` | `Ratchet` | `InSync`, `KeySingleUse` | Either side may send first (`ratchet.ts:17-19`), but when both do before receiving, each has mixed into its root a result the other mixes in later, and nothing opens from then on; the first envelopes of both share a key. `Starters` is therefore a parameter, and the theorems assume at most one. |
| `Ratchet_evicted` | `Ratchet` | `OnlyCappedAreLost` | A late envelope whose cached key was evicted turns the ratchet backwards. The outbox is drained in the order of bundle ids, not of numbers, and the cache holds 50. |
| `RatchetRestart_agent`, `_keys` | `RatchetRestart` | `Rebootstraps`, `KeySingleUse` | A lost session does not just re-bootstrap (`apps/agent/src/state.ts:8-11`): the peer goes on with its own; a starter repeats its first keys. |
| `SessionTasks_race` | `SessionTasks` | `KeySingleUse` | Incoming envelopes are serialised (`engine.ts:249-257`), calls of `sendOps` are not: two that overlap seal with one key. |
| `Relay_lost` | `Relay` | `NothingIsLost` | The queue is taken after the signature check even if the socket has closed meanwhile. |
| `Relay_members` | `Relay` | `MembersOnly` | A device removed while its signature is being checked is connected afterwards. |
| `FileTransfer_hangs` | `FileTransfer` | `NeverHangs` | With all chunks acknowledged and the one delivery note lost, the sweep skips the transfer for good (`engine.ts:507`). |
| `FileTransfer_recorded` | `FileTransfer` | `HeldIsRecorded`, `NeverBackwards` | The chunk rows are deleted before the delivery is recorded: a crash between the two leaves an object without a delivery. A delivered transfer goes back to sending, when the status is written after a sending that the receipt overtook. |
| `FileTransfer_storage` | `FileTransfer` | `AckedIsStored`, `RowsAreDeleted` | A chunk whose write failed is acknowledged when it comes again; a late chunk stays in the table. |
| `Membership_refuted` | `Membership` | `LeftIsClean`, `ReadmittedTalks`, `TalksAcrossEngines` | An envelope handled across the end of a leave writes rows after the tables were cleared; sessions survive a leave while the owner deletes its own, so a readmitted device and its owner cannot read each other; an engine that replaces another reads a session the other is about to save. |
| `MCDelivery_library` | `MCDelivery` | `UsedWasAccepted` | The library offers copy, download and edit for a payload that awaits confirmation. |
| `TextEdit_refuted` | `TextEdit` | `EditsMerge` | A save deletes what reached the document after the editor was opened. |
| `TextEdit_refuted` | `TextEdit` | `HandOffKeepsText` | Handing over an object without a document sends an empty one, and the other device's text is blanked. |
| `TextEdit_refuted` | `TextEdit` | `TypesAgree`, `ShapeFitsType` | A device that edited or ticked meanwhile refuses a retyping, and stays on another type; an edit that awaits its document writes a text into a row that has become a checklist. |
| `TextEdit_refuted` | `TextEdit` | `ListsAgree`, with `Fast = {a}` | With clocks that differ the later tick is refused elsewhere and stays on its device. |
| `EditPresence_dead` | `EditPresence` | `SessionSurvives` | Heartbeats for a device that is away fill its queue of 1000 (in about 67 minutes); after 500 more are dropped (33 minutes later) the ratchet refuses every later message of that sender, objects included. |
| `EditPresence_ghost` | `EditPresence` | `ShownWasOpen` | Heartbeats that were queued count from their arrival, and a full queue drops the message that the editor was closed. |

`RelayClient.cfg` with `SlowSigning = TRUE` refutes `MemberStays`: the answer to
the challenge of a socket that was replaced goes out on its successor, is
refused, and wipes the workspace of a member. It needs a signature that takes
longer than a retry delay.

Smaller ones without a model: `COMMANDS.md:48-49` gives
`--join <join-link-or-code>`, but a raw code is refused without `--server`, and
`--server` is ignored with a link (`join.ts`). `engine.ts:165` says
`onEditingPresenceChanged` fires when a stale entry is swept; nothing sweeps.
The comment of `use-editing-presence.ts` promises the warning before the viewer
clicks Edit; the inbox asks for it inside the open editor only.
`Send.tsx` composes a checklist from lines without reading `[x]`, which the
conversion in the library does.

## 5. What is proved

TLAPS proves the following for all values of the constants, under the named
assumptions of the modules (bounds are natural numbers, the devices differ,
the owner is a device, a file has at least one chunk).

| Module | Theorems |
|---|---|
| `RatchetProofs` | `TypeCorrect`: `TypeOK`, with the bound of the skipped-key cache. For at most one starter: `SessionStaysInSync` (`InSync`), `KeysAreSingleUse` (`KeySingleUse`), `KeysAreForgotten` (`ForwardSecrecy`). Whoever starts: `SessionHeals` (`Healed`); for one task at a time and no cap hit, `TasksAreAtomic`: `SessionTasks` implements `Ratchet` (`Atomic`) |
| `RelayProofs` | `TypeCorrect`, `QueuesAreBounded`, `OnlineIsDrained`, `OrderIsKept`, `LiveSocketIsKept`, `RostersAreCurrent` |
| `PairingProofs` | `TypeCorrect`, `TokensAreSingleUse` (`SingleUse`), `RequestsWorkOnce` (`OnceInWindow`), `PanelIsCurrent` (`ShownIsCurrent`) |
| `RosterProofs` | `TypeCorrect`, `TableIsCurrent` (`TableIsRoster`), `RemovedAreForgotten` (`RevokedIsForgotten`), `UnknownAreUnlisted` (`UnknownOnlyUnlisted`, an action property) |
| `DeliveryProofs` | `StatusIsTruthful`: `Delivery` implements `DeliveryPromise` (`PromiseKept`). `EndsAgree` (`Agreement`), `OpenedOnlyIfAccepted` (`OpenedWasAccepted`), `BurntOnceRead` (`BurntAfterReading`) |
| `CarryProofs` | `BundleIsAppliedOnce` (`AppliedOnce`), `BundleIsHeld` (`HeldOrLost`), `CopiesAreBounded` (`FanOutBounded`) |
| `FileTransferProofs` | `TypeCorrect`, `AcksAreTruthful` (of the chunks whose write does not fail, `Chunk \ Flaky`), `DeliveryIsTruthful`, `NothingIsStranded`, `FileIsReceivedOnce` |
| `ClientProofs` | of `RelayClient`: `TypeCorrect`, `EnginesStayStopped` (`StopIsFinal`) and, where signing is not slow, `MembersAreNotThrownOut` (`MemberStays`), `ConnectedHasItsSocket`. Of `WebRtc`: `AnswersFit` (`AnswerFitsOffer`). Of `LanSession`: `SentIsWritten` (`SentWasWritten`), `SessionIsShown` (`LiveIsShown`). Of `TextEdit`: `AnnouncedIsSaved` (`NothingForgotten`), `RowIsCurrent` (`RowShowsDocument`) and, where no clock is ahead, `DevicesAgree` (`Agree`) |

Some theorems have a hypothesis that is not an assumption of their module.
`OneStarter` (at most one device may send first) is needed: `Ratchet_glare`
refutes the conclusion without it. So are `~SlowSigning` (a signature is ready
before the next retry) and `Fast = {}` (equal clocks), see `RelayClient` and
the last row of `TextEdit` in section 4, and `OneSlot` (one task at a time), refuted by
`SessionTasks_race`. The theorems about `TextEdit` suppose
`NullIsApart`: the value that stands for nothing is no document, no task and no
type.

*Ratchet.* `InSync` says nothing of the roots, so it is not inductive. The
invariant `Core` says, as long as no cap was hit, that the two sessions stand
in one of a few relations (the same root with one side a DH step ahead, or
neither), that every envelope under way belongs to the current chain of its
sender, to the chain before it, or to a closed chain whose keys are in the
recipient's cache, and that the header of an envelope and the key it was sealed
with determine each other. One lemma per way through `ratchetEncrypt` and
`ratchetDecrypt` shows that it is kept. The assumption on starters is used where
the first envelope is sent. Nothing of this is needed for the two secrecy
properties, which hold after a cap was hit as well. Their invariant is `Spent`:
a session fits what its device has generated and opened (`Fit`: it sends on a
root of its current key pair, past every key it has used, and receives or caches
keys only on roots of pairs it has given up, past every key it has received), each envelope is signed by its header
with the key pair of its sender (`Signed`), a sender has used no key twice
(`SentOnce`), and the two devices never begin a chain on the same root
(`NoMirror`), which is where the assumption on starters enters. `Rolled`, that
the key pair in use is the last one generated and begins the chain it sends
on, carries `Healed` without that assumption.

*SessionTasks.* `TasksAreAtomic` is a step simulation. A task is a step of
`Ratchet` when it saves the session: `Seal` is `Send`, `Save` one of the three
ways to receive, a number behind the chain at hand is the one failure that
counts without a saving, and everything else, crashes included, is a stutter.
The invariant `Settled` says for each place a task can stand at what it carries
and what the session in memory is, as a function of the session saved last
(`SendsAt`, `ReceivesAt`), and that an envelope is in one place only, about to be
handed over, on the wire, being read, or opened (`Apart`): this is why a task
that reads never finds its envelope already opened. It is what the order "save,
then send" and "save, then use the plaintext" buys. Its two hypotheses say what
the model check fixes by its bounds: one task at a time, which `SessionTasks_race`
shows to be needed, and no header position given up to a cap (`NothingLost`):
`SessionTasks` records a loss when it happens in memory, before the saving that
is the step of `Ratchet`, and a crash between the two brings back what was lost.

*Relay.* `DrainedWhenOnline` alone is not kept by the close event; `Core` adds
that the socket in `connections[d]` was connected and logged in as `d`, that a
socket whose login is still being looked up has no login yet, and that every
number in a queue or handed over is at most `routed`. `InOrder` then follows,
since a new envelope has the greatest number and goes to the queue only when the
device is offline, and online devices have none. `RosterIsCurrent` is proved on
top of `Core`, step by step.

*FileTransfer.* `Core` relates memory and table at each `pc`: outside the write
itself every chunk in memory whose write cannot fail is in the table, the table
never has a chunk memory lacks but while the file is being finished, a finished
object is whole, and `fresh` is set only until the application was told.

*Pairing.* That a code lets in one device each time it is installed follows from
`Backed`: the record holds a code unspent only while it was installed more often
than joined. For `OnceInWindow` the invariant needs the nonce table. `Remembers`
says that every installation by a rotation that is less than `AuthWindow` old is
covered by a nonce that lives until that age is reached, and `Ordered` that the
first code, installed by the creation of the workspace and without a nonce, is
never rotated in. A request that installs a code finds no nonce for it, so what
was installed before is at least a window old. The clocks of the owner and the
server enter nowhere: the statement is about the server's clock alone.

*Pairing, the panel.* `Attended` says that, until something the property excepts
has happened, at most one request is pending, the server checks no other than
that one and none it has granted, and the code it has granted, or with nothing
pending the one the panel shows, is the current one.

*Roster.* A table that has caught up can be right only if the latest roster was
not overtaken: `Informed` says that it is in the table, or being written, or the
last one in the socket or the inbox, with no roster after it. `OneCall` ties the
exception of the properties to the number of calls in progress. For what stays
of a removed device `Traced` says that whatever the member holds of it, in the
caches, in the inbox or in a call that will write it, has its REVOKE_DEVICE
still to be read, in the queue, the socket or the inbox, and behind every roster
in the socket that lists it.

*Delivery.* The refinement maps the sender's row to `belief` and the writes it has
still to make to `decided`; what the recipient did is history that both modules
share. A receipt under way could say anything unless the invariant excludes it:
`Core` says that every receipt is evidence of something done (`Good`), that nothing
is held or waits to be written of an object that was never sent, and that a call
whose next stage is to tell the sender has done what it will tell (`Sound`), but for a rejection, which
tells first and in the same step. Under it each action is a step of
`DeliveryPromise` or leaves both rows alone: one lemma for each end's actions,
and `NewIsTrue`, which reduces an invariant over sets to what was added.

For `Agreement`, `Answered` says of every object that the sender's row already
shows what the recipient did, or a receipt that will say so is under way, or a
call is about to send one, or a loss, an overlap or a late write of the sender has
made it an exception. `Careful` carries the other two: nothing exists of an object
that was not sent, and without a retry or a hand-off one envelope brings it, under
its options (`Fresh`, `Once`), and while no calls overlapped, an object that awaits
an answer has not been opened and one to be deleted is being deleted by the call
that opened it (`Orderly`).

*Carry.* `SentBefore` makes `HeldOrLost` inductive: whoever is about to delete its
row has a copy of its own on its way, or lost one, or the bundle was applied. For
the bound on copies, `Exclusive` says that a sweep in progress is the only one and holds the row it
read, and `Budget` that the hops left and the carriers handed to never exceed
the hop limit together, one more being allowed between a sweep's sending and its
update of the row.

*RelayClient.* `Wired` says that an engine has at most one socket that is not
unused, the one its transport holds, and none while its retry timer runs; `Settled` that
an engine the page let go of is marked as closed by hand, which stops the timer
from being set again. `Welcome` says that a signature under way is for the
socket the transport holds (`Prompt`) and that a connection was reported by a
socket that is logged in (`Usable`); both use that signing is not slow.

*WebRtc and LanSession.* `Matching` says that, until A has lost a connection whose
offer was out (`undone`), at most one offer is out (`OneOut`), as a signal under
way, with a handler in progress at B or as an answer under way, that it is the
offer of A's connection, and that A waits for it: so the answer that arrives is
the one to it. Requests and candidates change nothing of this but by a teardown,
which sets `undone` exactly when an offer is out. `Served` says that requests are numbered
in the order in which they were made, that what is on the port is the request the extension waits for or its reply and
never both, as long as replies were not mixed up, and that a reply which says
"sent" comes from having written that envelope.

`LiveIsShown` speaks of the panel and the agent, which the port and the queue
keep apart, so its invariant `Tracked` follows the session from the one to the
other. `Ordered`: requests are served in the order of their numbers, after the
one the session is named for, and each open one still waits or is being
answered. `Named`: no session known to the page or on the port is newer than the
agent's, nor than a start the agent has still to take. `Asking`: a panel that waits for its
start or its first answer shows no session, and what it asked before it was
reopened does not count. `Replied`: a reply that names a session names the
agent's, and a session that was to be stopped is gone before the reply. `Accounted`:
a start to come is followed by no stop, and its panel waits or will ask again; the
agent's session is shown, will be by a request still open, or is about to be
stopped by one that waits. When nothing is under way, only the first is left.

*TextEdit.* Seven parts, each kept given the ones before. `Shaped` are the types.
`Persisted`: what a device has announced is in its saved document, or its task
still holds a document with it that will be saved. `Shown`: a row shows its
document (`Mirrored`) but where a call between its two writes, or between its look
at the row and its write, is going to put it there (`Writing`). `Spread`: what any
document, message or update under way holds is, at every device, saved, on its way
or being handled, but for an edit not announced yet; so when nothing is under
way all documents are equal. `Sided`: rows that no message replaced have one type,
and where it is a checklist no text is about to be written.
`InTime`: no time, in a row, a message or a task, lies ahead of the clock, a
device handles one message at a time, and the time with which a retyping will write
is later than the row it has read and no other update's. `Latest`: until a page is
reloaded there is a last update of the whole row, with its device, type, content
and time, which no retyping still to be written has, and every device is `Informed` of it: its row has it (`UpToDate`), or a message or the handler
at work on one brings it (`Due`), or a text was put in its place or its writer
was overtaken (`Spoilt`), or it made the object a text itself. That a comparison of
times, made a step before the write, still decides rightly is what `InTime` and the
row that was read (`saw`) give: if the row is the one that was compared, the later
time is written; if it is not, the device is `overtaken`. In the same way a retyping
that writes late, with an older time than the last update's, writes over a row that
is older yet and still has that update to come. Here equal clocks enter.

Every safety property of the runs in section 3's table is a theorem. Only model-checked
are liveness (`GivesUp`, `Reconnects`, `RefusalLands`, `Arrives`,
`EveryRequestEnds`, `DirectAtLast`), which needs ENABLED; and, outside that
table, `StillTalks` and `WarningIsTimely`, which count round trips and time.

## 6. What is not modelled, and why

- WebCrypto, signatures, key wrapping and encodings: an envelope opens exactly
  with the key that sealed it, a signature verifies exactly for its signer.
- The Android application. `MeshEngine.kt` and `Ratchet.kt` port the engine to
  threads and persist in another order (the state after the envelope has left,
  `MeshEngine.kt:770`; concurrent handlers, `:751`). The modules follow the
  TypeScript code, and none of them speaks for the port. Its radio transports
  are drivers, the acoustic link is vendored signal processing.
- Yjs itself: a merge is the union of insertions and of deletions, without the
  order of the characters. What is in ICE candidates, data channels, TLS and certificates:
  the browser's and the platform's.
- Several workspaces at one server (they share nothing but the maps), two tabs
  of a page on one database, a build whose relay address differs from the page's.
- `TextEdit` takes the row write and the broadcast of a toggle or a retyping for
  one step, and the read and the write of a toggle; two updates with the same time
  are left out by its clock.
- The bootstrap of a session inside `SessionTasks`: two first messages to one
  peer may each build a session (`engine.ts:861`).
- Views, settings, notifications, event log, installation, running of shell
  commands: interface code and I/O without protocol state.

Hazards met while reading that are not in `PROJECT.json`, whose list is kept to
the ones nearest to a property: the message id enters the seen table before its
operations are applied (`engine.ts:1162`); acknowledged chunks are
read and written back (`:1335`), also after completion (`:1355`); the outbox is
drained in the order of random ids (`:997`); a roster's keys replace a cached
one (`:1425`); membership is read before the await of the signature check
(`relay.ts:128`); the skip limit of one step (`ratchet.ts:227`) met by dropped
heartbeats; a join answered after the page moved on (`app.ts:300`); the agent's
handlers run side by side (`apps/agent/src/index.ts:83`); a listener per
request that is never removed (`companion.ts:162`); two capability toggles
under way at once (`Devices.tsx:58`).

## 7. What comes next

1. The Android engine: where it persists and locks differently, as instances of
   `SessionTasks` with its order of saving and sending.
2. `Carry` with several bundles and carriers that carry further;
   `Delivery` composed with `FileTransfer`, whose rows it abstracts.
3. `RelayClient` composed with `Relay` in place of the relay's answer.
