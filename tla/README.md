# Nession in TLA+

Nession shows tmux sessions in a browser. A **Server** knows the Agents and
authenticates browsers; an **Agent** runs beside tmux and owns its sessions; a
browser **page** attaches to a session either through the Server's relay or over
a WebSocket of its own to the Agent (P2P). All three talk in JSON envelopes over
WebSockets, and all three survive reconnects of each other.

Around the program the repository keeps an automation that writes it: jobs on
GitHub that develop, review and publish the work on an Issue, and share nothing
but the git branch of a **Store**.

This directory models the parts of that system where the order of events
decides whether it is correct, checks them with TLC and proves theorems about
them with TLAPS. `PROJECT.json` lists components, runs, mutants, the source
lines of each definition, findings, hazards and theorems.

## Running

    tlc -config TerminalInput_takeover.cfg MCTerminalInput
    tlc -config AgentOwnership_routing.cfg MCAgentOwnership
    tlc -config KeyedLane_lane.cfg         MCKeyedLane
    tlc -config OutputStream_stream.cfg    MCOutputStream
    tlc -config Conversation_refresh.cfg   MCConversation
    tlc -config AgentDispatch_dispatch.cfg MCAgentDispatch
    tlapm AgentOwnershipProofs.tla
    tlapm KeyedLaneProofs.tla
    tlapm ConversationProofs.tla
    tlapm IssueOutboxProofs.tla
    tlapm AgentDispatchProofs.tla
    tlapm TerminalInputProofs.tla
    tlapm InputLogProofs.tla
    tlapm OutputStreamProofs.tla

Each `.cfg` belongs to the MC module of its prefix. A behaviour may end when its
bounds are used up, so no run checks for deadlock; what must not get stuck is
stated as liveness.

## The system

| part | code | state | operations | what is hard |
|---|---|---|---|---|
| Input queue of a page | `web/src/platform/terminal-runtime/inputQueue.ts`, `ConnectionManager.ts`, `product/terminal/agentControlLease.ts` | chunks, cursor, epoch, lease generation; copy of the control lease | type, acknowledge, reconcile, expire, flush | positions are derived from the cursor; acknowledgements get lost; the queue outlives connections and is compared with an Agent that may have restarted |
| Session registry of the Agent | `nession-agent/src/session/registry.rs`, `session/terminal/{state,runtime}.rs` | peers, control lease, input epoch and cursor, output ring | subscribe, acquire, apply input, retire a connection or a stream | the verdict on a chunk is taken under a lock, the write awaited without it, the cursor advanced under it again |
| tmux client | `nession-tmux/src/client/mod.rs` | ordered writer, commands in flight, tombstones, event budget | admit, write, match replies, fail all | a caller may give up on a command that is already with the writer |
| Execution lanes | `nession-runtime/src/lane.rs` | a queue and a worker per resource, slots per connection | dispatch, work, drain, shutdown | the lane is shared by connections that come and go; lost wake-ups; panics; dropped readers |
| CommandBroker | `nession-server/src/server/command_broker.rs` | per agent: newest generation, owner, waiters, registration gate | register, claim, release, evict, forget, send, resolve | an agent reconnects while its old connection is still read |
| Agent connections, handlers and registries of the Server | `nession-server/src/server/websocket.rs`, `server/handler/*agent*`, `registry/*` | published entry, sessions, heartbeat verdicts | register, report, sweep, clean up, delete | every handler is several awaited writes, interleaved with those of other connections and of the sweep |
| Terminal output | `streamReconciler.ts`, `ConnectionManager.ts`, `TerminalController.ts`, `SessionRuntime.ts`, ring in `state.rs` | frontier, pending frames, history request; gap flags, attach seed; ring with floor and epoch | live frames, history, seed, recover, attach, parse | live frames, history replies, snapshots, re-attach and epoch changes interleave; nothing may be skipped silently, nothing shown twice |
| AI conversations | `web/src/shared/ai-conversation/runtime/{ConversationRuntime,pagination,reconcile}.ts` | context, list, open conversation, window of items, one read and one follow-up, one older page, what the refresh watches | set context, select, reload, load older, dispose, poll, signal, settle | answers arrive after what they were asked for was left; the window and its cursor are moved by two kinds of page |
| Agent dispatch of the automation | `scripts/lib/agent/orchestration/*.mjs`, `scripts/lib/agent/publisher/publication-ingest.mjs` and the workflows that call them | per Issue: phase, target, events, outbox of actions; runs of GitHub | issue a ticket, commit an intent, ask for a run, acknowledge, admit, reconcile, ingest answers | asking GitHub for a run cannot be made one step with recording it; jobs race for the head of a branch and any of them may end in between |
| Relay | `nession-server/src/server/websocket.rs` | burst of frames per connection | merge, flush, forward | a merged frame stands for a range of positions |
| Outbound queues, Agent outbox | `nession-runtime/src/outbound.rs`, `nession-agent/src/connection/outbox.rs` | bytes and slots; one value per class | send with wait, grace or refusal; coalesce | the limit, and the end of the last producer |
| Resize | `nession-agent/src/server/resize.rs` | latest size, recorded size | coalesce, record | a record that is awaited across an epoch change |
| Session runtime of the page | `web/src/platform/session-runtime/SessionRuntime.ts` | route, transport generation, gap flags | attach, swap, lose | what it disposes of with a transport, and what it keeps |
| Environment service, credentials, protocol, git and Claude Code capabilities, CLI, UI | | | | storage, tokens and clocks, types, wrappers, presentation: not modelled |

How the parts interact: a page's chunk leaves its queue through a transport,
reaches the Agent's read loop, is dispatched into the shared lane under the key
of its session, is judged by the registry, written by the tmux client's writer
and acknowledged to every peer. The Agent itself is a client of the Server: it
registers, reports, and answers the commands the broker routes to the
connection that owns it.

## The modules

| module | what it is |
|---|---|
| `InputLog` | abstract: typed input is an exactly-once, in-order, never silently dropped log |
| `TerminalInput` | pages, sockets, registry, lease, writer; implements `InputLog` |
| `TerminalInputProofs` | theorems about `TerminalInput` that hold whatever happens |
| `InputLogProofs` | what every position of `TerminalInput` stands for: theorems about its numbering and its losses, and that it implements `InputLog` |
| `Fence` | abstract: ownership passes to the newest generation only |
| `AgentOwnership` | broker record, gate, registries, commands, sweep, delete for one agent; implements `Fence` |
| `AgentOwnershipProofs` | theorems about `AgentOwnership` |
| `KeyOrder` | abstract: mutations of a resource run one at a time in the order admitted |
| `KeyedLane` | readers, slots, queues, workers of the shared lane; implements `KeyOrder` |
| `KeyedLaneProofs` | theorems about `KeyedLane` |
| `OutputStream` | the ring, live frames, snapshots, history requests, the reconciler and the gap flags of one page |
| `OutputStreamProofs` | what each operator of the page keeps, and theorems about `OutputStream` |
| `Conversation` | the runtime behind an AI conversation surface, over a provider that answers late |
| `ConversationProofs` | theorems about `Conversation` |
| `IssueOutbox` | the workflow state of one Issue and the pure operations on it |
| `IssueOutboxProofs` | what each operation of `IssueOutbox` makes of a sound state: lemmas, and induction over the levels of a chain |
| `AgentDispatch` | controllers, runs, reconciliation and ingest over the Store that keeps that state |
| `AgentDispatchProofs` | theorems about `AgentDispatch` |
| `MC*` | instances for TLC, symmetry |

Definitions named as mutants in a comment are the code with a plausible mistake;
no specification uses them. Each property is broken by one of them.

### TerminalInput

One session, several pages, the direct path. `queue[c]` is `PendingInputQueue`
with the position of `chunks[i]` being `cursor + i`; `lease[c]` is the page's
`ControlLease`; `up` and `down` are the two directions of each WebSocket, FIFO
as TCP is; `session` is the registry's entry; `work` is the mutation the
session's lane is executing; `writeQ` is the ordered writer; `pty` is what the
pane received. A chunk is a number, one chunk is one frame and one position.

- `Type` is `ConnectionManager.send`: expiry, the bound of the queue, append,
  and the flush that re-sends everything pending. `ReceiveAttached` is an attach
  answer: lease, generation, reconcile, flush, in that order.
- `Serve` is the lane: one mutation at a time, in arrival order. `KeyedLane`
  shows that the lane does that.
- `BeginWrite`, `WriterStep` and `FinishWrite` are `apply_input` around its
  await. `WriteRefused` and `WriteTimesOut` are the two ways
  `send_command_queued_within` fails: before and after admission.
- `EndConnection` and `RetireConnection` are two steps because
  `run_message_loop` ends its lanes before its peers; the lane does not wait for
  the second.
- `LoseTransport` cuts the frames on the way at any point; `Restart` kills every
  connection and session, and the pane survives.

What may happen around the protocol is a constant, `Events`, because the promise
that holds depends on it: typing before the first attach, chunks growing old,
transport swaps, refused writes, interrupted writes.

### AgentOwnership

One agent id. Connection `g` has generation `g` (`new_connection_generation` is
a counter). `task[g]` is the step its handler has reached; each action is what
the code does between two awaits, or under one lock. A connection runs one
handler at a time, as an ordered frame does behind its barrier. `mark`, `active`
and `pending` are the broker's record, `gate`, `gates` and `locked` the
registration gate (a gate can be forgotten while held, so the gate in the map
and the one held may differ). `sweep`, `grace` and `delete` are the positions of
the sweep, of its delayed clean-up and of a client's delete.

`Close` leaves the read loop by its end and goes on to `ReleaseAgent`; `Abort`
leaves it through `?`. Lanes, the SQLite mirror and address probing are left out;
a database error of a delete is `DeleteFails`.

### KeyedLane

Several connections of one process over one lane (`Lanes::shared`, built without
a worker budget, as both runtimes build it). A reader takes a slot of its
connection, registers for the lane's signal, looks for room under the lock,
queues or waits; whoever sets the worker flag spawns the worker, named by the
mutation it was spawned for, so that a second worker of one resource could
exist. A worker pops, signals, runs. `failed` remembers the connections whose
reader was aborted and the resources that lost their worker to a panic; no guard
reads it, it is what the properties exempt. `Failures` are a panicking mutation, a
shutdown whose grace is over, and a reader dropped without a shutdown. The query
lane, a semaphore of a single connection, is not modelled.

### OutputStream

One session, one page, the direct path. A frame is a position of an epoch.
`stream` is the Agent's ring, reduced to what tells answers apart: its last
position and its floor. `live` is the socket in its order: snapshots, recorded
frames and sizes outside the stream. `page` is `StreamReconciler` - frontier,
held frames, the one request that is waited for, attempts per hole - with the
gap flags of `SessionRuntime` and a screen that remembers what it shows.

- `Accept`, `OnReply`, `OnReplyFailed`, `Seed`, `Recover`, `Abandon`, `Drain`
  are the methods of those names, as operators on `page`; an action applies the
  whole chain a callback runs.
- A generation of the code tells an answer from one asked before a reset. Here a
  request is forgotten when its generation is moved on (`NextGeneration`).
- `ServeAttach` chooses among the snapshots the ring allows: a capture cut at the
  start of a new stream, a replay of the whole ring, or a capture nobody vouches
  for. `DeliverSnapshot` hands it to xterm, `Parse` is its callback, which is
  what states a baseline or a repair.
- `LoseConnection` drops what the socket carried and rejects its requests, oldest
  first, before the runtime hears of it.

`Events` names what may happen around the protocol, because the promise that
holds depends on it; the last five are promises the code does not keep, below.

### Conversation

`rt` is one `ConversationRuntime`. Its three generations become: a request that
is superseded is forgotten where its generation moves on, because `wanted` would
refuse its answer; the exception is the slot of the single read, which a read
keeps after it was revoked by a change of context (`slot = "revoked"`) until it
settles. A transcript is its length, an item its position, a page the last
`PageSize` positions before its cursor, so order, holes and doubles are visible.
Contexts are records of a space, an authority and a push source; `MCConversation`
rotates each of the three. The policies `poll`, `push` and `manual` are chosen
once. Only polling is used by an adapter of the repository.

### IssueOutbox and AgentDispatch

One Issue. `states[v]` is version `v` of the workflow state as it lies on the
Store's branch; a commit appends one, and succeeds for the job whose `base` is
still the head. `runs` are the workflow runs GitHub started, by number, with the
ticket each carries. `ctl[c]` is where a controller job is and what it has in hand.

- `IssueOutbox` has an operator for each function of `outbox.mjs` and
  `transition.mjs` that makes a state: `Intend`, `Acknowledge`, `YieldSlice`,
  `Recover`, `Bind`, `Publish`, `AcceptTaskResult`. An action's name, a digest
  in the code, is the version that created it.
- `ReadForIntent`, `CommitIntent`, `Verify`, `Post`, `ReadForAck`, `CommitAck` are
  `executeDurableAgentDispatch` with everything another job may do between its
  reads, its push and its request. `Fail` is a rejected push, a failed check or
  the end of the job, at any of these places. Jobs that only read and push are
  one step, because one that loses its push leaves nothing behind.
- `Post` has three outcomes: a number; a run whose number nobody learns (204, a
  timeout, the end of the job); no run.
- `Admissible` is the check a run makes of the Store before its model works:
  `authorizeWorkerFromStore`, or `admitQwenPublishedReview` of a reviewer.
- `ReadForReconcile` and `CommitReconcile` are the job that follows a development
  run that ended, by its one try. `RefuseClaim` is that job refusing the run before
  it reads the Store: no claim that counts (`Break` is a run whose jobs failed early),
  a run made outside the window of its ticket or from another commit of main than its
  controller. Any run may be refused, since what decides it is not in the Store.
  `FailReconcile` is the job cut short between its read and its push. A job that ends
  without having found its run is `over`; one that the Store cut off, `lost`.
- `Ingest...` are the jobs that turn an answer into the next version.
- Every operation of the code validates what it made and throws. This is no
  guard of the model but the property `ValidAlways`.

## Runs

| run | instance | shows |
|---|---|---|
| `input_takeover` | 2 pages, 2 chunks, 3 connections, 2 epochs, 2 lease generations | exactly-once log through reconnects, takeovers and an Agent restart; positions are never renumbered, no takeover overtakes a write |
| `input_everything` | 2 pages, 2 chunks, 2 connections, every event | typing order survives everything within an attachment |
| `input_settles` | 2 pages, 3 chunks in a queue of 1, 2 connections, 2 epochs, no event, fair | with a full queue, held input is applied or reported |
| `owner_routing` | 2 connections, 2 commands, sweep, delete, failing reads | the record implements the fence; no waiter without an owner |
| `owner_newest` | 3 connections, sweep, reports, fair | the newest registration stays, a closed owner is released, evicted owners recover, registrations settle |
| `lane` | 2 connections, 1 resource, 2 frames each, 1 slot, queue of 1, every failure, fair | order, bounds, barrier; nothing starts for who left; nothing stays queued and no reader waits for ever, except behind a resource that lost its worker |
| `output_stream` | 3 positions (output, resize, one larger than any buffer), 2 epochs, 2 attaches, 1 frame held, 2 attempts per hole, 1 late answer; restart, evict, slow, fail, level | a loss is always stated, held output waits behind a hole that is asked for, a newer size wins |
| `output_settles` | 4 positions, 2 epochs, 3 attaches, 2 frames held, restart and evict, fair | with every answer in time nothing is shown twice, and an attached page comes to rest and shows everything or knows that it does not, unless it attached again where it had asked `HOLE_ATTEMPT_LIMIT` times |
| `conversation` | 4 contexts over 2 spaces, 1 conversation, pages of 2, 4 items, 3 calls, 1 refusal, every policy, fair | nothing superseded publishes, the window has no hole, no loader is orphaned, the refresh watches what is open and catches up |
| `dispatch` | 2 controllers, both developers, 2 slices, 1 repair, 1 recovery, any number of runs, controllers symmetric | no action gets two runs, no model works for a run the Store does not name, a reconciliation that the Store cuts off has found its run named, the state is one chain that validates |
| `input_twice`, `output_swap` | smallest that shows it | a promise the code does not keep, below |

**Why the bounds are enough.** Sequencing goes wrong between a chunk, its
retry and its neighbour, over one reconnect: two chunks and a second connection;
a third connection lets both pages reconnect once. A queue that is full refuses
the chunk behind the ones it holds: three chunks, a queue of one.
Ownership goes wrong between an old and a new connection, and a third makes
"newest" differ from "next"; a second registry delete or sweep repeats the first.
A lane needs a mutation running, one queued and a reader that finds the queue
full, which three frames of two connections give with one place in the queue; that
one connection holds two resources is covered by the theorems.
A hole is one position between two others, so a stream of three has every hole
that matters and a fourth gives two at once; a second epoch and a second attach
give the re-attach its two cases, and a limit of two attempts a first and a last
one. A buffer of one frame is full when the second waits. For `ShownOnce` two frames are
held over a loss, and a third attach covers them with a snapshot before its answer:
with a missed deadline added, the bounds of `output_settles` reach the violation
of `OutputStream_twice`.
`HOLE_ATTEMPT_LIMIT` is 3 in the code; nothing distinguishes its third attempt
from its second, and with 2 the third attach reaches what `CatchesUp` excludes by name
(`AskedOut`), which takes a fourth with 3.
In a conversation, three calls are enough to leave, come back and rotate while a
read is out. Four items with pages of two give the
window a page behind it and one that overlaps. A dispatch goes
wrong between two controllers, and a third repeats one of them; a continuation,
a failed action and its replacement, and a repair after a publication, make
every shape of the outbox that the retirement of a proposal has to take along.
`MAX_SLICES` is 64 in the code. Where a theorem exists, the
bound does not matter.

**Fairness.** `TerminalInput`: the page's receive loop, the lane, the writer
task, the end of a connection - tasks of an executor, none of which waits for a
user. Nobody owes a keystroke, a reconnect or a takeover. `AgentOwnership`: a
handler that has started goes on (its awaits are on locks that are held for one
step and on a gate whose holder is fair too) and a registered connection keeps
sending frames, because agents send a heartbeat on a timer. The sweep may
evict again and again; recovery is stated for each connection that stays.
`KeyedLane`: readers and workers are polled, tokio's semaphores are fair, and a
mutation returns; connections are not assumed to send another frame.
`OutputStream`: read loops, the Agent's answers, timers and the parser; nobody
owes an event, a loss, a refusal or a restart, and a lost connection is dialled
again, as the socket's reconnect timer does. `Conversation`: the provider answers
a read - `adapter.read` has no deadline in this code, the transport under it has
one - the timer ticks and events arrive; nobody owes a call. `AgentDispatch` has no
fairness: any of its jobs may end, and nothing starts it again. In `OutputStream` and `Conversation` the
conditions are written with the guard in place of ENABLED, which TLC evaluates
slowly over long chains of operators.

## Promises the code does not keep

Two are runs, listed with their quotations under `findings`:

- `input_twice`: a write is abandoned after the writer admitted it; it is
  written, the cursor stays, and the retry is written again.
- `output_swap`: a candidate rotation builds a new transport, with a reconciler
  that knows nothing, over a renderer that is kept. The attach asks for no
  snapshot, its seed finds no frontier and takes the cursor of the answer:
  what was missed is never asked for, and no gap is stated.

The same modules show others, each with the configuration under which TLC finds
it:

| configuration | property | what happens |
|---|---|---|
| `TerminalInput_early` | `NoSilentLoss` | what is typed before the first attach answer, while another page keeps the session alive, counts as acknowledged by a cursor it was never numbered from (`inputQueue.ts:188`; lines 54-57 promise that every discard is recorded) |
| `TerminalInput_swap` | `NoSilentLoss` | a transport swap disposes of a queue with what it holds |
| `TerminalInput_expired` | `NoSilentLoss` | expiry frees positions that are on the wire; an old acknowledgement covers a new chunk |
| `TerminalInput_aged` | `NoStaleInputSent` | a flush after a reconnect sends chunks older than the age bound |
| `TerminalInput_refused` | `HeldInputResolves` | a refused chunk is not sent again before the next attach |
| `AgentOwnership_address` | `RegistryNeverRegresses` | an address update writes back the registry entry it read, over a registration that happened in between (`server_agent_address_update_v1.rs:35`) |
| `AgentOwnership_dropped` | `DropIsReleased` | a connection that ends by a read error is never released |
| `AgentOwnership_sessions` | `NoStaleSessions` | a report checked before a registration is written after it |
| `AgentOwnership_cleanup` | `CleanUpSparesReconnected` | the clean-up checks "offline" and clears a returned agent. So does a delete: `DeletedWasOffline`, with `MaxDeletes = 1` |
| `AgentOwnership_leftover` | `BrokerTracksRegistry` | a connection of a deleted agent re-creates its record |
| `KeyedLane_abandoned` | `GoneNeverStarts` | aborting the reader drops its lanes without tripping `ended`; what it queued in the shared lane runs (`server_client.rs:867`) |
| `OutputStream_early` | `BufferHonest` | the connection is lost after the snapshot was parsed and before the attach answer: the next attach trusts the buffer and moves the frontier past what was missed |
| `OutputStream_lag` | `BufferHonest` | a snapshot parsed after the next attach asked for another clears that attach's repair |
| `OutputStream_burst` | `HeldIsAccounted` | two live frames of a new epoch ahead of the attach answer: `accept` resets while its frontier is unknown, and the first frame is dropped unsaid (`streamReconciler.ts:402`) |
| `OutputStream_held` | `Settles` | the lower of two holes is given up by `abandon`, which asks for nothing: what waits behind the second waits until another frame comes (`streamReconciler.ts:516-520` says it may never come) |
| `OutputStream_twice` | `ShownOnce` | a page loses its connection with a frame held and its hole asked for; the snapshot of the next attach covers that frame, and the deadline of the request comes before the attach answer: `abandon` skips the hole and writes the frame over the newer screen. `skipHole` says that "nothing already applied is applied twice" (`streamReconciler.ts:651-653`) |
| `OutputStream_settles`, with `[]~AskedOut` taken out of `CatchesUp` | `CatchesUp` | the attempts at a position are counted when a request is answered in full too, or rejected with its connection, and nothing forgets them while the frontier stays (`noteAttempt`, `streamReconciler.ts:370-377`). An idle page that keeps its buffer over its first attach and two more has used them up: at the next one `recover` calls `abandon` with nothing held, which asks nothing and states nothing, and what was missed stays missing until another frame comes (lines 552-554 promise the request for history the client has not seen). It needs no event, and four attaches with the limit of 3 |
| `Conversation_revoke` | `SpinnersHaveReads` | a rotation within a space supersedes the older page on its way and leaves `loadingOlder` set: the answer is refused, and `loadOlder` answers `true` and asks for nothing until the conversation is left (`ConversationRuntime.ts:518`; line 828 says the older fetch clears what it owns) |
| `Conversation_unread` | `SpinnersHaveReads` | the choice of an earlier visit is only opened by a list answer: when listing fails the thread loads for ever |
| `Conversation_burst` | `OldestFirst` | a transcript grows by more than a page between two reads: the window gets a hole (`reconcile.ts:48` calls what a page adds newer than everything held, which it is, but not next to it) and, unpaged, its cursor points into it |
| `Conversation_gap` | `CatchesUp` | a push source: what changes between the first read and the subscription is missed (`ConversationRuntime.ts:1013` argues that a read there would only repeat the first). With `Events = {"lost"}` instead, the read an event asked for fails and is swallowed, and there is no next tick to ask again (`ConversationRuntime.ts:1094`); with `{"throws"}`, a push source that refuses the subscription leaves the conversation unwatched |
| `AgentDispatch_unnamed` | `RunIsNamed` | a run whose number GitHub kept to itself, or whose controller ended, is reconciled once and given up: main moved between the start of the controller and its request (`worker-reconcile.mjs:87`), there is not exactly one unexpired claim (lines 34-42), the run was made outside the window of its ticket (76-79), the controller was run again (84), or the job ended before its push (`timeout-minutes: 12`, `store-agent-dispatch-reconcile.yml:31`). Nobody else may ask again, and the Issue stands still. `docs/architecture/agent-workflow-durability.md:184` promises for a "Controller dies after dispatch API 204 / ambiguous response" the "reconcile original Run before bounded retry" |
| `AgentDispatch_resume` | `DeniedRunResumes` | a run the Store turned away, because its number was not committed yet, is reconciled afterwards and never run again: `eligiblePreflightRerun` (`worker-reconcile.mjs:96`) asks for a run of one job named `developer`, and `agent-develop.yml` has five. Lines 93-95 and the step "Resume the SAME authenticated Run" of `store-agent-dispatch-reconcile.yml` promise the rerun; with one job in `DevelopmentJobs` the property holds. The rerun would do nothing even so: every job of the workflow asks for `run_attempt == 1` (`agent-develop.yml:47`, 80, 130, 342, 400) |

One consequence is no property of its own: a panicking mutation, or a reader
aborted between setting the worker flag and spawning, leaves a flag without a
worker, and the resource is stuck. `QueuedSettles` and `ReaderReadsOn` exempt what
waits behind such a resource (`failed`) and nothing else.

## What is proved

`AgentOwnershipProofs`, for any number of connections, deletes and commands,
from `OwnershipAssumption` alone (the constants have their types):

| theorem | states |
|---|---|
| `TypeCorrect` | `TypeOK`, including that no connection runs a handler its state does not allow |
| `PendingOwned` | no waiter without an owner |
| `FenceImplemented` | the broker record implements `Fence` |
| `DropReleased` | without failing reads, a connection that is over is released |
| `NewestRegistrationWins` | undisturbed, one registration publishes at a time and the newest stays published |
| `RegistryMonotone` | undisturbed, nothing a newer registration replaced comes back |

*Undisturbed* means no deletes and no address updates; both hypotheses are
necessary, `AgentOwnership_address` and a delete between two registrations
break the conclusions.

`TypeCorrect` is inductive as it stands. `PendingOwned` needs only the record's
operations. `DropReleased` needs in addition that only a connection that is
bound, at its claim or in its release is ever the owner, which is why `TypeOK`
ties handlers to connection states. `NewestRegistrationWins` rests on an
invariant about the gate: with no delete there is one gate, every registration
past it holds it, and the mark is the newest generation that passed; without
the middle part two registrations could publish in the other order.
`RegistryMonotone` follows from it and from the step being one of `Publish`,
which publishes the mark, or one that keeps the generation.

`KeyedLaneProofs`, for any number of connections, resources and frames, any depth
and any number of slots, from `LaneAssumption` alone:

| theorem | states |
|---|---|
| `LaneTypeCorrect` | `TypeOK`: types, queues within their depth, connections within their slots |
| `KeyOrderImplemented` | the lane implements `KeyOrder`, whatever fails |
| `BarrierKept` | behind the barrier nothing of the connection is queued or running, whatever fails |
| `LeftStartsNothing` | a connection that left starts nothing, unless its reader was aborted |

All rest on the invariant of `Inductive`, which is needed because none of the
four holds by looking at the step alone. `Single`: the flag of a resource stands
for one worker, or for one reader between setting it and spawning; without it
two workers could pop in turn and run out of order. `Accounted`: every
queued or running mutation holds a slot, is in one place, and is numbered below
the one its reader has in hand; without it a slot freed by one mutation could
belong to another, and the barrier would pass too early. `Behind` carries the
barrier's look at the slots over the steps other connections take before the
frame is served. The bounds of `LaneTypeCorrect` and, for
`LeftStartsNothing`, that whoever left has announced its end or was aborted, are
invariants of their own on top of it. The exemption of `LeftStartsNothing` is
necessary: `KeyedLane_abandoned` checks the property without it.

`ConversationProofs`, for any contexts, conversations, page size, policy and
bounds, from `ConversationAssumption` alone (types, and that `None` is none of the
values it stands beside):

| theorem | states |
|---|---|
| `OnlyTheOpenPublishesAlways` | what may still be published was asked of what is open now; so was what is shown |
| `FollowUpHasAReadAlways` | a follow-up waits for a read that is out |
| `RefreshWatchesTheOpenAlways` | the refresh watches what is open, polling never rests while it may grow |
| `SpinnersHaveReadsAlways` | without `"revoke"` and `"unread"`, no loader is orphaned |
| `TypeOKAlways` | `TypeOK`, with the positions a page may name |
| `HistoryReachableAlways` | without `"burst"`, what precedes the window can be asked for, and the answer meets the window |
| `OldestFirstAlways` | without `"burst"`, the window is one stretch, oldest first, no hole and no double |
| `KeptAlways` | what is shown of a conversation is not taken away while it is open |

The first four rest on one invariant of the record `rt`, `Sound`, kept operator by operator:
each lemma says what `SyncThread`, `Revoke`, `Enter`, `SyncRefresh` and so on
make of a record, and a step for each action puts them together. `Closed` (nothing
is asked for or shown while nothing is open) is what makes a follow-up in
`SettleNewest` a read of something. `PageOwed` is stronger than the property it
serves: a first page that loads is owed by a read that *reports*, or the read
could fail without the loader being told. `ChoiceOwed` carries the choice of an
earlier visit, which is opened when the list arrives. The two hypotheses are necessary:
`Conversation_revoke` and `Conversation_unread` break the conclusion.

What is said of the window rests on a second one. `TInv` adds the bounds: a page
taken while a transcript grows may end `Bound` = `MaxLength + PageSize + 1`, no later.
`HInv` adds that the window is bare or `Spanned`, the positions `lo..hi` of the open
transcript: at most a page is missing at its end, its cursor and the page asked before
it are inside it, and the page in hand (`Near`) ends no earlier than it does. The two
inequalities about a page are what `Grow` keeps without `"burst"` and what makes the
newest page meet the window; `Conversation_burst` shows that the hypothesis is
necessary. The cursor need not be `lo`: a newest page that overlaps a window nobody paged
moves it forward, which is why `HistoryReachable` speaks of what an older page would
join and not of where it starts. TLC found `HInv` kept, in an instance
of every event but `"burst"`, before it was proved. A newest page drops
what is held already, one item after the other, in `NotIn`, a fold: what it computes
is proved by induction, in the form of a least counterexample (`Induction`, from
`WFMin`), since the theorem of the library takes an operator. `KeptAlways` needs no
more than `TInv`: no answer drops anything, even from a window with a hole.

`AgentDispatchProofs`, for any number of controllers and any bounds, from
`OutboxAssumption` and `DispatchAssumption` (types) alone:

| theorem | states |
|---|---|
| `OneRunPerActionAlways` | no action of an Issue is ever given to two runs |
| `TypeOKAlways` | `TypeOK`, with the number of a version and the limit on the slices of a task |
| `OneChainAlways` | exactly one thing to do, and every slice that is kept leads up to it |
| `ValidAlwaysHolds` | the check every operation of the code ends with never throws |
| `RunsMatchStoreAlways` | a run that has not ended is what the head waits for; a model works only for what the Store names or has published |
| `ReconciliationFindsAlways` | a reconciliation is cut off by the Store only after the Store came to name its run |

There are four invariants, each resting on the ones before. `IInv` is about names. `Evolves` says what every operation of `IssueOutbox`
makes of a state: names stay unique, and no action that was known becomes pending
again; one lemma about `Step` serves all operations. An action is *taken* once it
is known and not pending, and `CommitKeeps` carries that over every commit. The
invariant `IInv` adds that the action of a run is taken, and that a controller
between its intent and its request holds an action that is taken, that no other
such controller holds and that no run has. This middle part is what the fence of
the push pays for: the head was still the version in which the action was pending
(`ReadersOK`), so nobody else could have taken it.

`JInv` is about the Store. Every version is `Sound`, a predicate on one state
which `IssueOutboxProofs` shows each operation to keep when its guard holds, and which
implies `Valid` and the chain. What `Valid` says alone is not inductive: `YieldSlice` cuts one slice
more off, so one has to know that nothing else waits (`OneWaits`); a publication
retires a chain, so what continues a slice has to come after it (`Following`) and to
lead to what waits (`Leading`), or something would survive its parent; a repair
binds to a publication that has to be there (`TargetOK`). `Lineage` and `SupersededProposalChain` climb and
descend level by level. That the last level holds the whole chain is proved by
induction over the levels, stated for a *set* of natural numbers (`Induction`, from
the well-founded order of the library), and by the ordinals, which grow along a
chain up to `MaxSlices`. The other half of `JInv` is `Remembers`: versions are never
changed, so what a job has read of one stays true of it.

`KInv` is about the runs: the head awaits each run that has not ended, and what it
names is a run of that action. It holds because nobody commits while a run is on its
way or about to be asked for, except the number of that very run (`OverIsQuiet`,
`KAcknowledge`): every other commit needs an action that is pending or a run that has
ended, there is one live action by `JInv` and one run of it by `IInv`. `AskersWait` is what
`Post` needs: the version a controller committed its intent in is still the head.

`LInv` is about the numbers: a run the Store does not name is the one its head waits
for, ticket and all (`Outstanding`). While an action is dispatching, no commit is made
but the number of its run (`OverNamesAll`, `LAcknowledge`), so after any commit every
run is named, and a reconciliation whose head moved, or that finds another thing to wait for,
came too late and not too early. A controller that has verified its intent holds the
ticket that is outstanding, which is what the new run of `Post` needs.
TLC checked the strengthened invariants, for up to two slices and two repairs, before
they were proved.

`TerminalInput` is proved in two modules, for any number of pages, chunks,
connections, epochs and lease generations and any length of the queue, from
`InputAssumption` (types) and, in the second module, one hypothesis on `Events`
that is part of each statement:

| theorem | hypothesis | states |
|---|---|---|
| `TypesAlways` | | `TypeOK` |
| `LeaseCoversWriteAlways` | | no takeover overtakes a write |
| `PositionNamesOneChunkAlways` | `QueueSurvives` | nothing that is sent again is renumbered |
| `NoSilentLossAlways` | `QueueSurvives` | a chunk is held, reported or in the pane |
| `ImplementsInputLogAlways` | `WritesComplete` | `TerminalInput` implements `InputLog` |
| `AtMostOnceAlways`, `AppliedInTypingOrderAlways` | `WritesComplete` | what that means for the pane: nothing twice, a page's chunks in the order typed |

`QueueSurvives` excludes `"early"`, `"age"` and `"swap"`: a page types once it was
attached, keeps its transport, and no chunk outlives its age. `TerminalInput_early`,
`TerminalInput_expired` and `TerminalInput_swap` break `NoSilentLoss` with one of the
three each, so none can be dropped. Refused and abandoned writes, lost connections,
takeovers, closed streams and restarts are all allowed. `WritesComplete` excludes
`"interrupt"` as well, and `input_twice` shows that it has to. That typing order
survives even that within one attachment is what `input_everything` checks and no
theorem states.

`Typing` is `TypeOK` with what its induction needs: the Session attached is the last
one minted, a page uses connections it opened, every frame and message has the
fields of its kind. `LeaseCoversWrite` is inductive over it, because the lane
serves nothing while a mutation is in progress and a connection is retired only
after its mutation is gone.

The first invariant of `InputLogProofs` is `Numbering`. For each page, `PageInv` relates its
queue, its lease, its phase and everything on its way to it to the Session. An
acknowledgement may only cover positions whose chunks are in the pane (`InboxApplied`),
and to keep that, whoever is or will be the controller of the current generation has to
know, or be about to learn, every position applied before (`QueueReaches`,
`InboxReaches`, `InboxCovers`): otherwise a new controller would number a new chunk
with a position that is already acknowledged. What makes the messages meet the queue in
the right state is that all of them are of one epoch, in the order of their generations
(`InboxOrder`), never ahead of the Session (`InboxBehind`), and that a subscribed page
hears of every change (`Told`). `SentFrames` and `SentWork` say of each frame, and of the
mutation in progress, that its position still names its chunk or is behind the queue.
Each action has a lemma; those of one page go through a description of what the step
does to the page alone (`Typed`, `Read`), those of the agent through what it tells
(`Says`) and which frames it takes (`Drops`).

The second, `Order`, adds: a page holds its own chunks in the order typed
(`Ours`), the writer holds nothing but the command in progress (`Alone`), what a current
queue holds past the last position written is younger than what its page has in the
pane (`Ahead`), and so is the chunk being written (`Fresh`). `NextHeld` joins the two
invariants: the position after the cursor, if it was sent under the current lease, is
what the queue holds there. Under both, a step of the writer is a `Deliver` of the log
and every other step a `Type`, a `Settle` or a stutter, which is the refinement;
`Rising` carries the order of the pane.

`OutputStream` is proved for every script of output, every limit of the page and every
bound, from `OutputAssumption` (types) and, but for the last two, with everything in
`Events` allowed:

| theorem | hypothesis | states |
|---|---|---|
| `TypeOKAlways` | - | types; no page holds more frames than its limit, and what it waits for is asked |
| `LevelWinsAlways` | - | no held resize is applied after a size that came outside the stream |
| `HeldIsBehindAHoleAlways` | - | a held frame is never the next one, and an attached page never rests on held frames without a request or a stated loss |
| `ShownOnceAlways` | `InTime`: no request misses its deadline, no connection is lost between the snapshot and the answer of an attach | no position is written to the renderer twice, and none behind a later one |
| `BufferHonestAlways` | `Calm`: none of `"early"`, `"lag"`, `"swap"` and `"burst"` happens; slow and refused requests, evictions, restarts and losses at any other time do | an attached page shows everything since its snapshot, or states that it may not |

The operators of the page call each other, so each has a lemma of one form: from a
`Sane` page (types, the limit, `Told`: a resize that a level overtook is superseded or
passed, `Asks`: requests are of the page's epoch and the one waited for is among them)
it makes a sane page, and `Keeps` what the caller needs - the frontier never
regresses, nothing is invented beyond position `c`, the flags change only to a stated
loss. `Recover` is where held frames get their explanation, and what makes that an
invariant is `Rested`: a page that waits for nothing while it holds something has just
given a hole up and starts counting attempts anew. The merge of an answer and the
refusal of several requests are folds; `Merging` and `Refusing` are the functions the
folds are defined by, and the induction over them is one over the naturals (`Induction`,
from a well-founded order). The invariant `Inv` adds that the wire carries only what the
Agent recorded (`WireInv`), that no page knows more than the Agent (`Known`), and that an
answer is of the ring it was taken from (`HeardInv`).

Proving `HeldIsBehindAHole` corrected it twice. It used to say that what is held always
has a request: with two holes, giving up the lower leaves the frames behind the second
without one, so the stated loss is the other explanation. And it holds while attached
only: a page that lost its connection in that state asks for a repair with its next
attach, and a second loss leaves it with neither. TLC needs five attaches for that; no
run has so many.

`ShownOnce` needs the invariant `Seen` besides: what is on the screen lies behind the
frontier (`Behind`), except while an attach that was served is under way, when the
screen may already show the snapshot and the frontier is where the last connection left
it. Then the cursor of the attach is where both will be (`Due`), and all the wire still
carries lies behind that cursor (`Owed`). Its hypothesis is what keeps anything from
being written in between, and both halves are needed. A page that lost a connection with
frames held asks for the hole again; if the next snapshot covers those frames and the
deadline of that request, or a second loss, comes before the attach answer does,
`abandon` skips the hole and writes them over the newer screen: `skipHole` compares them
with the frontier, which is not the snapshot's yet, and concludes that "nothing already
applied is applied twice" (`streamReconciler.ts:652`). TLC finds it with `"slow"`
(`OutputStream_twice`) and with `"early"` and `"fail"`, in both cases with two
frames held and three attaches; `output_settles` checks `ShownOnce` under `InTime` with
these bounds.

`BufferHonest` speaks of an attached page; what makes it true happens before. The
invariant `Honest` says of each phase why the page may be trusted. A page is `Relied` on
when no loss is stated, or when the capture that xterm is parsing is about to take the
statement back. Between attaches (`AtRest`) such a page is in step - what it shows ends at
its frontier - and the epoch the runtime remembers is the page's, so that an answer with
another epoch states the loss. While a served attach is under way (`OnItsWay`) it is in
step, or it was repainted by a snapshot and will be in step with the cursor of the answer
(`Ready`); and the first frame on the wire is the one after that cursor (`Untaken`), for
as long as the page has taken none. `Wired`, which `ShownOnce` uses too, is what the wire
carries: one snapshot at most, ahead of everything else, only for an attach that asked for
it and at its cursor. The lemmas `RecoverReady`, `DrainReady` and `AcceptReady` show that
the operators of the page take a page that is ready to one that is, or to a stated loss.

None of the four exclusions of `Calm` can be dropped: TLC falsifies `BufferHonest` with
`"early"` and with `"lag"` (`OutputStream_early`, `OutputStream_lag`), with `"swap"`
(`OutputStream_swap`, a finding), and with `"burst"` under the constants of
`OutputStream_burst`: the frame that `accept` drops is missing from the buffer, and the
capture that is parsed next clears the gap the new epoch would have stated.

**Only model-checked:** typing order within an attachment when writes are abandoned,
`HeldIsAccounted` of `OutputStream` (TLC finds it to hold without `"burst"`, `"early"` and
`"lag"`, up to three attaches and two held frames, and each of the three to violate it),
and all liveness, which TLAPS does not cover under fairness. Every invariant and action property of a passing run is stated by a
theorem; the runs check the same on small instances.

## What is not modelled

- The relay path: `TerminalInput` is the direct path, where a frame is a
  position. The relay merges bursts.
- Unsequenced input (a transport before the cursor is known, old agents), resize
  and ping of `ConnectionManager`; explicit detach, which the web client never
  sends.
- Sequence numbers are unbounded naturals; the code's are `u64` and doubles that
  no session reaches.
- The clock: an age bound, a timeout, a heartbeat verdict and a grace period may
  pass at any time they are running.
- The relay's half of the output: `seedStreamCursor` ignores it, and its
  continuity is only observed.
- An unverified capture may overlap the frames behind it, which `TerminalController`
  accepts; what is doubled on the screen by it is not counted. Output without a
  position (old Agents), flow-control credit and parser acknowledgements.
- In a conversation: pages of the list (one answer stands for all), the content of
  items, counts of skipped records, items a provider deletes, the React hooks.
- In the dispatch of an Issue: a reconciliation of reviewer runs, which the code
  has not; the recoveries pinned to one run each, which are one action (`MaxRecoveries`);
  the rebinding of a reviewer run; expiry and signatures of tickets (`Fail` and
  `RefuseClaim` stand for their refusals); the publication itself; the events of the phases after
  `quality`, which no job reports. A second repair of an Issue is never bound:
  `Bindable` follows the two readers of the checkpoint, which know the first only,
  although `transition.mjs` allows three repairs. Acceptance, releases and metrics
  of the automation.
- Components with status `not_modelled` in `PROJECT.json`, with the reasons.

## Plan

1. `TerminalInput`, `AgentOwnership` and its theorems, `KeyedLane` and its
   theorems - done.
2. `OutputStream`, `Conversation` and its theorems - done.
3. `IssueOutbox`, `AgentDispatch` and its theorems - done.
4. `ControlClient`: the tmux client's pending commands, replies matched in
   order, tombstones of abandoned commands, `fail_all`, the event budget.
   Abstract specification: an answer is given to the command it belongs to.
5. `Outbound` (byte budget in front of a bounded queue) and `AgentOutbox`
   (coalescing classes, end of producers).
6. The relay's burst merge, as an extension of `TerminalInput` where a frame
   covers a range of positions.
7. Theorems: `TerminalInput` and its refinement of `InputLog`, the
   shape of an Issue's outbox, the window of `Conversation`, what `OutputStream`
   shows - done; `HeldIsAccounted` under `Calm`.
