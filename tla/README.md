# Formal models of the pi-code server core

TLA+ models, TLC runs and TLAPS proofs for the parts of this repository where
several activities share state: the event-sourced orchestration engine and its
projections, the workers that react to its events, the checkpoints they take,
the delivery of events to clients and a client's recovery when delivery fails,
the agent sessions with their processes and turns, and the terminals. Paths
below are relative to the repository (`src/`); `S/` stands for
`src/apps/server/src/`.

## 1. The system

A Node server (`apps/server`) owns projects, threads and agent sessions. A web
client talks to it over a WebSocket RPC; a desktop shell starts it. An agent
("provider": pi, Codex, Claude) runs as a child process and reports runtime
events.

```
 client --dispatch--> OrchestrationEngine --SQL tx--> event store, projections, receipts
   ^                        | PubSub of domain events
   |                        +--> ws.ts subscription --> client recovery --> client store
   |                        +--> ProviderCommandReactor --> ProviderService --> adapter --> agent
   |                        +--> CheckpointReactor --> git refs
   |                                   ^ runtime events
   +-- getSnapshot <-- projections     +-- ProviderService PubSub <-- adapter <-- agent
                                       +--> ProviderRuntimeIngestion --dispatch--> engine
```

| Component | State | Operations | What makes it hard | What makes it correct |
|---|---|---|---|---|
| Engine (`S/orchestration/Layers/OrchestrationEngine.ts`) | command queue, in-memory read model, PubSub; SQLite: events, projections, receipts | dispatch, process an envelope, reconcile after a failure, start | failures at each statement, lost commit replies, retries, crash between commit and publication | one decision per command id, on the state of the whole log; all events of a command or none; read model, tables, receipts, published events and answers agree |
| Decider and invariants (`decider.ts`, `commandInvariants.ts`) | none | command + read model -> events or refusal | requirements that depend on long histories | created once and first, archival alternates, no turn from a dropped plan |
| Projector (`projector.ts`) | the read model | one case per event | reverts over plans, checkpoints, messages; placeholders against real checkpoints | the read model is what the history says |
| Projection pipeline, snapshot query | tables, one sequence per projector | project in the transaction, catch up at start, snapshot | a second implementation of the projector; crash between projectors | tables and read model agree |
| Runtime ingestion (`ProviderRuntimeIngestion.ts`) | a queue, buffers per message | one case per runtime event | decides on a thread read before its dispatches | turn lifecycle, at most one placeholder per turn |
| Checkpoint reactor and store | a queue fed by two streams; git refs | baseline, capture on completion, capture on placeholder, revert | concurrent with ingestion; git between read and dispatch; four steps of a revert, any may fail | every turn captured, no placeholder left, refs and checkpoints agree, reverts answered |
| Subscription (`ws.ts`) | per client: next sequence, held events | snapshot sequence, replay, live, resequence | three reads at three moments while events are published | every event, once, in order |
| Keyed coalescing worker (`packages/shared`) | latest value, queued and active marks, queue | enqueue, drain, take, process, clean up | take and marking are two transactions; so are cleanup and requeueing | no value lost, drain waits for all |
| Drainable worker (`packages/shared`) | outstanding count, queue | enqueue, drain | forwarding from a PubSub is outside the count | drain means idle |
| Client recovery (`apps/web/src/orchestrationRecovery.ts`, `routes/__root.tsx`) | latest and highest sequence, what is in flight | classify, snapshot, replay, retry | failed requests, reconnects, events during recovery | no event skipped or applied twice; catches up |
| Provider command reactor, service, directory | shown session, row of the session directory, cache of turn starts | start, resume and stop sessions, mode changes, turns, interrupts | four copies of one fact (chosen, shown, remembered, running) written at different moments by three writers; restarts | a shown session is bound, what runs is what a restart would resume, one process, one conversation |
| pi adapter (`S/provider/Layers/PiCodexAdapter.ts`, `pi/PiRpc.ts`) | per session: active turn, last turn, tools, queue; pending requests | start, send, steer, interrupt, stop; read the process's lines | a turn's end is guessed from quiet; answers, timeouts and late output in any order | a turn is shown as it is held, worked on when completed, ended at last; what it says while it works for a turn under that turn |
| Claude and Codex adapters | one child process per session | protocol translation | external protocols | canonical runtime events |
| Terminal manager (`S/terminal/Layers/Manager.ts`) | sessions with process, history and queue of events; kill fibers; history files | open, write, resize, clear, restart, close, evict | output and exits between the waits of a call; several drain fibers; late writes; eviction | no process forgotten, its end noticed, history complete, listeners and files agree |
| Git services, startup, settings, keybindings, workspace, web stores, desktop | caches, files | I/O, parsing, view state | external tools | - |

Vendored and generated trees (`research/`, `.artifacts/`, assets, the marketing
site, build scripts) are not part of the system.

## 2. Modules

| Module | Stands for |
|---|---|
| `ReadModel` | the read model as a record, and `projectEvent` as `ProjectEvent`; `ModelAt(log)[n]` is the projection of the first n events, a recursive function |
| `Decider` | each command type's requirements (`Accepts`) and the events it becomes (`Decide`) |
| `CommandLog` | abstract: commands decided one at a time on the whole log, atomic multi-event appends, one verdict per id |
| `OrchestrationEngine` | detailed engine: one action per step of `processEnvelope`, with faults, crash and restart |
| `ThreadHistories` | what a log says of a thread, read off its events: creations, and which checkpoints and plans survive |
| `CommandHistory` | the store and its receipts, with `CommandLog` over the real decider and projector, and properties of histories; `OrchestrationEngine` extends it |
| `ThreadProjections` | one thread's messages, plans and turns, projected in memory and into tables, with the two computations of what a revert keeps |
| `ProjectionBootstrap` | the tables over crashes, restarts and upgrades: each projector catches up on its own |
| `ThreadCheckpoints` | what `thread.turn-diff-completed` and `thread.reverted` do to the checkpoints of the read model and to the rows of `projection_turns` |
| `CheckpointReactor` | provider, ingestion and reactor around one thread's checkpoints and git refs |
| `KeyedMailbox` | abstract: what a keyed coalescing worker promises |
| `KeyedCoalescingWorker` | the worker, one action per transaction |
| `DomainEventSubscription` | one client's subscription against the engine's commit, install and publish |
| `OrchestrationRecovery` | one web client: the recovery coordinator and the handlers of `__root.tsx`, against server, connection and failing requests |
| `PiTurns` | the turns of one thread as the pi adapter keeps them over a pi process |
| `ProviderSessions` | the session of one thread: chosen, shown, remembered and running |
| `TerminalManager` | terminals, their processes, events, histories and files |
| `OrchestrationEngineProofs`, `KeyedCoalescingWorkerProofs`, `CheckpointReactorProofs`, `OrchestrationRecoveryProofs`, `ProviderSessionsProofs`, `EventStreamProofs`, `ProjectionBootstrapProofs`, `TerminalManagerProofs` | theorems |
| `MC...` | instances for TLC |

`PROJECT.json` maps every definition to its lines. Definitions named "Mutant of
X" right before X are plausible bugs of X; each property is broken by one of
them, which shows that the property depends on that code.

### How state and actions correspond

*Engine.* `log`, `receipts`, `tables` are the SQLite tables (they survive
`Crash`); `readModel`, `queue`, `inbox` are memory. `pc` is the position in
`processEnvelope`, `envelope`, `start`, `pending`, `written`, `next`, `draft`,
`result` its locals. `Take` reads `dispatchStartSequence`; `LookupReceipt`
answers known ids; `DecideCommand` decides and opens the transaction;
`AppendEvent` is one turn of its loop (append, project in memory, project in
the tables); `Commit` writes the receipt and commits; `Install` replaces the
read model; `Publish` publishes one event. A failure leads to `ReadBack`,
`Reproject`, `InstallReconciled` and the same `Publish`; `RecordRejection`
writes the receipt of a refusal; `Settle` completes the deferred. Payloads are
abstracted to the ids and counts that decisions and projections look at. Any of
the failures may meet any other. A read-back that fails although there was
something to read (`ReadBackFails`) leaves the read model behind the log: the
history variable `stale` remembers it until the next start, and the properties
that cannot hold after it name it. `tables` are rows in the abstract, made with
the projector of the read model; what the real pipeline does otherwise is the
subject of `ProjectionBootstrap`.

*Checkpoints.* An event takes two routes, to `ingestion` and to `runtime`,
because both workers subscribe to the provider's PubSub; dispatches add to
`domain`, because the reactor subscribes to the engine's. A dispatch is one
step (the engine module is about its inside). Ingestion keeps what it read at
the start of an event (`ingesting.seen`, `.active`); the reactor reads, then
does git work (`Capture`, `Restore`, `DeleteRefs`), then dispatches (`Record`,
`CompleteRevert`), and other steps come in between. `refs` is a function on the
counts that have a git ref; a ref holds the set of edits in the working tree
when it was taken, so a stale or overwritten ref shows. The thread has a session in a git workspace: in all other cases every
handler returns at once. `deleteCheckpointRefs` may stop with any of its refs
gone. `lost` remembers whether the report of a failed revert was lost, and the
refs that a revert deleted which was not recorded. A diff is two dispatches of
ingestion, the heartbeat of the session (`Heartbeat`) and the placeholder
(`IngestDiff`), with the reactor in between.

*Keyed worker.* The nth value of a key is n and merging is union, so `handed`
shows what was lost or repeated. `enqueue` is one transaction including its
offer; `Take`/`Begin` and `Cleanup`/`Requeue` are two each, as in the code.

*Subscription.* The engine is reduced to three counters, the last event in the
store, in the read model, and published. `ReadModelSequence`, `ReadReplay` and
`SubscribeLive` are the three reads; `Resequence` is the `Ref.modify`.

*Client recovery.* `c` is the coordinator's state, its methods are operators
from one such record to the next, and a handler composes them as the code does:
`OnDomainEvent`, `Resubscribe`, `OnWelcome`, `SnapshotArrives`, `ReplayArrives`,
`RetryTimer` and the two failures each run to their end, because JavaScript
does. At most one request is in flight, so its answer is one variable; it is
read from the store at one moment (`Answer`) and arrives at a later one. A
pending event is applied by `Flush`, a microtask, so no answer or timer comes
before it, but another event or a welcome may. `store` counts how often each
event was applied, since a message's text is appended to. `gaveUp` remembers
that the last recovery was a snapshot that failed. A subscription delivers in
order what was published after it began, the part of `DomainEventSubscription`
that holds always; that deliveries come at all is not assumed.

*Projections.* `thread` is the read model of one thread, `tables` its rows,
`applied` the table `projection_state`. A command's events are decided,
projected by every projector and committed in one step (`Commit`; the steps in
between are `OrchestrationEngine`'s). After `Crash`, `Start`, `ReadState`,
`RunProjector`, `NextProjector` and `Serve` are the bootstrap, one event of one
projector at a time, with the limit of one read; `Upgrade` is a start of a
version with new projectors, whose tables and rows do not exist yet. A revert
reads rows that another projector writes, so the order of projectors matters.
Only messages, plans and turns have content; the other projectors are a
sequence number.

*pi turns.* A step is what runs between two waits for an answer of the process
(JavaScript). `stdin` and `stdout` are pipes; `call[c]` is the answer `sendTurn`,
`interruptTurn` or `stopSession` waits for. `Schedule` is
`schedulePendingTurnCompletion`, `QuietPeriodOver` its timer, `LookAnswered`
what follows the request for the state. `told` counts the `turn.started` and
`turn.completed` that were published. The process is external: it takes
commands in order, works, opens tools, ends a run, goes on with a queued
message, speaks late, refuses a model, hangs (`TimeOut`) or exits. A line is
`late` when the process had already finished a run for its turn: `OutputIsFiled`
allows only such output to come under another turn, and only a later one.

*Sessions.* `mode` is what the user chose, `session` what the read model shows,
`binding` the row, `registered` the adapter's entry, `orphans` processes in no
map any more. `call[c]` is a caller inside ProviderService: the reactor, which
handles one intent after the other, or a streaming message. Places are named
for what the caller does next, so each wait of the code is a place. Ingestion
reads the thread (`IngestRead`) and writes the session (`IngestWrite`) in two
steps. `ServerStops` is a crash or an orderly shutdown.

*Terminals.* `session` holds the objects, also those no longer in the map
`sessions`, because calls and drain fibers keep them. A call is atomic between
its waits: for the write of a history (`Drained`), for the spawn, and for
listeners. An output or exit appends to the queue and, when no fiber drains it,
starts one, whose first turn is part of the step; every event it hands on is a
wait, after which it takes another turn (`Delivered`), whatever happened to the
session meanwhile. `waiting` and `writing` are the persistence worker, taken
from what `KeyedMailbox` promises. `owed`, `left` and `races` are history
variables. Events are seen by a listener in the order they are published.

## 3. Runs

| Run | Question | Bounds, and why they are enough |
|---|---|---|
| `engine` | Do log, read model, receipts, published events and answers agree under failing lookups, rolled back transactions, lost commit replies, failing read-backs, unwritable refusals, crashes and restarts? Does the engine implement `CommandLog`, and is every call answered? Which of this is lost, and for how long, when a read-back fails after a lost reply? | a project, a thread, and a turn start (a two-event command) dispatched twice, one subscriber; crashes unbounded. Two calls of one command are what a duplicate or retry is; two events are the longest command; every order of the four has refusals |
| `histories` | Are surviving plans and single creation what the history of events says? | 8 plan commands, 8 commands about one checkpoint or 8 life commands in every order (`OneFamily` keeps the three apart); two upserts, two checkpoints and a revert is the least history in which a plan's survival depends on an earlier event, and a capture between two placeholders of another count shows each way a checkpoint is replaced or not |
| `checkpoints` | Do the two workers, in any interleaving, leave no placeholder and capture what they should; do refs and checkpoints agree and are reverts answered? | two turns of a diff each (overlapping turns need two, a placeholder one diff), or one turn with two diffs (the second after a capture), a revert and every failure |
| `bootstrap` | Is every event projected over crashes and upgrades, does the snapshot claim no more than it holds, do the two projections agree, are rebuilt tables the old ones, but for reverts replayed to tables of turns that are empty or over counts that are not sound? | eight events of two turns (messages, answers, plans, checkpoints of any count after a given one, reverts), seven when the server crashes, a limit of six for 1000, so that an upgrade may exceed it; one crash at any step, and the two migrations that brought projectors |
| `keyed_worker` | Is no value lost or handed on twice, does drain wait and return, is it a mailbox? | two keys, three values each (one queued, one during the run, one during the next), failing at will |
| `subscription` | Are events delivered in order, once, and all unless lost in the one window? | five events in commands of one or two, replay may fail |
| `client_recovery` | Is the client's store whole, whatever overlaps, fails and is retried, and is all it was told of applied? | three events (one applied, one deferred, one that shows a gap), two lost connections, one welcome besides the first snapshot, two failed requests (a replay and the snapshot after it), one retry without progress where the code allows three: giving up earlier is the harder case |
| `pi_turns` | Are turns shown as they are held, completed when worked on, ended at last, and is what is said before a run ends filed under its turn, what is said later under that turn or a later one? | two turns (the race of one with the next), two looks at once, and nine budgets (below) |
| `sessions` | Do chosen, shown, remembered and running session agree; one process, one conversation? | one thread, both adapters, ten budgets |
| `terminals` | Is a process ever forgotten, its end missed, its output lost or doubled; do listeners and files agree with the session? | two terminals of two threads with one retained session in place of 128, so that one's end evicts the other; three objects, processes and fibers at one time; three budgets |
| `lost_event`, `session_modes` | disagreements with a test, below | as small as shows them |

Bounds on counters are the constants marked "bound" (`MaxDiffs`, `MaxReverts`,
`MaxSends`, `MaxEvents`, `MaxDrops`, `MaxWelcomes`, `MaxFailures`, `MaxCrashes`,
`MaxReplayed`, `MaxTurns`, `MaxLooks`, `Calls`, `OneFamily`). Three modules have a set
`Budgets`: how often each kind of thing may happen, one member chosen at the
start. It explores pairs and triples of kinds together (a stop with an exit, a
late line with a steered message) where the product of all of them would be out
of reach; the proofs about `ProviderSessions` are for any `Budgets`.
`CHECK_DEADLOCK FALSE` is used because each run ends when its bounded inputs
are used up.

The type invariants are proved, or were checked while the models were made, and
are not part of the runs; so are the inductive invariants of the proofs, and
`WaitingIsReachable`, which is proved.

### Fairness

`EveryCallIsAnswered`: weak fairness of the engine's worker; it is one fiber
under `Effect.forever`, and every failure inside `processEnvelope` is caught by
`Effect.exit`. `EveryRevertIsAnswered`: weak fairness of ingestion and of the
reactor, each a forked fiber that catches its failures. `EveryKeyIsDrained`:
weak fairness of the worker's fiber, and every call of `process` ends.
`DeliveredUnlessLost`: weak fairness of the engine's install and publish, and
of the subscription's stream. `ObservedIsApplied`: weak fairness of microtasks
and timers, of the server's answer and of its arrival or failure; a request is
answered or fails. It speaks only of events the client has seen the number of,
so it needs no fairness of deliveries or connection. `EveryTurnEnds`: weak
fairness of timers and of reading (Node's event loop), and that a process that
is alive takes its commands, closes its tools and comes to the end of a run, and
that one whose stdin was closed exits; a request the process does not answer
times out in the code, and the model lets it. Nothing is assumed of clients, the
provider otherwise, crashes or faults.

## 4. What the runs found

* `lost_event` - an event published between the replay and the live
  subscription of a client is in neither; the resequencer then holds all later
  events, without bound, until the client reconnects.
* `session_modes` - a change of the runtime mode does not restart the process
  of the pi adapter, which returns the session it has; the session is shown in
  the new mode. The test that says otherwise uses a mock adapter.

Seen while modelling, and stated as exceptions of properties that hold, by
name, or only noted here. Each exception was tried: without it the property
fails (of the exceptions about counts, two in a larger instance than that of the
run).

*Engine.* `stale`: the commit's reply is lost and the read-back fails as well
(`OrchestrationEngine.ts:238`, which logs it). Until the next start the read
model misses those events, the next command is decided on it (so a thread may be
created twice), later events are projected onto it, and its subscribers never
get the events in between. Receipts, answers and the end of every call are not
affected (`ReceiptsMatchLog`, `AnswersAreTrue`, `EveryCallIsAnswered`), and a
start repairs the read model.

*Checkpoints.* Two turns can get one count, hence one git ref: ingestion and
reactor each compute "highest count plus one" from a read model the other is
about to change. A placeholder's event that is processed after a revert makes
the reactor capture, and so bring back, the reverted turn. A turn without a diff next to another turn may never be captured
(`TurnsAreCaptured`); a turn is captured when its first diff is seen, its
completion is then skipped, and later edits are in no checkpoint of it; the
reactor captures an interrupted turn a second time on the event of its own
capture, whose status is that of a placeholder; a turn's count can change when
placeholder and capture race; a revert that fails while or after it deletes refs
(`deleteCheckpointRefs` stops on its way, or the last dispatch fails) is not
recorded and leaves captured checkpoints without their refs (`lost.refs`,
excepted in `CapturesHaveRefs` count by count).

*Projections.* The projector's guard against late placeholders
(`projector.ts:542`) has no counterpart in `projection_turns`: a restart shows a
placeholder where the running server had a captured checkpoint. User messages
carry no turn: the read model keeps the first n of them after a revert to n,
the tables those that started a surviving turn, so the two differ when message
n did not start turn n, for example after two messages for one turn (`even`).
A revert deletes the pending row of a message sent just before. Tables of turns
that are rebuilt with a revert in the log do not know the surviving turns, and
messages and plans of them are dropped (`RevertsReplayedWrongly`). Plans that
are rebuilt over rows that were not suffer from counts that are not sound
(`CountsAreSound`). A count is computed from a thread read some time ago, so the
model gives a checkpoint any count after one given before, to a new turn, to one
with another count and to one a revert has dropped (`CompleteDiff`). Then two
turns can share a count, and the rows give it to the turn that came last
(`CountShared`); a turn's count can change (`TurnsKeepCounts`); and a revert can
meet a gap in the counts, as after a stale placeholder has brought a turn back
above it (`RevertsMeetCounts`). In each case a plan that the first projection of
the revert dropped or kept is kept or dropped in the replay. The shortest
logs we know have ten events for the first, seven for the second and twelve for
the third; the run replays seven. A projector with more
than 1000 events outstanding, which only an upgrade brings about, loses those
past 1000, because the next event takes its sequence past them (`OverLimit`).

*pi turns.* `stale_look`: `finalizeTurnCompletion` does not look again at
`session.activeTurn` after its await, so that a look that outlives its turn ends
it twice, or ends the next one. `overtaken`: while `sendTurn` waits for the model
to be set another caller starts a turn, which this one replaces. `given_up`: a
prompt that times out fails the turn while the process works for it.
`look_failed`: when the question for the state fails, the turn stays open
(`schedulePendingTurnCompletion` only reports an error). `reopened_by_notice`: a
line that is no activity revives an ended turn without scheduling its end. A
message steered in at the very end of a turn is worked on after it.

*Sessions.* A crash between the steps of a stop leaves a thread shown as live
without a row, which can then neither be sent to nor stopped; a message that
comes during the stop leaves a running process without a row. Two callers that
start a session at once start two processes (`two_starts`). `left_running`: the
pi adapter has spawned its process when the first requests to it (`get_state`,
`set_model`) fail or time out; nobody closes it, it is in no map, and the next
message starts a second one on the same session file. An event that was read before a
change writes the session as it was (`stale_ingest`), and one that arrives after
a stop shows the session as live again (`revived`). A process replaced by the
Claude adapter goes on until it ends, and its end then removes the new entry.

*Terminals.* `unkilled`: when SIGTERM or SIGKILL cannot be sent (`KillFails`), the
fiber logs that and is done; the process runs on and nobody holds it. `evicted`: a session that does not run yet is evicted when its call
waits, and its process is then in no map. `stale_drain`: a drain fiber of the
process before a restart wakes up late and empties the queue of the new one.
`exit_cleared`: clear drops a queued exit, and the terminal stays "running".
`said_while_clearing`: output that comes while clear waits is erased at the
listeners. `undeleted`: deleting a thread's histories does not wait for the
pending write of an evicted session, which brings the file back. `unwritten`: a
failed write is only logged. Besides, a server that shuts down interrupts the
fibers that would send SIGKILL, and pending histories.

In the client's recovery: after a failed snapshot the events deferred
meanwhile stay unapplied until another event, a resubscription or a welcome,
and when the snapshot was itself the fallback of a failed replay only a welcome
helps, because replays are refused while the client is not bootstrapped (the
comment in `runSnapshotRecovery` speaks of "a later replay attempt"). Both are
the exception `gaveUp`. And `onResubscribe` asks for the replay before the new
subscription begins, so an event committed between the two is seen only with
the next one.

## 5. Proofs

For all values of the constants, under the named assumptions:

* `OrchestrationEngineProofs` - `TypeCorrect`, `ReadModelCorrect`,
  `EngineImplementsCommandLog`, all from `EngineInvariant`.
  The read model and the refinement are not inductive by themselves: deciding
  on the current state needs that the read model is the whole log whenever the
  worker decides; after a failure that needs that everything the store has
  beyond `dispatchStartSequence` fits into one read-back, hence at most one
  command's events (`LagIsOneCommand`), hence that the read model was current
  when the command was taken (`StartIsTheReadModel`). `CommandIsUndecided`
  carries the absence of a receipt from the lookup to the commit,
  `TransactionFollowsDecision` what was appended and projected so far.
  Assumption `EngineAssumption`: the read limit is at least two events. What
  speaks of the read model, in the properties and in the invariant, speaks of it
  as long as no read-back failed after a lost reply (`~ stale`); what speaks of
  receipts and answers needs no such exception.
  The module begins with the lemmas on projecting longer logs.
  `ReceiptsCorrect`, `AnswersCorrect`, `SubscribersCorrect` and
  `CoverageCorrect` follow from `EngineInv` and `AnswersInv`. A receipt is written only while there is none (`CommandIsUndecided`), so what was
  said of it stays true; `ResultIsTrue` has the answer true before the caller
  gets it. `PublishedFollowsLog` says at each step how far the last published
  event is behind the log, and that what the worker holds starts right after it:
  the read model is installed first, so it covers what is published.
  `PlansSurviveReverts`, `TurnsStartFromSurvivors` and `ThreadsAreCreatedOnce`
  are about every history of the command log, and `EngineHistories` about every
  log of an engine that is never stale, because it then implements it
  (`Spec /\ []~ stale`). The read model keeps only current
  plans and checkpoints, so the invariant (`HistoryInv`)
  says that they are the ones that survive the log: `ProjectsFollow`,
  `ThreadFollows`, `CreatedFirst`, `StartedFromSurvivors`. It is carried over
  one event at a time, given that the event fits the read model it is decided
  on (`Fits`: what the decider has required). Checkpoints are the hard part: a
  late placeholder never counts, so whether a checkpoint survives depends on
  which earlier one was in force (`TooLate`, `NoPlaceholderBeside`). Nothing is
  assumed of the counts, which do change when placeholder and capture race
  (section 4); of the commands, that the fields their schemas require are there
  (`DeciderAssumption`).
* `CheckpointReactorProofs` - `CapturesKeepRefs`, `PlaceholdersBecomeCaptures`,
  `TurnsEndCaptured`, for any turns, diffs, reverts and failures.
  `RefsFollowCheckpoints`: a ref is written before its checkpoint, and a revert
  deletes only refs above its target, whose checkpoints it then drops in the
  same order; what was recorded at such a count in between is dropped with them,
  or, when the revert is not recorded, its ref is among those `lost` remembers.
  `PlaceholdersAreAttended` says where the work on a placeholder is, its event
  on the way to the reactor (`Announced`) or the reactor at it (`Capturing`); it
  needs that a turn has one checkpoint (`OneEach`), or a capture would hide a
  placeholder beside it. For completed turns the two workers judge a completion
  by what the other has done: a turn with a diff ends captured because of its
  placeholder (`DiffsAreRecorded`), and the only turn because nothing can make
  the reactor skip its completion (`OnlyTurnIsAttended`, with
  `NamesBegunTurns`: no event is about a turn that has not begun).
* `KeyedCoalescingWorkerProofs` - `WorkerInvariant`, `WaitingKeysAreReachable`,
  `DrainIsComplete`, `WorkerImplementsMailbox`. `Marks` says where each mark
  comes from: a key is marked queued iff it is in the queue, once, or in the
  fiber's hands before `Begin` or `Requeue`; without "once" the second take of
  a key would clear the mark of the first.

* `OrchestrationRecoveryProofs` - `RecoveryInvariant`, `StoreIsWhole`,
  `NothingIsForgotten`. That a snapshot never takes events back needs that an
  answer in flight is as recent as everything applied since it was asked for,
  with the pending event counted; that no event is applied twice needs that the
  subscription is past the pending event until it is flushed. That the retries
  do not stop too early needs that an answer covers what was known at the last
  retry: a second try without progress at the same frontier proves that there
  is nothing to fetch, so any limit but zero will do (`RecoveryAssumption`).

* `ProviderSessionsProofs` - `TypesHold`, `OneProcessHolds`,
  `BoundAsItRunsHolds`, `OneConversationHolds`, `ShownSessionsAreBoundHolds`,
  `ShownAsChosenHolds`, for any budgets. `OneStart` says
  that, until two starts have overlapped or a failed start has left its process, at most one caller is between looking
  for a process and having one, so nobody starts a second. For the row,
  `RowInv` follows a caller through its places: `Ways` lists for each place what
  the caller's record, the row, the entry and what was last spoken to have to do
  with each other, `RowFollows` says that outside a start the row is the entry,
  and `SameConversation` that whatever a caller is about to start is the
  conversation of the row, because a start without cursor takes the row's.
  What is shown is written by two: `EventsEnd` says that the last event of a
  session without a process is that it stopped, hence (`ShownFollows`) that a
  thread shown without a row is about to be shown as stopped; and `ModeFollows`
  that the mode chosen last is shown, or is on its way in a queued change or a
  start, events in hand being of a session that was shown before.

* `TerminalManagerProofs` - `NoProcessIsForgottenHolds`, `EndIsNoticedHolds`,
  `HistoryIsCompleteHolds`, `ShownAsHeldHolds`, `FileIsCurrentHolds`, for any
  terminals, threads, processes, fibers and budgets, from `AllInv`. Its parts
  are operators of the state, because an eviction follows most steps: each step
  is shown to establish them `Middle`, for the sessions and objects it makes
  before it evicts, and one lemma (`StepFromMiddle`) carries them over the
  eviction of any objects that do not run. `Sound`: no two objects have one
  process, each process has an object or was let go (a fiber ends it, or could not:
  `LetGo`), and a marked
  object has a fiber that will come for its queue (`ObjectInv`); `Table`: the
  object a call works on has no process until it spawns one, and nobody else
  works on it. The properties of a running session say nothing of one being
  started, so `Complete` also covers the objects of calls that start
  (`Works`); `Filed` speaks of a write that waits, one under way and the file,
  in this order. Each part is given up once the race happened that its property
  names, no earlier. The assumption `TerminalAssumption` gives the constants
  their types.

* `EventStreamProofs` - the two ends of the stream of events: `PiInvariant`,
  `TurnsAreShownAsHeld`, `OutputGoesToItsTurn`, `OnlyWorkIsCompleted` of
  `PiTurns`, for any turns, looks and budgets, from `PiInv`. Everything between
  adapter and process passes the two pipes, so the invariant speaks of what lies
  in them. `NoProcess`: an exit empties both. `TurnsAreBegun`: turns are begun in
  order and nothing in the pipes is about a later one, so a turn that begins is
  new to everybody. `RunsAreOfTurns`: what the process says is about a turn.
  `AnswersAreAwaited`: a caller has at most one command or answer in the pipes,
  the one it waits for; otherwise the answer to an earlier command could begin
  or fail a turn. As long as no look outlived its turn and no turn was started
  while the model was being set, `Shown` counts each turn as ended unless it is
  the active one, and (unless a turn was given up) `RunsAreFollowed` has the
  process work for, and the pipes speak of, no turn after the one output is
  filed under; `EarlyIsActive` says that what the process said before it finished
  the run of a turn is about the active one, because nothing can find the
  process idle before those lines are read (`EarlyBeforeIdle`). `LooksFollowWork` is about order within the pipes: a look stands
  behind the prompt of its turn, and an answer that finds the process idle behind
  the refusal of that prompt, or the turn was worked on. The races are given up
  part by part, as the properties are.

  In the same module, `DeliveryIsInOrder` of the subscription, from
  `SubscriptionInv`: the next sequence is the one after all that was sent, and
  whatever is held, to be replayed or queued is an event of the store. Inserting an event into the
  held ones sends the run of consecutive events up to the first gap; that there
  is a first gap (`LeastNatural`) is where the bound on stored events is used.
* `ProjectionBootstrapProofs` - `RunningIsProjected`, `SnapshotsAreCovered`, from
  `BootstrapInv`. `Behind`: only a projector an upgrade introduced lags, and once
  the server runs only if the log exceeded one stream. `StreamReachesTheEnd` and
  `EarlierHaveCaughtUp` carry that through bootstrap and crashes. The snapshot's
  sequence leaves the projector of turns out; its rows are covered all the same
  because turns run before checkpoints and get at least as far
  (`CheckpointsFollowTurns`), given that no upgrade introduces turns without
  checkpoints (`BootstrapAssumption`, true of the repository's migrations).

  `ProjectionsAgreeHolds`, from `AgreeInv`. What tables and read model hold was
  said in the log (`OfLog`, `LogIsWellFormed`). Both computations of a revert fill
  up with the oldest messages of the user until there are n; `Aligned` says that
  the turns kept in the rows are those kept in the checkpoints, and that the
  messages known to have started them are among the first n, which the read
  model keeps without knowing (`RetainAgrees`).

  `RebuiltAsBeforeHolds`, from `RebuildInv`. Every projector but two reads only
  its own table, so replaying its events gives what it gave before; messages and
  plans read at a revert the rows of turns, which in a replay are those of the
  whole log. Messages come with turns (`MessagesComeWithTurns`, migration 5), so
  they are replayed only when `RevertsReplayedWrongly` has excluded reverts. For
  plans the rows of turns are there, and a plan survives the replay if its turn
  has a count now that is not above that of any revert since
  (`ReplayedPlans`), and had survived at first if at each of these reverts its
  turn had a count in force (`SurvivesAll`). That the two are the same is a
  fact about the log, as long as its counts are sound (`CountsAreSound`): the count a turn
  has now was in force at each revert that keeps it, since the revert met a
  diff of that count and it can only be of the same turn (`KeptHaveSurvived`),
  and a turn that every revert kept still has the count it had at the first of
  them (`SurvivorsAreKept`). Soundness is a premise about the log and never a
  consequence of how the model gives counts: they may leave gaps, change and
  return. `CountsFollow` adds that the rows then show the counts in force
  (`Counted`). `LiveFollows` ties the tables that were
  kept up to the log, `Rebuilding` those that are rebuilt to them.
  `TypesHold` follows from the three invariants. None of this bounds the log,
  the turns, the crashes or the sets of projectors that upgrades bring.

`AgreeInv` and `RebuildInv` were checked with TLC on the instance of `bootstrap`,
`PiInv` on that of `pi_turns`, before they were proved.

Only model-checked: liveness (fairness and ENABLED are out of TLAPS's reach).
Every invariant of a run is a theorem. No module with a theorem, or below one, declares a
RECURSIVE operator: `ModelAt` is a recursive function.

## 6. Not modelled

Left out inside modelled parts: message texts, activities, the size limits of
read model (500 checkpoints, 200 plans, 2000 messages) and snapshot (50, 50,
200), so the models are about threads below them; attachment files; the latest
turn of a snapshot, which is computed in another way than that of the read
model. Of the sessions: approvals and answers to questions, the restart of
Claude for another model, and starts that never end. Of the terminals: write and
resize (they hand on to the process), polling for subprocesses, the choice of a
shell, sanitising and capping of a history, migration of old files, shutdown;
`updatedAt` values are taken to be distinct. Of the client: remounting of the
route.

Not modelled at all: the drainable worker (a counter and a queue, used by tests
to wait), CodexAdapter with codexAppServerManager and the payloads of all
adapters (external protocols), discovery and logs, git and workspace commands,
checkpoint diffs (read only), startup, files and settings, view state of the web
client, the desktop shell. `research/`, `.artifacts/` and other vendored trees
hold most of the repository's lines and are not this program.

Next would be: the gate that holds commands back until startup is complete
(`S/serverRuntimeStartup.ts`); `OrchestrationRecovery` over
`DomainEventSubscription` in place of its own environment.
