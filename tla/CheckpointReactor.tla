--------------------------- MODULE CheckpointReactor ---------------------------
(***************************************************************************)
(* How the checkpoints of one thread come about.  The provider reports a   *)
(* turn's start, diffs and completion; ProviderRuntimeIngestion records    *)
(* the first diff as a placeholder checkpoint; CheckpointReactor captures  *)
(* the workspace into a git ref when the turn completes or a placeholder   *)
(* appears, takes a baseline before a turn, and reverts on request.        *)
(*                                                                         *)
(* Ingestion and reactor are two workers with a queue each.  Both read the *)
(* read model, do slow work, and dispatch what they decided on what they   *)
(* read.  A dispatch is one step here: OrchestrationEngine is about what   *)
(* happens inside it.  The thread has a provider session with a workspace  *)
(* that is a git repository.                                               *)
(***************************************************************************)
EXTENDS ThreadCheckpoints, Sequences

CONSTANT Scenarios  \* bounds of what the provider and the clients do, and faults

\* turns: the turns, in the order the provider runs them
\* diffs, reverts: how many a turn reports, how many clients request
\* faults: the steps that may fail
ASSUME ReactorAssumption ==
  /\ Scenarios \subseteq [turns : Seq(Turns), diffs : Nat, reverts : Nat,
                          faults : SUBSET {"capture", "restore", "rollback", "delete", "dispatch"}]
  /\ None \notin Turns

VARIABLES
  scenario,    \* the one of this behaviour
  checkpoints, \* of the thread in the read model
  activeTurn,  \* session.activeTurnId in the read model
  refs,        \* git: the edits each ref holds, by the count it names
  workspace,   \* the edits in the working tree: <<turn, k>>, its k-th
  sent,        \* how many turns clients have asked for
  begun,       \* how many turns the provider has started
  running,     \* the turn the provider runs
  diffs,       \* how many diffs it has reported
  ingestion,   \* queue of ProviderRuntimeIngestion
  ingesting,   \* the event it processes, what it read, whether it took a diff as heartbeat
  domain,      \* domain events on their way to the reactor
  runtime,     \* runtime events on their way to the reactor
  job,         \* what the reactor does now
  requested,   \* reverts requested
  answered,    \* reverts completed or reported as failed
  lost         \* history: whether the report of a failed revert was lost, and the
               \* counts whose refs were deleted by a revert that was not recorded

model    == <<checkpoints, activeTurn>>
git      == <<refs, workspace>>
provider == <<sent, begun, running, diffs>>
vars == <<scenario, model, git, provider, ingestion, ingesting, domain, runtime, job,
          requested, answered, lost>>

TurnOrder == scenario.turns
MaxDiffs == scenario.diffs
MaxReverts == scenario.reverts
Faults == scenario.faults

\* hasCheckpointRef, and git update-ref.
HasRef(n) == n \in DOMAIN refs
WithRef(n) == [m \in DOMAIN refs \cup {n} |-> IF m = n THEN workspace ELSE refs[m]]

RuntimeEvent(type, turn, state) == [type |-> type, turn |-> turn, state |-> state]
DomainEvent(type, turn, count, status) ==
  [type |-> type, turn |-> turn, count |-> count, status |-> status]
NoEvent == RuntimeEvent("none", None, None)
Nothing == [event |-> NoEvent, seen |-> {}, active |-> None, heard |-> FALSE]
Idle == [step |-> "idle", turn |-> None, count |-> 0, status |-> None,
         stale |-> {}, current |-> 0]
Job(step, turn, count, status) ==
  [Idle EXCEPT !.step = step, !.turn = turn, !.count = count, !.status = status]

Init ==
  /\ scenario \in Scenarios
  /\ checkpoints = {} /\ activeTurn = None
  /\ refs = <<>> /\ workspace = {}
  /\ sent = 0 /\ begun = 0 /\ running = None /\ diffs = 0
  /\ ingestion = <<>> /\ ingesting = Nothing
  /\ domain = <<>> /\ runtime = <<>> /\ job = Idle
  /\ requested = 0 /\ answered = 0 /\ lost = [report |-> FALSE, refs |-> {}]

-----------------------------------------------------------------------------
(* The provider and the clients. *)

\* thread.turn.start: the provider will begin when it is done with the last one.
SendTurn ==
  /\ sent < Len(TurnOrder)
  /\ sent' = sent + 1
  /\ domain' = Append(domain, DomainEvent("thread.turn-start-requested", None, 0, None))
  /\ UNCHANGED <<model, git, begun, running, diffs, ingestion, ingesting, runtime,
                 job, requested, answered, lost>>

\* A turn makes its first edit; ProviderService publishes its events to both workers.
StartTurn ==
  /\ running = None /\ begun < sent
  /\ LET t == TurnOrder[begun + 1]
         e == RuntimeEvent("turn.started", t, None)
     IN  /\ running' = t
         /\ workspace' = workspace \cup {<<t, 0>>}
         /\ ingestion' = Append(ingestion, e)
         /\ runtime' = Append(runtime, e)
  /\ begun' = begun + 1
  /\ diffs' = 0
  /\ UNCHANGED <<model, refs, sent, ingesting, domain, job, requested, answered, lost>>

\* One more edit, and its diff; the reactor does not listen to turn.diff.updated.
UpdateDiff ==
  /\ running # None /\ diffs < MaxDiffs
  /\ workspace' = workspace \cup {<<running, diffs + 1>>}
  /\ ingestion' = Append(ingestion, RuntimeEvent("turn.diff.updated", running, None))
  /\ diffs' = diffs + 1
  /\ UNCHANGED <<model, refs, sent, begun, running, ingesting, domain, runtime, job,
                 requested, answered, lost>>

\* The state is what checkpointStatusFromRuntime makes of it.
CompleteTurn(status) ==
  /\ running # None
  /\ LET e == RuntimeEvent("turn.completed", running, status)
     IN  /\ ingestion' = Append(ingestion, e)
         /\ runtime' = Append(runtime, e)
  /\ running' = None
  /\ UNCHANGED <<model, git, sent, begun, diffs, ingesting, domain, job,
                 requested, answered, lost>>

\* thread.checkpoint.revert is accepted for any existing thread.
RequestRevert(n) ==
  /\ requested < MaxReverts
  /\ domain' = Append(domain, DomainEvent("thread.checkpoint-revert-requested",
                                        None, n, None))
  /\ requested' = requested + 1
  /\ UNCHANGED <<model, git, provider, ingestion, ingesting, runtime, job, answered, lost>>

-----------------------------------------------------------------------------
\* thread.turn.diff.complete, decided, projected and published.
DispatchDiff(new) ==
  /\ checkpoints' = Complete(checkpoints, new)
  /\ domain' = Append(domain, DomainEvent("thread.turn-diff-completed",
                                        new.turn, new.count, new.status))

(* ProviderRuntimeIngestion. *)

\* processRuntimeEvent reads the thread once, before any of its dispatches.
Ingest ==
  /\ ingesting.event = NoEvent /\ ingestion # <<>>
  /\ ingesting' = [event |-> Head(ingestion), seen |-> checkpoints,
                   active |-> activeTurn, heard |-> FALSE]
  /\ ingestion' = Tail(ingestion)
  /\ UNCHANGED <<model, git, provider, domain, runtime, job, requested, answered, lost>>

Ingested ==
  /\ ingesting' = Nothing
  /\ UNCHANGED <<git, provider, ingestion, runtime, job, requested, answered, lost>>

\* thread.session.set, unless the event is of another turn than the active one.
IngestLifecycle ==
  /\ ingesting.event.type \in {"turn.started", "turn.completed"}
  /\ \/ activeTurn' = IF ingesting.active \notin {None, ingesting.event.turn}
                      THEN activeTurn
                      ELSE IF ingesting.event.type = "turn.started"
                           THEN ingesting.event.turn ELSE None
     \/ "dispatch" \in Faults /\ UNCHANGED activeTurn
  /\ Ingested
  /\ UNCHANGED <<checkpoints, domain>>

\* A diff is a heartbeat: it makes its turn the active one again if that is what
\* the provider runs.
Heartbeat ==
  /\ ingesting.event.type = "turn.diff.updated" /\ ~ ingesting.heard
  /\ \/ /\ activeTurn' = IF ingesting.event.turn \in {ingesting.active, running}
                         THEN ingesting.event.turn ELSE activeTurn
        /\ ingesting' = [ingesting EXCEPT !.heard = TRUE]
        /\ UNCHANGED <<git, provider, ingestion, runtime, job, requested, answered, lost>>
     \/ "dispatch" \in Faults /\ Ingested /\ UNCHANGED activeTurn
  /\ UNCHANGED <<checkpoints, domain>>

\* The first diff becomes the turn's placeholder.
IngestDiff ==
  /\ ingesting.event.type = "turn.diff.updated" /\ ingesting.heard
  /\ IF \E c \in ingesting.seen : c.turn = ingesting.event.turn
     THEN UNCHANGED <<checkpoints, domain>>
     ELSE \/ DispatchDiff([turn |-> ingesting.event.turn, status |-> "missing",
                           count |-> CurrentTurnCount(ingesting.seen) + 1,
                           captured |-> FALSE])
          \/ "dispatch" \in Faults /\ UNCHANGED <<checkpoints, domain>>
  /\ Ingested
  /\ UNCHANGED activeTurn

-----------------------------------------------------------------------------
(* CheckpointReactor: one worker, fed by two streams. *)

TakeRuntime(type) ==
  /\ job.step = "idle" /\ runtime # <<>> /\ Head(runtime).type = type
  /\ runtime' = Tail(runtime)
  /\ UNCHANGED <<model, git, provider, ingestion, ingesting, domain, requested>>

TakeDomain(type) ==
  /\ job.step = "idle" /\ domain # <<>> /\ Head(domain).type = type
  /\ domain' = Tail(domain)
  /\ UNCHANGED <<model, git, provider, ingestion, ingesting, runtime, requested>>

\* ensurePreTurnBaselineFromTurnStart, ensurePreTurnBaselineFromDomainTurnStart
EnsureBaseline ==
  /\ TakeRuntime("turn.started") \/ TakeDomain("thread.turn-start-requested")
  /\ LET n == CurrentTurnCount(checkpoints)
     IN  job' = IF HasRef(n) THEN Idle ELSE Job("baseline", None, n, None)
  /\ UNCHANGED <<answered, lost>>

CaptureBaseline ==
  /\ job.step = "baseline"
  /\ \/ refs' = WithRef(job.count)
     \/ "capture" \in Faults /\ UNCHANGED refs
  /\ job' = Idle
  /\ UNCHANGED <<model, workspace, provider, ingestion, ingesting, domain, runtime,
                 requested, answered, lost>>

\* Mutant of CaptureOnCompletion: the turn must still be the active one.
CaptureIfActive ==
  /\ TakeRuntime("turn.completed")
  /\ LET turn == Head(runtime).turn
     IN  job' = IF activeTurn # turn \/ HasReal(checkpoints, turn)
                THEN Idle
                ELSE Job("capture", turn, CurrentTurnCount(checkpoints) + 1, "ready")
  /\ UNCHANGED <<answered, lost>>

\* captureCheckpointFromTurnCompletion, up to the capture.
CaptureOnCompletion ==
  /\ TakeRuntime("turn.completed")
  /\ LET e == Head(runtime)
         placeholders == {c \in checkpoints : c.turn = e.turn /\ c.status = "missing"}
         count == IF placeholders = {} THEN CurrentTurnCount(checkpoints) + 1
                  ELSE (CHOOSE c \in placeholders : TRUE).count
     IN  job' = IF \/ activeTurn \notin {None, e.turn}
                   \/ HasReal(checkpoints, e.turn)
                THEN Idle
                ELSE Job("capture", e.turn, count, e.state)
  /\ UNCHANGED <<answered, lost>>

\* captureCheckpointFromPlaceholder, up to the capture.
CaptureOnPlaceholder ==
  /\ TakeDomain("thread.turn-diff-completed")
  /\ LET e == Head(domain)
     IN  job' = IF e.status # "missing" \/ HasReal(checkpoints, e.turn)
                THEN Idle
                ELSE Job("capture", e.turn, e.count, "ready")
  /\ UNCHANGED <<answered, lost>>

\* Mutant of Capture: a failed capture is recorded all the same.
CaptureRegardless ==
  /\ job.step = "capture"
  /\ \/ refs' = WithRef(job.count)
     \/ "capture" \in Faults /\ UNCHANGED refs
  /\ job' = [job EXCEPT !.step = "record"]
  /\ UNCHANGED <<model, workspace, provider, ingestion, ingesting, domain, runtime,
                 requested, answered, lost>>

\* captureAndDispatchCheckpoint: the git ref of the count is overwritten.
Capture ==
  /\ job.step = "capture"
  /\ \/ /\ refs' = WithRef(job.count)
        /\ job' = [job EXCEPT !.step = "record"]
     \/ /\ "capture" \in Faults
        /\ job' = Idle
        /\ UNCHANGED refs
  /\ UNCHANGED <<model, workspace, provider, ingestion, ingesting, domain, runtime,
                 requested, answered, lost>>

Record ==
  /\ job.step = "record"
  /\ \/ DispatchDiff([turn |-> job.turn, count |-> job.count,
                      status |-> job.status, captured |-> TRUE])
     \/ "dispatch" \in Faults /\ UNCHANGED <<checkpoints, domain>>
  /\ job' = Idle
  /\ UNCHANGED <<activeTurn, git, provider, ingestion, ingesting, runtime,
                 requested, answered, lost>>

\* The revert has deleted the refs of those counts: an activity tells the user
\* that it failed.
RevertFails(gone) ==
  /\ job' = Idle
  /\ \/ answered' = answered + 1 /\ lost' = [lost EXCEPT !.refs = @ \cup gone]
     \/ /\ "dispatch" \in Faults
        /\ lost' = [lost EXCEPT !.refs = @ \cup gone, !.report = TRUE]
        /\ UNCHANGED answered

(***************************************************************************)
(* handleRevertRequested: the target is the checkpoint of that count, of a *)
(* placeholder there is nothing to restore.                                *)
(***************************************************************************)
Revert ==
  /\ TakeDomain("thread.checkpoint-revert-requested")
  /\ LET n == Head(domain).count
         current == CurrentTurnCount(checkpoints)
         stale == {c.count : c \in {d \in checkpoints : d.count > n /\ d.captured}}
         captures == IF n = 0 THEN {TRUE}
                     ELSE {c.captured : c \in {d \in checkpoints : d.count = n}}
     IN  \/ /\ n <= current /\ TRUE \in captures
            /\ job' = [Job("restore", None, n, None) EXCEPT
                         !.stale = stale, !.current = current]
            /\ UNCHANGED <<answered, lost>>
         \/ /\ n > current \/ FALSE \in captures \/ captures = {}
            /\ RevertFails({})

\* Mutant of Restore: a missing ref is not reported.
RestoreSilently ==
  /\ job.step = "restore"
  /\ IF HasRef(job.count)
     THEN /\ workspace' = refs[job.count]
          /\ job' = [job EXCEPT !.step = "rollback"]
     ELSE job' = Idle /\ UNCHANGED workspace
  /\ UNCHANGED <<model, refs, provider, ingestion, ingesting, domain, runtime,
                 requested, answered, lost>>

\* Without the ref, turn 0 is restored from HEAD: no turn's edits.
Restore ==
  /\ job.step = "restore"
  /\ \/ /\ HasRef(job.count)
        /\ workspace' = refs[job.count]
        /\ job' = [job EXCEPT !.step = "rollback"]
        /\ UNCHANGED <<answered, lost>>
     \/ /\ ~ HasRef(job.count) /\ job.count = 0
        /\ workspace' = {}
        /\ job' = [job EXCEPT !.step = "rollback"]
        /\ UNCHANGED <<answered, lost>>
     \/ /\ \/ ~ HasRef(job.count) /\ job.count # 0
           \/ "restore" \in Faults
        /\ RevertFails({})
        /\ UNCHANGED workspace
  /\ UNCHANGED <<model, refs, provider, ingestion, ingesting, domain, runtime,
                 requested>>

\* providerService.rollbackConversation, when there are turns to forget.
Rollback ==
  /\ job.step = "rollback"
  /\ \/ job' = [job EXCEPT !.step = "delete"] /\ UNCHANGED <<answered, lost>>
     \/ "rollback" \in Faults /\ job.current > job.count /\ RevertFails({})
  /\ UNCHANGED <<model, git, provider, ingestion, ingesting, domain, runtime,
                 requested>>

\* deleteCheckpointRefs: git may refuse one (allowNonZeroExit), or fail on the way.
DeleteRefs ==
  /\ job.step = "delete"
  /\ \E gone \in SUBSET job.stale :
       /\ gone = job.stale \/ "delete" \in Faults
       /\ refs' = [n \in DOMAIN refs \ gone |-> refs[n]]
       /\ \/ job' = [job EXCEPT !.step = "reverted"] /\ UNCHANGED <<answered, lost>>
          \/ "delete" \in Faults /\ job.current > job.count /\ RevertFails(gone)
  /\ UNCHANGED <<model, workspace, provider, ingestion, ingesting, domain, runtime,
                 requested>>

\* thread.revert.complete; its failure is reported like the others.
CompleteRevert ==
  /\ job.step = "reverted"
  /\ \/ /\ checkpoints' = RevertTo(checkpoints, job.count)
        /\ job' = Idle
        /\ answered' = answered + 1
        /\ UNCHANGED lost
     \/ "dispatch" \in Faults /\ RevertFails(job.stale) /\ UNCHANGED checkpoints
  /\ UNCHANGED <<activeTurn, git, provider, ingestion, ingesting, domain, runtime,
                 requested>>

IngestionStep == Ingest \/ IngestLifecycle \/ Heartbeat \/ IngestDiff

ReactorStep ==
  \/ EnsureBaseline \/ CaptureBaseline
  \/ CaptureOnCompletion \/ CaptureOnPlaceholder \/ Capture \/ Record
  \/ Revert \/ Restore \/ Rollback \/ DeleteRefs \/ CompleteRevert

Next ==
  /\ \/ SendTurn \/ StartTurn \/ UpdateDiff
     \/ \E status \in Statuses : CompleteTurn(status)
     \/ \E n \in 0..Len(TurnOrder) : RequestRevert(n)
     \/ IngestionStep
     \/ ReactorStep
  /\ UNCHANGED scenario

Spec == Init /\ [][Next]_vars

\* The two workers are forked fibers that never stop.
FairSpec == /\ Spec
            /\ WF_vars(IngestionStep /\ UNCHANGED scenario)
            /\ WF_vars(ReactorStep /\ UNCHANGED scenario)
-----------------------------------------------------------------------------
Jobs == [step : {"idle", "baseline", "capture", "record", "restore", "rollback",
                 "delete", "reverted"},
         turn : Turns \cup {None}, count : Nat, status : Statuses \cup {None},
         stale : SUBSET Nat, current : Nat]

Edits == Turns \X (0..MaxDiffs)

(***************************************************************************)
(* The types: a projection never holds anything but checkpoints, and a ref *)
(* nothing but edits; no revert is answered twice.                         *)
(***************************************************************************)
TypeOK ==
  /\ scenario \in Scenarios
  /\ checkpoints \subseteq Checkpoint
  /\ activeTurn \in Turns \cup {None}
  /\ DOMAIN refs \subseteq Nat /\ \A n \in DOMAIN refs : refs[n] \subseteq Edits
  /\ workspace \subseteq Edits
  /\ job \in Jobs
  /\ answered \in 0..requested
  /\ lost \in [report : BOOLEAN, refs : SUBSET Nat]

Quiet == /\ ingestion = <<>> /\ domain = <<>> /\ runtime = <<>>
         /\ ingesting.event = NoEvent /\ job = Idle

(***************************************************************************)
(* Once both workers have drained their queues, no placeholder is left:    *)
(* each became a capture, by the turn's completion or by the event of the  *)
(* placeholder itself (captureCheckpointFromPlaceholder).                  *)
(***************************************************************************)
PlaceholdersAreReplaced ==
  (Quiet /\ Faults = {}) => \A c \in checkpoints : c.captured /\ c.status # "missing"

(***************************************************************************)
(* A turn that is over has a captured checkpoint, whichever worker is      *)
(* ahead, except a turn without a diff next to another turn: the reactor   *)
(* ignores a completion while the read model has the other turn active,    *)
(* and only a placeholder gives it a second chance.                        *)
(***************************************************************************)
TurnsAreCaptured ==
  (Quiet /\ running = None /\ Faults = {} /\ requested = 0) =>
    \A i \in 1..begun :
      \/ \E c \in checkpoints : c.turn = TurnOrder[i] /\ c.captured
      \/ begun > 1 /\ <<TurnOrder[i], 1>> \notin workspace

(***************************************************************************)
(* A checkpoint that names a git ref can be restored: the ref exists,      *)
(* except while a revert that deletes both is between its two steps, or    *)
(* when a revert that had deleted it failed before it was recorded         *)
(* (deleteCheckpointRefs on its way, or the last dispatch).                *)
(***************************************************************************)
CapturesHaveRefs ==
  \A c \in checkpoints : (c.captured /\ ~ HasRef(c.count)) =>
    (job.step = "reverted" /\ c.count \in job.stale) \/ c.count \in lost.refs

(***************************************************************************)
(* Whoever asks for a revert learns how it ended: it completes, or the     *)
(* thread gets an activity that says it failed (handleRevertRequested),    *)
(* unless that activity is lost itself.                                    *)
(***************************************************************************)
EveryRevertIsAnswered == <>[](requested = answered \/ lost.report)

-----------------------------------------------------------------------------
(* The inductive invariants. *)

In(e, queue) == \E i \in 1..Len(queue) : queue[i] = e

RuntimeEvents ==
  [type : {"turn.started", "turn.diff.updated"}, turn : Turns, state : {None}]
    \cup [type : {"turn.completed"}, turn : Turns, state : Statuses]

DomainEvents ==
  [type : {"thread.turn-start-requested", "thread.checkpoint-revert-requested"},
   turn : {None}, count : Nat, status : {None}]
    \cup [type : {"thread.turn-diff-completed"}, turn : Turns, count : Nat, status : Statuses]

\* Requests that are not taken up, or worked on, are not answered yet.
RevertsQueued == {i \in 1..Len(domain) : domain[i].type = "thread.checkpoint-revert-requested"}
RevertsOpen ==
  Cardinality(RevertsQueued)
    + (IF job.step \in {"restore", "rollback", "delete", "reverted"} THEN 1 ELSE 0)

\* A finite one, so that there is a highest count.
Projection(cs) == cs \subseteq Checkpoint /\ IsFiniteSet(cs)

\* The turns the provider has begun: no event is about another one.
Begun == {TurnOrder[i] : i \in 1..begun}

ReactorTypes ==
  /\ TypeOK
  /\ Projection(checkpoints) /\ Projection(ingesting.seen)
  /\ running \in Turns \cup {None}
  /\ sent \in 0..Len(TurnOrder) /\ begun \in 0..sent /\ diffs \in Nat
  /\ requested \in Nat /\ answered + RevertsOpen <= requested
  /\ ingestion \in Seq(RuntimeEvents) /\ runtime \in Seq(RuntimeEvents)
  /\ domain \in Seq(DomainEvents)
  /\ ingesting \in [event : RuntimeEvents \cup {NoEvent}, seen : SUBSET Checkpoint,
                    active : Turns \cup {None}, heard : BOOLEAN]
  /\ job.step \in {"capture", "record"} => job.turn \in Turns /\ job.status \in Statuses

NamesBegunTurns ==
  /\ running \in Begun \cup {None}
  /\ {activeTurn, ingesting.active, ingesting.event.turn} \subseteq Begun \cup {None}
  /\ \A i \in 1..Len(ingestion) : ingestion[i].turn \in Begun
  /\ \A i \in 1..Len(runtime) : runtime[i].turn \in Begun

\* A revert deletes refs above its target only, then the checkpoints with them.
RefsFollowCheckpoints ==
  /\ CapturesHaveRefs
  /\ job.step = "record" => HasRef(job.count)
  /\ job.step \in {"restore", "rollback", "delete", "reverted"} =>
       \A n \in job.stale : job.count < n

\* One checkpoint to a turn, and what is not captured has the status of a placeholder.
OneEach ==
  /\ \A c, d \in checkpoints : c.turn = d.turn => c = d
  /\ \A c \in checkpoints : c.captured \/ c.status = "missing"

Capturing(turn) == job.step \in {"capture", "record"} /\ job.turn = turn

\* The event of a placeholder is on its way to the reactor.
Announced(turn) ==
  \E i \in 1..Len(domain) :
    /\ domain[i].type = "thread.turn-diff-completed"
    /\ domain[i].turn = turn /\ domain[i].status = "missing"

PlaceholdersAreAttended ==
  Faults = {} => \A c \in checkpoints :
    (c.captured /\ c.status # "missing") \/ Announced(c.turn) \/ Capturing(c.turn)

NoReverts ==
  requested = 0 =>
    /\ \A i \in 1..Len(domain) : domain[i].type # "thread.checkpoint-revert-requested"
    /\ job.step \in {"idle", "baseline", "capture", "record"}

HasCheckpoint(turn) == \E c \in checkpoints : c.turn = turn

\* The first diff of a turn is recorded, or on its way to ingestion.
DiffsAreRecorded ==
  /\ \A c \in ingesting.seen : HasCheckpoint(c.turn)
  /\ \A t \in Turns : <<t, 1>> \in workspace =>
       \/ HasCheckpoint(t)
       \/ In(RuntimeEvent("turn.diff.updated", t, None), ingestion)
       \/ ingesting.event = RuntimeEvent("turn.diff.updated", t, None)

\* Nothing can make the reactor pass over the end of the only turn.
OnlyTurnIsAttended ==
  begun = 1 =>
    \/ running # None
    \/ HasCheckpoint(TurnOrder[1]) \/ Capturing(TurnOrder[1])
    \/ \E i \in 1..Len(runtime) : runtime[i].type = "turn.completed"

TurnsAreAttended ==
  (Faults = {} /\ requested = 0) => DiffsAreRecorded /\ OnlyTurnIsAttended

ReactorInv ==
  /\ ReactorTypes /\ NamesBegunTurns /\ RefsFollowCheckpoints /\ OneEach
  /\ PlaceholdersAreAttended /\ NoReverts /\ TurnsAreAttended
=============================================================================
