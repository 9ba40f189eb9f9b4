------------------------------ MODULE ReadModel ------------------------------
(***************************************************************************)
(* The in-memory read model of the server and the function that projects   *)
(* one event onto it (orchestration/projector.ts), cut down to what the    *)
(* command decider reads: which projects and threads exist, whether a      *)
(* thread is archived, and which proposed plans it still holds.  Plans are *)
(* dropped by a revert according to the checkpoints that survive it, so    *)
(* the checkpoints are here too, each a turn and its count.  Titles,       *)
(* sessions, messages, activities, timestamps and checkpoint statuses are  *)
(* not, nor the limits on the length of the lists.                         *)
(*                                                                         *)
(* The projection tables are a second projection of the same events        *)
(* (ProjectionPipeline.ts), which treats a checkpoint differently when its *)
(* turn or its count was used before.  The commands are assumed to keep to *)
(* one count per turn (DeciderAssumption), where the two agree on all that *)
(* is kept here; module ThreadProjections is about where they do not.      *)
(***************************************************************************)
EXTENDS Integers, Sequences, FiniteSets

CONSTANTS Projects,    \* project ids
          Threads,     \* thread ids
          Turns,       \* provider turn ids
          Plans,       \* proposed plan ids
          TurnCounts,  \* checkpoint turn counts
          None         \* the null of the source

ASSUME ReadModelAssumption ==
  /\ TurnCounts \subseteq Nat
  /\ None \notin Threads \cup Turns \cup Plans

ProjectStates == {"absent", "live", "deleted"}

Plan == [id : Plans, turn : Turns \cup {None}]
Checkpoint == [turn : Turns, count : TurnCounts, captured : BOOLEAN]
Thread == [project     : Projects,
           archived    : BOOLEAN,
           deleted     : BOOLEAN,
           plans       : SUBSET Plan,
           checkpoints : SUBSET Checkpoint]

\* A thread id is unknown (the empty set) or known (the singleton of its row).
ReadModels == [snapshotSequence : Nat,
               projects : [Projects -> ProjectStates],
               threads  : [Threads -> SUBSET Thread]]

EmptyReadModel == [snapshotSequence |-> 0,
                   projects |-> [p \in Projects |-> "absent"],
                   threads  |-> [t \in Threads |-> {}]]

NewThread(p) == [project |-> p, archived |-> FALSE, deleted |-> FALSE,
                 plans |-> {}, checkpoints |-> {}]

(***************************************************************************)
(* thread.turn-diff-completed: the checkpoint of the turn is replaced, but *)
(* a capture is not by a placeholder (status "missing") that comes late.   *)
(***************************************************************************)
CompleteTurnDiff(thread, cmd) ==
  IF ~ cmd.captured /\ \E c \in thread.checkpoints : c.turn = cmd.turn /\ c.captured
  THEN thread
  ELSE [thread EXCEPT !.checkpoints =
          {c \in thread.checkpoints : c.turn # cmd.turn}
            \cup {[turn |-> cmd.turn, count |-> cmd.count, captured |-> cmd.captured]}]

\* Mutant of Revert: the plans are kept by the checkpoints before the revert.
RevertCheckpointsOnly(thread, count) ==
  LET turns == {c.turn : c \in thread.checkpoints} \cup {None}
  IN  [thread EXCEPT !.checkpoints = {c \in @ : c.count <= count},
                     !.plans = {p \in thread.plans : p.turn \in turns}]

(***************************************************************************)
(* thread.reverted: the checkpoints up to the count survive, and of the    *)
(* plans those of no turn or of a turn whose checkpoint survives.          *)
(***************************************************************************)
Revert(thread, count) ==
  LET checkpoints == {c \in thread.checkpoints : c.count <= count}
      turns       == {c.turn : c \in checkpoints} \cup {None}
  IN  [thread EXCEPT !.checkpoints = checkpoints,
                     !.plans = {p \in thread.plans : p.turn \in turns}]

UpsertPlan(thread, cmd) ==
  [thread EXCEPT !.plans = {p \in thread.plans : p.id # cmd.plan}
                             \cup {[id |-> cmd.plan, turn |-> cmd.turn]}]

\* What an event does to the thread it names, when the thread is known.
PatchThread(thread, e) ==
  CASE e.type = "thread.deleted"  -> [thread EXCEPT !.deleted = TRUE]
    [] e.type = "thread.archived" -> [thread EXCEPT !.archived = TRUE]
    [] e.type = "thread.unarchived" -> [thread EXCEPT !.archived = FALSE]
    [] e.type = "thread.proposed-plan-upserted" -> UpsertPlan(thread, e.cmd)
    [] e.type = "thread.turn-diff-completed" -> CompleteTurnDiff(thread, e.cmd)
    [] e.type = "thread.reverted" -> Revert(thread, e.cmd.count)
    [] OTHER -> thread

ProjectsAfter(model, e) ==
  CASE e.type = "project.created" ->
         [model.projects EXCEPT ![e.cmd.project] = "live"]
    [] e.type = "project.deleted" /\ model.projects[e.cmd.project] # "absent" ->
         [model.projects EXCEPT ![e.cmd.project] = "deleted"]
    [] OTHER -> model.projects

ThreadsAfter(model, e) ==
  IF e.type = "thread.created"
  THEN [model.threads EXCEPT ![e.cmd.thread] = {NewThread(e.cmd.project)}]
  ELSE IF e.cmd.thread = None
       THEN model.threads
       ELSE [model.threads EXCEPT ![e.cmd.thread] = {PatchThread(th, e) : th \in @}]

ProjectEvent(model, e) == [snapshotSequence |-> e.sequence,
                           projects |-> ProjectsAfter(model, e),
                           threads  |-> ThreadsAfter(model, e)]

(***************************************************************************)
(* The read models a log passes through: ModelAt(log)[n] is the empty      *)
(* model with the first n events projected onto it, in order.              *)
(***************************************************************************)
ModelAt(log) ==
  LET f[n \in 0..Len(log)] ==
        IF n = 0 THEN EmptyReadModel ELSE ProjectEvent(f[n - 1], log[n])
  IN  f

ModelAfter(log) == ModelAt(log)[Len(log)]
=============================================================================
