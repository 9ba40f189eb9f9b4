---------------------------- MODULE CommandHistory ----------------------------
(***************************************************************************)
(* The event store and its receipts, the command log they are meant to be, *)
(* with the real decider and projector, and properties of the histories of *)
(* events in it: what the decider's requirements and the projector's       *)
(* reverts make of them.                                                   *)
(***************************************************************************)
EXTENDS ThreadHistories

VARIABLES log,        \* orchestration_events, committed
          receipts    \* orchestration_command_receipts, per command id

Log == INSTANCE CommandLog

\* The log by itself, without the engine that keeps it.
LogSpec == Log!Spec

(***************************************************************************)
(* A thread is created once, before every other event on it and after its  *)
(* project, which is created once too, whatever order the commands and     *)
(* their refused rivals arrive in (requireThreadAbsent, requireProject).   *)
(***************************************************************************)
CreatedOnceAndFirst ==
  \A i \in 1..Len(log) : log[i].cmd.thread # None =>
    \E n \in 1..i : \E p \in 1..(n - 1) :
       Creations(log, log[i].cmd.thread) = {n} /\ Foundations(log, log[n].cmd.project) = {p}

(***************************************************************************)
(* The plans a thread holds are those that survive its history, although   *)
(* the projector only keeps the current checkpoints and plans.             *)
(***************************************************************************)
PlansFollowHistory ==
  \A t \in Threads : \A th \in ModelAfter(log).threads[t] :
    {p.id : p \in th.plans} = SurvivingPlans(log, t, Len(log))

(***************************************************************************)
(* No turn is ever started from a plan that a revert has dropped.          *)
(***************************************************************************)
TurnsStartFromSurvivingPlans ==
  \A i \in 1..Len(log) :
    (log[i].type = "thread.turn-start-requested" /\ log[i].cmd.plan # None) =>
       log[i].cmd.plan \in SurvivingPlans(log, log[i].cmd.source, i)
=============================================================================
