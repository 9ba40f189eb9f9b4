---------------------------- MODULE ThreadHistories ----------------------------
(***************************************************************************)
(* What the events of a log say about projects and threads, read off the   *)
(* log and not off the projected read model: which plans of a thread       *)
(* survive the reverts it went through.                                    *)
(***************************************************************************)
EXTENDS Decider

On(l, t, type) == {i \in 1..Len(l) : l[i].cmd.thread = t /\ l[i].type = type}

Creations(l, t) == On(l, t, "thread.created")
Upserts(l, t)   == On(l, t, "thread.proposed-plan-upserted")
Captures(l, t)  == On(l, t, "thread.turn-diff-completed")
Reverts(l, t)   == On(l, t, "thread.reverted")

Foundations(l, p) ==
  {i \in 1..Len(l) : l[i].type = "project.created" /\ l[i].cmd.project = p}

(***************************************************************************)
(* A checkpoint is in force up to a revert below its count, and until the  *)
(* next one of its turn, when that is not a placeholder for a capture.     *)
(***************************************************************************)
Reverted(l, t, d, n) ==
  \E r \in Reverts(l, t) : d < r /\ r <= n /\ l[d].cmd.count > l[r].cmd.count

Replaced(l, t, d, n) ==
  \E v \in Captures(l, t) :
    /\ d < v /\ v <= n /\ l[v].cmd.turn = l[d].cmd.turn
    /\ l[v].cmd.captured \/ ~ l[d].cmd.captured

InForce(l, t, d, n) == ~ Reverted(l, t, d, n) /\ ~ Replaced(l, t, d, n)

(***************************************************************************)
(* A placeholder that comes while a capture of its turn is in force never  *)
(* counts; all other checkpoints survive as long as they are in force.     *)
(***************************************************************************)
TooLate(l, t, d) ==
  /\ ~ l[d].cmd.captured
  /\ \E c \in Captures(l, t) : /\ c < d /\ l[c].cmd.turn = l[d].cmd.turn
                               /\ l[c].cmd.captured /\ InForce(l, t, c, d)

CheckpointSurvives(l, t, d, n) == InForce(l, t, d, n) /\ ~ TooLate(l, t, d)

(***************************************************************************)
(* The last upsert of a plan survives a revert if its turn is none, or has *)
(* a checkpoint that survives it.                                          *)
(***************************************************************************)
PlanSurvives(l, t, u, n) ==
  /\ \A v \in Upserts(l, t) :
        (u < v /\ v <= n) => l[v].cmd.plan # l[u].cmd.plan
  /\ \A r \in Reverts(l, t) : (u < r /\ r <= n) =>
        \/ l[u].cmd.turn = None
        \/ \E d \in Captures(l, t) :
              d < r /\ l[d].cmd.turn = l[u].cmd.turn /\ CheckpointSurvives(l, t, d, r)

SurvivingPlans(l, t, n) ==
  {l[u].cmd.plan : u \in {v \in Upserts(l, t) : v <= n /\ PlanSurvives(l, t, v, n)}}
=============================================================================
