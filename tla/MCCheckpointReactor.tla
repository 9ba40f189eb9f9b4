-------------------------- MODULE MCCheckpointReactor --------------------------
(***************************************************************************)
(* The checkpoints of a thread for TLC: two turns and no failures, or one  *)
(* turn with a revert and every failure.                                   *)
(***************************************************************************)
EXTENDS CheckpointReactor

CONSTANTS turnA, turnB

MCScenarios ==
  {[turns |-> <<turnA, turnB>>, diffs |-> 1, reverts |-> 0, faults |-> {}],
   [turns |-> <<turnA>>, diffs |-> 2, reverts |-> 1,
    faults |-> {"restore", "rollback", "capture", "delete", "dispatch"}]}
=============================================================================
