--------------------------- MODULE ThreadCheckpoints ---------------------------
(***************************************************************************)
(* The checkpoints of a thread as projector.ts keeps them in the in-memory *)
(* read model.                                                             *)
(***************************************************************************)
EXTENDS Integers, FiniteSets, FiniteSetsExt

CONSTANTS Turns,   \* provider turn ids
          None     \* the null of the source

\* "missing" is the status of a placeholder, and of an interrupted turn.
Statuses == {"ready", "missing", "error"}

\* captured: the checkpoint ref is the git ref of the count, not a provider's.
Checkpoint == [turn : Turns, count : Nat, status : Statuses, captured : BOOLEAN]

\* The highest count in use, 0 when there is none.
CurrentTurnCount(checkpoints) == Max({0} \cup {c.count : c \in checkpoints})

\* Mutant of HasReal: a placeholder counts as one.
HasAny(checkpoints, turn) == \E c \in checkpoints : c.turn = turn

\* A checkpoint of the turn that is not a placeholder by its status.
HasReal(checkpoints, turn) ==
  \E c \in checkpoints : c.turn = turn /\ c.status # "missing"

\* thread.turn-diff-completed
Complete(checkpoints, new) ==
  IF HasReal(checkpoints, new.turn) /\ new.status = "missing"
  THEN checkpoints
  ELSE {c \in checkpoints : c.turn # new.turn} \cup {new}

\* thread.reverted
RevertTo(checkpoints, n) == {c \in checkpoints : c.count <= n}
=============================================================================
