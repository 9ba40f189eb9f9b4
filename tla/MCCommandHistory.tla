--------------------------- MODULE MCCommandHistory ---------------------------
(***************************************************************************)
(* A small instance of the command history: commands about plans, turns    *)
(* and reverts, and commands about the life of two threads.                *)
(***************************************************************************)
EXTENDS CommandHistory, TLC

CONSTANTS p1, p2, t1, t2, turnA, turnB, plan1

MCTurnCounts == 0..2

Blank == [id |-> "", type |-> "project.create", project |-> p1, thread |-> None,
          source |-> None, plan |-> None, turn |-> None, count |-> 0, captured |-> TRUE]
On1(id, type) == [Blank EXCEPT !.id = id, !.type = type, !.thread = t1]

Create  == [Blank EXCEPT !.id = "create"]
Thread1 == On1("thread", "thread.create")
Upsert(id, turn) == [On1(id, "thread.proposed-plan.upsert") EXCEPT
                       !.plan = plan1, !.turn = turn]
Diff(id, turn, n) == [On1(id, "thread.turn.diff.complete") EXCEPT
                        !.turn = turn, !.count = n]
Placeholder(id, turn, n) == [Diff(id, turn, n) EXCEPT !.captured = FALSE]
RevertTo(id, n) == [On1(id, "thread.revert.complete") EXCEPT !.count = n]
Start == [On1("start", "thread.turn.start") EXCEPT !.source = t1, !.plan = plan1]

Rival   == [Create EXCEPT !.id = "rival"]
Other   == [Create EXCEPT !.id = "other", !.project = p2]
Thread2 == [Thread1 EXCEPT !.id = "thread2", !.project = p2]

PlanCommands == {Create, Thread1, Upsert("planA", turnA), Upsert("planB", turnB),
                 Diff("diffA", turnA, 1), Diff("diffB", turnB, 2),
                 RevertTo("revert", 1), Start}

LifeCommands == {Create, Rival, Other, Thread1, Thread2,
                 On1("archive", "thread.archive"), On1("archive2", "thread.archive"),
                 On1("unarchive", "thread.unarchive")}

\* The turn's checkpoint moves from one count to another, and late placeholders.
RaceCommands == {Create, Thread1, Upsert("planA", turnA), Start, RevertTo("revert", 1),
                 Placeholder("early", turnA, 2), Diff("diffA", turnA, 1), Placeholder("late", turnA, 2)}

MCCommands == PlanCommands \cup LifeCommands \cup RaceCommands

\* bound: a history is about plans, about one checkpoint or about the life of threads.
OneFamily ==
  \E family \in {PlanCommands, LifeCommands, RaceCommands} :
    \A c \in MCCommands : receipts[c.id].status # "none" => c \in family
=============================================================================
