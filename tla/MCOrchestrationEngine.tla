------------------------- MODULE MCOrchestrationEngine -------------------------
(***************************************************************************)
(* A small instance of the engine: a project, a thread in it, and a turn   *)
(* start (two events) dispatched twice, in any order, with one consumer.   *)
(***************************************************************************)
EXTENDS OrchestrationEngine, TLC

CONSTANTS p1, t1, k1, k2, k3, k4

Blank == [id |-> "", type |-> "project.create", project |-> p1, thread |-> None,
          source |-> None, plan |-> None, turn |-> None, count |-> 0, captured |-> TRUE]

Create  == [Blank EXCEPT !.id = "create"]
Thread1 == [Blank EXCEPT !.id = "thread", !.type = "thread.create", !.thread = t1]
Start   == [Blank EXCEPT !.id = "start", !.type = "thread.turn.start", !.thread = t1]

MCCommands  == {Create, Thread1, Start}
MCCommandOf == k1 :> Create @@ k2 :> Thread1 @@ k3 :> Start @@ k4 :> Start
MCTurnCounts == {0}
=============================================================================
