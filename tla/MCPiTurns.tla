----------------------------- MODULE MCPiTurns -----------------------------
(* Model-checking instance of PiTurns.                                       *)
EXTENDS PiTurns

Budget(lines, late, steers, models, stops, faults) ==
    [lines |-> lines, late |-> late, steers |-> steers, models |-> models, stops |-> stops,
     faults |-> faults]

MCBudgets == {
    Budget(2, 0, 0, 0, 0, 0), Budget(0, 1, 0, 1, 0, 0), Budget(1, 1, 0, 0, 0, 0),
    Budget(1, 0, 1, 0, 0, 0), Budget(1, 0, 0, 0, 0, 1), Budget(1, 0, 0, 0, 1, 0),
    Budget(0, 1, 1, 0, 0, 0), Budget(0, 0, 0, 0, 1, 1), Budget(0, 0, 0, 1, 1, 0),
    Budget(0, 0, 0, 1, 0, 1)}
=============================================================================
