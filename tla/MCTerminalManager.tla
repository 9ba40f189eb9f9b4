------------------------- MODULE MCTerminalManager -------------------------
(* Model-checking instance of TerminalManager.                               *)
EXTENDS TerminalManager, TLC

CONSTANTS termA, termB, thread1, thread2

MCThreadOf == termA :> thread1 @@ termB :> thread2

Budget(opens, restarts, clears, closes, outputs, exits, failures) ==
    [opens |-> opens, restarts |-> restarts, clears |-> clears, closes |-> closes,
     outputs |-> outputs, exits |-> exits, failures |-> failures]

MCBudgets == {
    Budget(1, 1, 1, 0, 3, 1, 0), Budget(2, 0, 0, 1, 2, 1, 1), Budget(3, 0, 0, 0, 2, 2, 0)}
=============================================================================
