------------------------- MODULE MCProviderSessions -------------------------
(* Model-checking instances of ProviderSessions.                             *)
EXTENDS ProviderSessions

Budget(modes, turns, streams, interrupts, stops, exits, crashes, failures) ==
    [modes |-> modes, turns |-> turns, streams |-> streams, interrupts |-> interrupts,
     stops |-> stops, exits |-> exits, crashes |-> crashes, failures |-> failures]

MCBudgets == {
    Budget(2, 2, 0, 0, 0, 0, 0, 0), Budget(0, 2, 1, 0, 1, 0, 0, 0), Budget(1, 2, 0, 0, 1, 0, 0, 0),
    Budget(1, 2, 0, 1, 0, 1, 0, 0), Budget(0, 2, 1, 0, 0, 1, 1, 0), Budget(1, 1, 0, 0, 0, 0, 1, 1),
    Budget(0, 2, 0, 0, 1, 0, 1, 0), Budget(1, 1, 1, 0, 1, 0, 0, 0), Budget(1, 1, 1, 0, 0, 1, 0, 0),
    Budget(1, 1, 1, 0, 0, 0, 1, 0), Budget(0, 2, 0, 0, 0, 1, 0, 1), Budget(0, 1, 1, 0, 0, 1, 0, 1)}

ModeBudgets == {Budget(1, 1, 0, 0, 0, 0, 0, 0)}
=============================================================================
