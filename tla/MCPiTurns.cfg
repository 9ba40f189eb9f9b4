SPECIFICATION Spec
CONSTANTS
    MaxTurns = 2
    MaxLooks = 2
    Budgets <- MCBudgets
INVARIANTS
    ShownAsHeld
    OutputIsFiled
PROPERTIES
    CompletedWasWorked
    EveryTurnEnds
CHECK_DEADLOCK FALSE
