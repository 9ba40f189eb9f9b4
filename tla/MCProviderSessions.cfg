SPECIFICATION Spec
CONSTANTS
    Providers = {"codex", "claudeAgent"}
    Budgets <- MCBudgets
CHECK_DEADLOCK FALSE
INVARIANTS
    ShownSessionsAreBound
    BoundAsItRuns
    OneProcess
    ShownAsChosen
PROPERTIES
    OneConversation
