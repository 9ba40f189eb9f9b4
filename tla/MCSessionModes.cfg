SPECIFICATION Spec
CONSTANTS
    Providers = {"codex"}
    Budgets <- ModeBudgets
CHECK_DEADLOCK FALSE
INVARIANT RunsAsShown
