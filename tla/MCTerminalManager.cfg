SPECIFICATION Spec
CONSTANTS
    None = None
    termA = termA
    termB = termB
    thread1 = thread1
    thread2 = thread2
    Terminals = {termA, termB}
    Threads = {thread1, thread2}
    ThreadOf <- MCThreadOf
    Ids = {1, 2, 3}
    Pids = {1, 2, 3}
    Fibers = {1, 2, 3}
    MaxRetained = 1
    Budgets <- MCBudgets
CHECK_DEADLOCK FALSE
INVARIANTS
    NoProcessIsForgotten
    EndIsNoticed
    HistoryIsComplete
    ShownAsHeld
    FileIsCurrent
