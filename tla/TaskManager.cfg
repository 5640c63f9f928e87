SPECIFICATION Spec
CONSTANTS
    Nodes = {n1, n2}
    Clients = {c1, c2}
    Executors = {e1}
    MaxPoolSize = 1
    Timeout = 1
    MaxTasks <- MCMaxTasks
    MaxHeld <- MCMaxHeld
    c1 = c1
    c2 = c2
    NULL = NULL
INVARIANTS
    RefcountSafe
    OnlyWorkerCompletionIsSilent
    ResultMatchesState
PROPERTIES
    TimedWaitReturns
CONSTRAINT OneBatch
CHECK_DEADLOCK FALSE
