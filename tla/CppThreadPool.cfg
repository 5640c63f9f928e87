SPECIFICATION FairSpec
CONSTANTS
    NumThreads = 2
    Producers = {p1, p2}
    Closers = {c1, c2}
    Waiters = {x1}
    CloseCalls = {"shutdown", "shutdown_now"}
    WaitCalls = {"forever", "timed"}
    CtorMayFail = TRUE
    MaxTasks = 2
    None = None
INVARIANTS
    PendingIsSomewhere
    JoinedMeansDone
PROPERTIES
    TrueMeansCompleted
    FuturesResolve
    WaitReturnsOrDropped
CHECK_DEADLOCK FALSE
