SPECIFICATION FairSpec
CONSTANTS
    Task = {t1, t2}
    NumThreads = 3
    QueueSize = 2
    Destroyers = {d1, d2}
    MaxAdds = 3
    None = None
INVARIANTS
    ExactlyOnceInOrder
    NoLostWakeup
    FreeIsSafe
PROPERTIES
    AcceptedStarts
    DestroyReturns
CHECK_DEADLOCK FALSE
