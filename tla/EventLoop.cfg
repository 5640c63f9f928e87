SPECIFICATION Spec
CONSTANTS
    Workers <- MCWorkers
    Stoppers = {s1, s2}
    QueueCapacity = 2
    MaxStarts = 2
    MaxTasks = 2
INVARIANTS
    TasksCounted
    RestartOrderly
PROPERTIES
    StopReturns
CHECK_DEADLOCK FALSE
