SPECIFICATION TimedSpec
CONSTANTS
    Workers <- MCWorkers
    Stoppers = {}
    QueueCapacity = 0
    MaxStarts = 2
    MaxTasks = 0
PROPERTIES
    CrashedWorkerRestarts
CHECK_DEADLOCK FALSE
