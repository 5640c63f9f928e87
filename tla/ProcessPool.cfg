SPECIFICATION FairSpec
CONSTANTS
    NumWorkers = 2
    MaxQueue = 2
    MaxTasks = 2
    MaxFaults = 1
    MaxPids = 9
    MaxFd = 7
    Forking = {TRUE, FALSE}
INVARIANTS
    OnePlace
    OneTaskEach
    DescriptorsClosed
CHECK_DEADLOCK FALSE
PROPERTIES
    AllWorkersExit
