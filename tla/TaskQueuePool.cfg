SPECIFICATION FairSpec
CONSTANTS
    NumThreads = 2
    QueSize = 1
    Producers = {p1, p2, p3, p4}
    TasksEach = 1
    None = None
INVARIANTS
    TaskInOnePlace
    StopDrains
PROPERTIES
    TasksRun
    ProducersFinish
CHECK_DEADLOCK FALSE
