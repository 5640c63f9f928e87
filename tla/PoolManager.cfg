SPECIFICATION ManagerSpec
CONSTANTS
    Callers = {c1, c2}
    MinWorkers = 1
    MaxWorkers = 2
    MaxKids = 2
    MaxAttempts = 1
    MaxClashes = 1
    NULL = NULL
SYMMETRY MCSymmetry
INVARIANTS
    ActiveExact
    StoppedIsQuiet
CHECK_DEADLOCK FALSE
