SPECIFICATION EventfdSpec
CONSTANTS
    Threads = {t1, t2, t3}
    MaxValue = 3
    Permits = 2
    MaxAdded = 5
    MaxProbes = 3
SYMMETRY Alike
INVARIANTS
    UnitsConserved
    ModeRestored
CHECK_DEADLOCK FALSE
