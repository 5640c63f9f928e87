SPECIFICATION MetricsSpec
CONSTANTS
    Recorders = {t1, t2, t3}
    Names = {"short", "long"}
    LongNames = {"long"}
    MaxLatencies = 2
    Values = {1, 3}
    Boundaries <- MCBoundaries
    UINT64_MAX = 9
    MaxCalls = 4
SYMMETRY Alike
INVARIANTS
    TrackerExact
    HistogramSound
CHECK_DEADLOCK FALSE
