SPECIFICATION Spec
CONSTANTS
    Producers = {p1, p2}
    Consumers = {c1, c2}
    Items = {a, b}
    ItemSize <- MCItemSize
    BufSize <- MCBufSize
    QueueSize = 3
    SlotSize = 2
    MaxCrashes = 1
    a = a
    c1 = c1
    NULL = NULL
SYMMETRY Alike
INVARIANTS
    RingIntact
    NoLostWakeup
PROPERTIES
    ImplementsFIFO
CHECK_DEADLOCK FALSE
