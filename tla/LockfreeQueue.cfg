SPECIFICATION FairSpec
CONSTANTS
    Task = {t1, t2}
    NULL = NULL
    Capacity = 4
    IndexMod = 8
    MaxBatch = 2
INVARIANTS
    NoOverwrite
    NoNullTaken
    NoSlotRace
PROPERTIES
    ImplementsFIFO
    ImplementsFairFIFO
    ProducerGetsThrough
