\* Two slots, indices that wrap every four segments, six segments.
CONSTANTS
    Depth = 2
    IndexMod = 4
    FlushFrom = {"main", "isr"}
    OneCore = FALSE
    MaxSegments = 6
SPECIFICATION Spec
CHECK_DEADLOCK FALSE
INVARIANTS
    TypeOK
    NeverOverfull
    SlotsDisjoint
    FlushIsFinal
PROPERTY ImplementsFifo
