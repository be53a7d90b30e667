\* Two segments around half the range of the tick.
CONSTANTS
    X = X
    Y = Y
    Axes <- OneAxis
    DirInvert <- NoInvert
    Kinds <- ReversingKinds
    HalfTicks = 4
    GuardTicks = 2
    RateMax = 2
    HalfMod = 8
    TickMod = 32
    QueueDepth = 2
    MaxDuration = 4
    MaxSegments = 2
    DmaErrors = FALSE
    DisableRaisesTC = FALSE
    Calls = {}
    EStopCuts = {}
    MaxDirLag = 1
    MaxFillLag = 3
SPECIFICATION Spec
INVARIANTS
    GuardIsAhead
