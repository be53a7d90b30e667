\* The E-STOP cuts into a refill; fault cleared and motion restarted.
CONSTANTS
    X = X
    Y = Y
    Axes <- OneAxis
    DirInvert <- NoInvert
    Kinds <- ReversingKinds
    HalfTicks = 4
    GuardTicks = 2
    RateMax = 2
    HalfMod = 8
    TickMod = 32
    QueueDepth = 2
    MaxDuration = 4
    MaxSegments = 2
    DmaErrors = FALSE
    DisableRaisesTC = FALSE
    Calls = {"clear", "estop"}
    EStopCuts = {"isr"}
    MaxDirLag = 1
    MaxFillLag = 3
SPECIFICATION Spec
PROPERTIES
    AbortIsFinal
