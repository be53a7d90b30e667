\* The maximum rate is configured between starts, faults, E-STOPs and clears of
\* every order.
CONSTANTS
    X = X
    Axes <- OneAxis
    DirInvert <- NoInvert
    Kinds <- RateKinds
    TimClk = 24
    DivMax = 8
    MaxHz = 4
    Requests = {0, 1, 3, 4, 6}
    HalfTicks = 2
    GuardTicks = 1
    RateMax = 4
    HalfMod = 6
    TickMod = 12
    QueueDepth = 2
    MaxDuration = 3
    MaxSegments = 2
    DmaErrors = TRUE
    DisableRaisesTC = TRUE
    Calls = {"clear", "estop"}
    EStopCuts = {}
    MaxDirLag = 0
    MaxFillLag = 1
SPECIFICATION RateSpec
INVARIANTS
    RateTypeOK
    RateIsNearest
    PlaysAtItsTick
