\* Stop, stream errors, E-STOP and clears, in any order with the motion of two
\* segments; clearing EN raises TCIF as on the STM32F4.
CONSTANTS
    X = X
    Y = Y
    Axes <- OneAxis
    DirInvert <- NoInvert
    Kinds <- LifecycleKinds
    HalfTicks = 3
    GuardTicks = 1
    RateMax = 1
    HalfMod = 6
    TickMod = 18
    QueueDepth = 2
    MaxDuration = 3
    MaxSegments = 2
    DmaErrors = TRUE
    DisableRaisesTC = TRUE
    Calls = {"stop", "clear", "estop"}
    EStopCuts = {}
    MaxDirLag = 0
    MaxFillLag = 2
SPECIFICATION Spec
INVARIANTS
    CommandedDirection
    PositionFidelity
    SafeIdleClean
    DrivesMatchState
    EStopIsSafe
PROPERTIES
    FaultLatched
    EStopLatched
    AbortIsFinal
