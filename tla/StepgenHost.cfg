\* Self-test, stimulus and status on one axis, with stream errors and an E-STOP
\* that may cut into the interrupt.
CONSTANTS
    X = X
    Axes <- OneAxis
    DirInvert <- NoInvert
    Kinds <- HostKinds
    FwdRate <- Fwd
    RevRate <- Rev
    SelfTestAtBoot = TRUE
    SpinTicks = 6
    StimTicks = 5
    HalfTicks = 2
    GuardTicks = 1
    RateMax = 1
    HalfMod = 6
    TickMod = 12
    QueueDepth = 2
    MaxDuration = 8
    MaxSegments = 3
    DmaErrors = TRUE
    DisableRaisesTC = TRUE
    Calls = {"estop"}
    EStopCuts = {"isr"}
    MaxDirLag = 0
    MaxFillLag = 1
SPECIFICATION HostSpec
INVARIANTS
    HostTypeOK
    SelfTestMovesNothing
    EStopHolds
PROPERTIES
    EStopStays
    StatusTellsWhy
    StimulusIsPlayed
