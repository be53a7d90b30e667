\* Two coordinated axes, one of them inverted, that turn at different segments:
\* three segments over a ring of two halves of four words.
CONSTANTS
    X = X
    Y = Y
    Axes <- TwoAxes
    DirInvert <- YInvert
    Kinds <- CoordinatedKinds
    HalfTicks = 4
    GuardTicks = 2
    RateMax = 2
    HalfMod = 8
    TickMod = 32
    QueueDepth = 2
    MaxDuration = 4
    MaxSegments = 3
    DmaErrors = FALSE
    DisableRaisesTC = FALSE
    Calls = {}
    EStopCuts = {}
    MaxDirLag = 1
    MaxFillLag = 3
SPECIFICATION Spec
INVARIANTS
    TypeOK
    CommandedDirection
    PositionFidelity
    PlannedIsStaged
    NoneLost
    ReversalReachable
    StallWithinRing
PROPERTIES
    ImplementsDriverInputs
