\* Three descriptors over a pool of four buffers; the link is taken down once.
CONSTANTS
    RxDescCnt = 3
    Buffers = {b1, b2, b3, b4}
    None = None
    BusErrors = TRUE
    MaxFrames = 4
    MaxStops = 1
SPECIFICATION FairSpec
INVARIANTS
    TypeOK
    OneOwner
    InOrder
PROPERTIES
    EveryFrameHeard
    ReceptionRecovers
