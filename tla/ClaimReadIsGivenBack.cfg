\* The link goes down while the pool is exhausted and comes back.
CONSTANTS
    RxDescCnt = 2
    Buffers = {b1, b2, b3}
    None = None
    BusErrors = FALSE
    MaxFrames = 4
    MaxStops = 1
SPECIFICATION Spec
INVARIANTS
    ReadIsGivenBack
