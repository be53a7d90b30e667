\* Every rate up to the clamp, runs of up to four words, eight ticks.
CONSTANTS
    RateMax = 4
    MaxRun = 4
    MaxTicks = 8
SPECIFICATION Spec
CHECK_DEADLOCK FALSE
INVARIANTS
    TypeOK
    PulseGap
    CountMatchesWave
    RemainderKept
