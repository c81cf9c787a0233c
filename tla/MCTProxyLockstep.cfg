SPECIFICATION LFairSpec
CONSTANTS
    NULL = NULL
    Session = {s1, s2}
    Fd = {1, 2, 3}
    PageSize = 2
    SndBuf = 3
    LowWater = 2
    MaxUnits = 3
    MaxTraces = 2
INVARIANT NeverFails
PROPERTIES ImplementsRelay Forwarded CloseReachesBothEnds
CHECK_DEADLOCK FALSE
