SPECIFICATION UpSpec
CONSTANTS
    NULL = NULL
    Session = {s1}
    Fd = {1, 2}
    PageSize = 2
    SndBuf = 2
    LowWater = 2
    MaxUnits = 2
    MaxTraces = 1
    MaxTotal = 5
CONSTRAINT Bounded
INVARIANT NothingLost
CHECK_DEADLOCK FALSE
