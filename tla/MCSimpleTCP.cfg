SPECIFICATION FairSpec
CONSTANTS
    NULL = NULL
    NConn = 3
    SleepMin = 1
    SleepMax = 2
    Fd = {1}
    MaxTime = 1
    MaxFaults = 2
INVARIANT OneLineEach
PROPERTIES AllMade Drained
CHECK_DEADLOCK FALSE
