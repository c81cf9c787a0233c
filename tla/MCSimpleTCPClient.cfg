SPECIFICATION FairSpec
CONSTANTS
    NConn = 3
    SleepMin = 1
    SleepMax = 2
INVARIANTS TypeOK MessageOnlyWhenGranted MadeNConn
PROPERTY Terminates
CHECK_DEADLOCK FALSE
