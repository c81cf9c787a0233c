SPECIFICATION HSpec
CONSTANTS
    NULL = NULL
    Session = {s1, s2, s3}
    Fd = {1, 2, 3, 4}
    PageSize = 2
    SndBuf = 2
    LowWater = 1
    MaxUnits = 3
    MaxTraces = 3
    UnitsFor <- MCUnitsFor
CONSTRAINT Bounded
ACTION_CONSTRAINTS FailsEarly ResetsOfTwo
SYMMETRY Symmetry
INVARIANTS TypeOK HashmapTracksOpenFds EventsHaveEntries BufsizeIsLength PairsNameEachOther DeliveredAtMostOnce TracedOnceAccepted TidyInOrder TidyNeverExits
CHECK_DEADLOCK FALSE
