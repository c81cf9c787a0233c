SPECIFICATION CrowdSpec
CONSTANTS
    NULL = NULL
    Session = {s1, s2, s3}
    Fd = {1, 2, 3, 4}
    PageSize = 1
    SndBuf = 2
    LowWater = 1
    MaxUnits = 1
    MaxTraces = 3
SYMMETRY Symmetry
INVARIANT GonePartnerNeverExits
CHECK_DEADLOCK FALSE
