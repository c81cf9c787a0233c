SPECIFICATION TSpec
CONSTANTS
    Packet <- MCPacket
    Size <- MCSize
    PAGE_SIZE = 1
    QLen = 2
    MaxCopies = 2
    MaxStarts = 2
    InitFiles = {"none", "writable"}
INVARIANT OldLinesCleaned
CHECK_DEADLOCK FALSE
