SPECIFICATION TSpec
CONSTANTS
    Packet <- MCPacket
    Size <- MCSize
    PAGE_SIZE = 1
    QLen = 2
    MaxCopies = 2
    MaxStarts = 2
    InitFiles = {"none", "writable"}
INVARIANTS TypeOK LoggedAllReceived OldDataCleaned
PROPERTY QueuedIsLogged
CHECK_DEADLOCK FALSE
