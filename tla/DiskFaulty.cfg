\* Everything may fail, on a card addressed in bytes; and the video mode changes.
SPECIFICATION FairSpec
CONSTANTS
    N = 2
    CounterMod = 4
    Sectors <- MCBootSectors
    ReadCounts = { 1, 2 }
    WriteCounts = { 1, 2 }
    BlockCard = FALSE
    Faults <- AllFaults
    StartColor = { TRUE, FALSE }
    Switches = TRUE
    MaxCalls = 4
INVARIANTS
    TypeOK
    OkClosesTransfer
    UncachedReadRight
    WriteOkMeansStored
PROPERTIES
    ImplementsCache
    CallReturns
CHECK_DEADLOCK FALSE
