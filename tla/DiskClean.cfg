\* No exchange fails, and writes are of two sectors.
SPECIFICATION Spec
CONSTANTS
    N = 2
    CounterMod = 4
    Sectors <- MCBootSectors
    ReadCounts = { 1, 2 }
    WriteCounts = { 2 }
    BlockCard = TRUE
    Faults <- MCNoFaults
    StartColor <- MCColor
    Switches = FALSE
    MaxCalls = 7
INVARIANT
    CacheCoherent
PROPERTY ImplementsDevice
CHECK_DEADLOCK FALSE
