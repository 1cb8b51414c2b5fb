\* Nothing fails; sectors are written one at a time.
SPECIFICATION Spec
CONSTANTS
    N = 2
    CounterMod = 4
    Sectors <- MCSectors
    ReadCounts = { 1 }
    WriteCounts = { 1 }
    BlockCard = TRUE
    Faults <- MCNoFaults
    StartColor <- MCColor
    Switches = FALSE
    MaxCalls = 7
INVARIANT ReadOkMeansData
CHECK_DEADLOCK FALSE
