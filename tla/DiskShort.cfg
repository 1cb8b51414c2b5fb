\* The card sends no data for a block it was asked for.
SPECIFICATION Spec
CONSTANTS
    N = 2
    CounterMod = 4
    Sectors <- MCSectors
    ReadCounts = { 1, 2 }
    WriteCounts = { 1 }
    BlockCard = TRUE
    Faults <- MCDataFault
    StartColor <- MCMono
    Switches = FALSE
    MaxCalls = 2
INVARIANT ReadOkMeansData
CHECK_DEADLOCK FALSE
