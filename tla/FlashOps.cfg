\* Every call, every wait timing out at will.
SPECIFICATION FairSpec
CONSTANTS
    Operations <- AllOperations
    Timeouts <- AllTimeouts
    MaxChunks = 2
    MaxCalls = 3
INVARIANTS
    TypeOK
    TrueMeansDone
    TrueMeansReady
    CallEndsClean
PROPERTIES
    CallEnds
CHECK_DEADLOCK FALSE
