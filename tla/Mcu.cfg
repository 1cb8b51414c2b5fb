SPECIFICATION FairSpec
CONSTANTS
    Window = 3
    Rooms = { 3 }
    Lengths = { 0, 2 }
    Flags <- MCFlags
    Sizes = { 2 }
    Sectors = { 7 }
    Counts = { 2, 7 }
    CountMod = 8
    AllCounts = 6
    RetryMod = 3
    Rev4 = FALSE
    MaxCalls = 2
INVARIANTS
    TypeOK
    AnswerIsOwn
    TrueMeansDone
    McuFollows
    ResetSynchronises
PROPERTY
    CallEnds
CHECK_DEADLOCK FALSE
