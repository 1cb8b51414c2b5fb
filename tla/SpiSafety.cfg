\* Every driver call, four in a row, on a console in color mode.
SPECIFICATION FairSpec
CONSTANTS
    Devices <- MCDevices
    DevNone = "NONE"
    MaxCalls = 4
    Ops <- AllOps
    ClobberRom1 = FALSE
    Color = TRUE
INVARIANTS
    NoWindowRace
    InFlightIntact
    WireOrdered
    TxDelivered
    OwnData
    ReadyMeansReady
    BanksRestored
PROPERTIES
    NoOverrun
    CallReturns
CHECK_DEADLOCK FALSE
