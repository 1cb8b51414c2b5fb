\* Every exchange may fail, and the console may be reset at any moment.
SPECIFICATION GeometrySpec
CONSTANTS
    Cards <- AllCards
    MaxRetries = 3
    Faults <- AllFaults
    CapacitiesV1 = { 0, 1023, 1365, 4095 }
    CapacitiesV2 = { 0, 4112, 74565, 2097150 }
INVARIANTS
    StatusTrustworthy
    OkMeansReady
    AddressingRight
    GeometryRight
PROPERTY CallReturns
