\* What a timed-out receive returns.
SPECIFICATION Spec
CONSTANTS
    Devices <- MCDevices
    DevNone = "NONE"
    MaxCalls = 2
    Ops <- MCReceiveOps
    ClobberRom1 = FALSE
    Color = FALSE
INVARIANT RxSuccessStores
CHECK_DEADLOCK FALSE
