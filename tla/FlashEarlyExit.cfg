\* The first waits of nile_flash_wait_ready may time out.
SPECIFICATION Spec
CONSTANTS
    Operations <- AllOperations
    Timeouts <- MCEarlyExits
    MaxChunks = 1
    MaxCalls = 2
INVARIANTS
    ComesBack
CHECK_DEADLOCK FALSE
