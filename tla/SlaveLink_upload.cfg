CONSTANTS
    Slave = {s1, s2}
    Slot = {0}
    TX_RETRY_TIMES = 1
    RX_QUEUE = 2
    MaxCalls = 2
    MaxUnderway = 1
SPECIFICATION Spec
INVARIANTS UploadFromItsSlave
CHECK_DEADLOCK FALSE
