CONSTANTS
    Slave = {s1, s2}
    Slot = {0}
    TX_RETRY_TIMES = 1
    RX_QUEUE = 2
    MaxCalls = 3
    MaxUnderway = 1
SPECIFICATION FairSpec
INVARIANTS TypeOK WholeFrames BlockedByBacklog
PROPERTIES KeepsPromise CallReturns
CHECK_DEADLOCK FALSE
