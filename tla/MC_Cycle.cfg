CONSTANTS
    s1 = s1
    s2 = s2
    Slave <- MC_Slave
    Cond <- MC_Cond
    Lists <- MC_Lists
    INTERVAL = 5
    REDUNDANCY = 7
    OTHER_PERIOD = 12
    SETTLE = 1
    HOLD = 3
    TX_TIMEOUT = 18
    SPREAD = 2
    MaxCommands = 5
SPECIFICATION Spec
INVARIANTS TypeOK RowHasOneDriver ReadingAfterScan
PROPERTIES SyncFindsRest
