CONSTANTS
    d1 = d1
    d2 = d2
    NoDev = NoDev
    Dev <- MC_Dev
    DeviceLists <- MC_DeviceLists
    Cond <- MC_Cond
    FORWARD_QUEUE_SIZE = 1
    MaxRequests = 4
    MaxTimeouts = 1
SPECIFICATION FairSpec
INVARIANTS TypeOK StatusFaithful SessionTiles SlotsConsecutive CycleOnlyWhileRunning TimerOnlyWhileRunning
PROPERTIES ReadFollowsSync RequestAnswered KeepsMeasuring
