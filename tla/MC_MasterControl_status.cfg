CONSTANTS
    d1 = d1
    d2 = d2
    NoDev = NoDev
    Dev <- MC_Dev
    DeviceLists <- MC_DeviceLists
    Cond <- MC_Cond
    FORWARD_QUEUE_SIZE = 2
    MaxRequests = 5
    MaxTimeouts = 0
SPECIFICATION Spec
INVARIANTS StatusZeroMeansSuccess
