CONSTANTS
    RX_QUEUE = 1
    MaxDatagrams = 2
    MaxUploads = 1
SPECIFICATION FairSpec
INVARIANTS TypeOK NoLostWakeup HaltsOnlyAfterOverlap
PROPERTIES WriterReturns KeepsConversation
CHECK_DEADLOCK FALSE
