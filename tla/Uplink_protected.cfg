CONSTANTS
    RX_QUEUE = 1
    MaxDatagrams = 1
    MaxUploads = 1
SPECIFICATION Spec
INVARIANTS Protected
CHECK_DEADLOCK FALSE
