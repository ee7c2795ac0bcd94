CONSTANTS
    RX_QUEUE = 1
    MaxDatagrams = 1
    MaxUploads = 1
SPECIFICATION Spec
INVARIANTS NeverHalts
CHECK_DEADLOCK FALSE
