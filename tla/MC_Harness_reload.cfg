CONSTANTS
    Config <- MC_Config
    MaxMessages = 2
SPECIFICATION Spec
INVARIANTS ReloadResetsAPin
CHECK_DEADLOCK FALSE
