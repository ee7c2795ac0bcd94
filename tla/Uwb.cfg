CONSTANTS
    MaxFrames = 2
    MaxHeard = 2
SPECIFICATION FairSpec
INVARIANTS TypeOK DeliveredInOrder NoneLeftOut SuccessMeansAnswered NeverReplayed ListensInLoop
PROPERTIES CallsReturn
CHECK_DEADLOCK FALSE
