CONSTANTS
    Config <- MC_Config
    MaxMessages = 5
SPECIFICATION FairSpec
INVARIANTS TypeOK ScanComplete SampledRowIsDriven RowsInBounds ReadingIsLastScan
PROPERTIES ScanEnds
CHECK_DEADLOCK FALSE
