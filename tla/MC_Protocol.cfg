CONSTANTS
    MaxSent = 2
    Messages <- MC_Messages
    Starts = {3, 16}
    Ends = {0, 1}
    Junk <- MC_Junk
SPECIFICATION Spec
INVARIANTS TypeOK ProcessedAsSent ValuesArrive StaleOnlyFromOlder
CHECK_DEADLOCK FALSE
