CONSTANTS
    Ring = 16
    Threshold = 4
    Periods = {2, 3}
    DiskFails = TRUE
SPECIFICATION FairSpec
CHECK_DEADLOCK FALSE
INVARIANTS
    TypeOK
    LeavesEmptyRing
PROPERTY
    WokenByNextPush
