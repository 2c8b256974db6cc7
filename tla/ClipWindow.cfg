CONSTANTS
    Callers = {c1}
    Offsets <- OffsetsAroundNow
    RingSeconds = 3
    DiskFails = TRUE
    MemoryFails = TRUE
    Ids = {1, 2}
    MaxAge = 1
SPECIFICATION FairSpec
CHECK_DEADLOCK FALSE
INVARIANT
    ClipIsTheWindow
