CONSTANTS
    Rate = 1
    BytesPerFrame = 3
    BlockSeconds = 2
    FlushFloor = 4
    WordMod = 32
    Periods = {2}
    DiskFails = FALSE
    MaxFrames = 4
SPECIFICATION FairSpec
CHECK_DEADLOCK FALSE
PROPERTY
    StopReturns
