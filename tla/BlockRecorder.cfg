CONSTANTS
    Rate = 1
    BytesPerFrame = 3
    BlockSeconds = 3
    FlushFloor = 4
    WordMod = 32
    Periods = {4}
    DiskFails = TRUE
    MaxFrames = 12
SPECIFICATION FairSpec
CHECK_DEADLOCK FALSE
INVARIANTS
    TypeOK
    FilesAreGapless
    BlocksAreFull
    EveryByteAccounted
    FramesInOrder
    DrainedWhenStopped
PROPERTIES
    DropMeansBehind
    WakeupProtocol
    FilesAreALog
    StopReturnsOrWriterSleeps
