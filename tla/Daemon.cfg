CONSTANTS
    CommandLines <- LinesGiven
    Files <- FilesGiven
    DeviceMisses <- AnyMiss
    DeviceFails = TRUE
    MaxPending = 2
    MaxSignals = 2
SPECIFICATION FairSpec
CHECK_DEADLOCK FALSE
INVARIANTS
    TypeOK
    CommandLineWins
    PeriodsFit
    CallbackMeetsLiveParts
PROPERTIES
    ShutdownCompletes
    ClientsAreServed
