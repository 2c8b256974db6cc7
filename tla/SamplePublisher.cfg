CONSTANTS
    Words = 2
    Readers = {r1}
    MaxPeriods = 4
    MaxStarts = 3
SPECIFICATION Spec
CHECK_DEADLOCK FALSE
INVARIANTS
    TypeOK
    CounterCoversData
    UndisturbedCopyIsThePeriod
PROPERTIES
    ReadsAreAStream
