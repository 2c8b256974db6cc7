CONSTANTS
    Links = {l1}
    Monitor = m
    Scripts <- CommandScripts
    GainWord <- Written
    MaxGain = 1
    MaxPending = 2
SPECIFICATION FairSpec
CHECK_DEADLOCK FALSE
INVARIANTS
    TypeOK
    MonitorInStep
PROPERTIES
    ClientsAreLetGo
