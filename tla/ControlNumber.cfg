CONSTANTS
    Links = {l1}
    Monitor = m
    Scripts <- CommandScripts
    GainWord <- Written
    MaxGain = 1
    MaxPending = 2
SPECIFICATION Spec
CHECK_DEADLOCK FALSE
INVARIANTS
    SurvivesCommands
