CONSTANTS
    MeterFull = 2
    Scale = 2
    GainUnit = 2
    Gains = {1, 2, 8}
    AlphaNum = 1
    AlphaDen = 2
    Lanes = 2
    Setups <- SaturatingSetups
    Inputs <- MCInputs
SPECIFICATION FairSpec
INVARIANTS
    TypeOK
    FilterBounded
    FedIsBoosted
PROPERTIES
    PeakIsLoudest
    DcOffsetDecays
