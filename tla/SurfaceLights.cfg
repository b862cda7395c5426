SPECIFICATION FairSpec
CONSTANTS
    Limit = 1
    MaxKeys = 3
    MaxTroubles = 1
INVARIANTS
    TypeOK
    DivergenceHasCause
    PinLightsTellPins
PROPERTIES
    KeyLightsConverge
