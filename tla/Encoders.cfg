SPECIFICATION FairSpec
CONSTANTS
    Kinds = {"Fader", "Dial", "SoundMeter", "Master"}
    FaderDelay = 4
    DialDelay = 3
    UpdateLag = 1
    AnswerLag = 1
    Channels = {1, 2}
    MaxValue = 1
    MaxTurns = 2
    MaxTroubles = 1
INVARIANTS
    TypeOK
    JumpsBackOnlyIfSlow
    ShownIsValue
PROPERTIES
    Settles
