\* Two strips with two buttons each and three channels.  Channel 15 of a strip
\* that shows "----" arrives as 15 % 8 = 7, the MUTE executor of channel 2.
CONSTANTS
    NumStrips = 2
    MaxChannel = 3
    Invalid = 15
    WireChannels = 8
    TypeStep = 5
    Buttons = {"SELECT", "MUTE"}
    Executors = {1, 2, 6, 7}
    QueueCap = 2
    MaxPresses = 3
    MaxMoves = 1
    MaxLosses = 1
SPECIFICATION Spec
INVARIANTS
    TypeOK
    NothingStaysPressed
    LightTellsDesk
\* The bounds of the presses, moves and losses are used up.
CHECK_DEADLOCK FALSE
