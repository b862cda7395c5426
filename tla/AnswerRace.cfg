\* One key, two strips, no losses: the shortest way to the assertion.
CONSTANTS
    NumStrips = 2
    Channels = {c1, c2}
    Invalid = Invalid
    Contents = {x}
    NoExecutor = NoExecutor
    Blank = Blank
    MaxSequence = 1
    QueueCap = 1
    MaxLosses = 0
    MaxEdits = 0
SPECIFICATION Spec
INVARIANT
    AnswerMatchesStrip
CHECK_DEADLOCK FALSE
