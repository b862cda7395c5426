CONSTANTS
    NumStrips = 2
    Channels = {c1, c2}
    Invalid = Invalid
    Contents = {x}
    NoExecutor = NoExecutor
    Blank = Blank
    MaxSequence = 1
    QueueCap = 2
    MaxLosses = 1
    MaxEdits = 1
SPECIFICATION FairSpec
INVARIANTS
    TypeOK
    AbortOnlyIfDisturbed
    WritesLandRight
PROPERTIES
    Converges
    RoundsGoOn
CHECK_DEADLOCK FALSE
\* Two strips, two channels and one key: an answer can be late by a key, a key
\* can fall into the middle of a request, and one strip can show "----".  Two
\* datagrams fit each way, so a late answer can stay one round behind; one is
\* lost and one edit made, in any order.
