\* Eight channels and three strips: every set of at most three pinned channels,
\* every width from 0 (all strips pinned) to 3.
CONSTANTS
    MaxChannel = 8
    NumStrips = 3
SPECIFICATION Spec
INVARIANTS
    LoopMatchesWindows
    LoopListsPassed
\* The loop ends.
CHECK_DEADLOCK FALSE
