\* The final window of a page of four channels leaves two strips without one.
CONSTANTS
    NumStrips = 3
    MaxChannel = 4
    MaxPage = 2
    Invalid = Invalid
    SequenceModulus = 2
SPECIFICATION Spec
INVARIANT
    PinnedChannelsUnique
CHECK_DEADLOCK FALSE
