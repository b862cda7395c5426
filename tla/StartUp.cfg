SPECIFICATION BootFairSpec
CONSTANTS
    Limit = 1
INVARIANTS
    BootTypeOK
    CrashesOnlyEarly
    SurfaceShowsBoard
PROPERTIES
    BoardComesUp
CHECK_DEADLOCK FALSE
