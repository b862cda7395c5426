SPECIFICATION FairSpec
CONSTANTS
    Channels = {"1.101", "1.102"}
    Invalid = "UINT32_MAX"
    MaxKeys = 2
    MaxTroubles = 1
INVARIANTS
    TypeOK
    
    
PROPERTIES
    PadsSettle
CHECK_DEADLOCK FALSE
