SPECIFICATION Spec
CONSTANTS
    Sockets = {k1, k2}
    NoSocket = NoSocket
    Count = 2
    Cap = 2
    Page = 1
    MaxLen = 1
    MaxEntries = 2
    MaxMounts = 2
    MaxLoads = 1
    MaxFaults = 1
INVARIANTS
    TypeOK
    OneChain
    FeedIsGapless
    ListIsExplained
PROPERTIES
    FeedComesBack
CHECK_DEADLOCK FALSE
