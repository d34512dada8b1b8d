SPECIFICATION Spec
CONSTANTS
    MaxTicks = 3
    MaxLen = 1
    BatchSize = 2
    MaxFaults = 2
    MaxStops = 1
INVARIANTS
    AckedIsSettled
    StoredOnce
    OneReplyEach
PROPERTIES
    TicksAreRead
    ReadIsAcked
CHECK_DEADLOCK FALSE
