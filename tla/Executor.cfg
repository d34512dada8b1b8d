SPECIFICATION FairSpec
CONSTANTS
    Order <- MCOrder
    Initial <- MCInitial
    Withdrawal <- MCWithdrawal
    Gains <- MCOneGain
    Routes <- MCRoutes
    Malformed = Malformed
    Threshold = 10
    PositionPct = 50
    BuyFeePct = 20
    MinNotional = 4
    BatchCount = 2
    MaxLen = 1
    MaxEntries = 2
    MaxAsks = 2
    MaxFaults = 1
    MaxStops = 1
INVARIANTS
    AtMostOnce
    AckedIsRecorded
    HistoryExplainsBalance
    NonNegative
PROPERTIES
    FollowsLifecycle
    BarredBuysNothing
    KillTakesHold
    EntriesAreRead
    DeliveredIsAcked
