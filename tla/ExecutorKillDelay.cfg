SPECIFICATION Spec
CONSTANTS
    Order <- MCOrder
    Initial <- MCInitial
    Withdrawal <- MCWithdrawal
    Gains <- MCGains
    Routes <- MCRoutes
    Malformed = Malformed
    Threshold = 10
    PositionPct = 50
    BuyFeePct = 20
    MinNotional = 4
    BatchCount = 2
    MaxLen = 2
    MaxEntries = 2
    MaxAsks = 1
    MaxFaults = 0
    MaxStops = 0
PROPERTIES
    KillIsImmediate
