SPECIFICATION SysSpec
CONSTANTS
    Order <- MCOrder
    Initial <- MCInitial
    Withdrawal <- MCWithdrawal
    Gains = {1}
    Routes <- MCRoutes
    Malformed = Malformed
    Threshold = 10
    PositionPct = 50
    BuyFeePct = 20
    MinNotional = 4
    BatchCount = 1
    MaxLen = 2
    MaxEntries = 2
    MaxAsks = 0
    MaxFaults = 1
    MaxStops = 0
    Amounts = {2}
    MaxPuts = 1
    MaxDeletes = 1
INVARIANTS
    EditsAreExplained
    OverdrawnByEdit
    StoredOrDeleted
