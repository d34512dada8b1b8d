SPECIFICATION Spec
CONSTANTS
    x = x
    y = y
    s = s
    t = t
    u = u
    NoExchange = NoExchange
    Exchanges = {x, y}
    Symbols = {s, t, u}
    Default <- MCDefault
    Listed <- MCListed
    Desired = {t}
    MaxPatches = 2
    MaxFaults = 2
    MaxStops = 1
INVARIANTS
    QuietStartIsExact
    DisabledIsLeftAlone
    UnlistedIsExplained
CHECK_DEADLOCK FALSE
