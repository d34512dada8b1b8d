SPECIFICATION Spec
CONSTANTS
    a = a
    b = b
    silent = silent
    unlisted = unlisted
    NoSymbol = NoSymbol
    Expired = Expired
    Symbols <- MCSymbols
    Chunks <- MCChunks
    Silent <- MCSilent
    Unlisted <- MCUnlisted
    Permits = 2
    MaxAge = 4
    MaxFaults = 1
    MaxStops = 1
INVARIANTS
    StatusIsWitnessed
    HandshakesBounded
    DepthKeepsUp
PROPERTIES
    SymbolsAreServed
