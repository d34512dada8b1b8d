SPECIFICATION Spec
CONSTANTS
    Symbols = {s}
    Exchanges = {x, y}
    Quotes <- MCQuotes
    NoQuote = NoQuote
    Malformed = Malformed
    WithDepth = {y}
    MinSpreads = {1}
    Notionals = {1000}
    DefaultMin = 1
    DefaultNotional = 1000
    Ttl = 2
    MaxLag = 1
    BatchCount = 2
    MaxLen = 2
    MaxEntries = 3
    MaxFaults = 1
    MaxStops = 1
INVARIANTS
    AckedIsPublished
    BookIsLatest
PROPERTIES
    EntriesAreDelivered
    SpreadIsAnnounced
    PublicationsApart
