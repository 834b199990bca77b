SPECIFICATION Spec
CONSTANTS
    Capacity = 3
    QuoteCap = 1
    QuoteLife = 1
    Stale = 2
    Ahead = 1
    Budget = 2
    MaxTx = 2
    MaxQuotes = 2
    MaxCrashes = 1
    MaxWriteErrors = 1
    MaxClock = 3
    MaxHeight = 3
    MaxForks = 1
INVARIANTS
    ExpiredNeverLands
    OneOutstanding
    FinalVerdictsSound
PROPERTIES
    WriteAhead
