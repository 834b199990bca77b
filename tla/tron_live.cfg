SPECIFICATION FairSpec
CONSTANTS
    Capacity = 3
    QuoteCap = 2
    QuoteLife = 1
    Stale = 2
    Ahead = 1
    Budget = 1
    MaxTx = 2
    MaxQuotes = 2
    MaxCrashes = 0
    MaxWriteErrors = 0
    MaxClock = 2
    MaxHeight = 3
    MaxForks = 0
PROPERTIES
    FinalIsRecorded
