SPECIFICATION Spec
CONSTANTS
    Capacity = 3
    QuoteCap = 1
    Batch = 1
    Validity = 1
    MaxTx = 2
    MaxQuotes = 2
    MaxCrashes = 1
    MaxWriteErrors = 1
    MaxHeight = 3
    MaxForks = 1
INVARIANTS
    ExpiredNeverLands
    OneOutstanding
    FinalVerdictsSound
PROPERTIES
    WriteAhead
