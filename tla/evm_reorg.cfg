SPECIFICATION Spec
CONSTANTS
    Capacity = 3
    ArchiveThreshold = 2
    KeepRecent = 1
    QuoteCap = 2
    ExternalWallets = FALSE
    LaggingNodes = TRUE
    MaxTx = 2
    MaxQuotes = 2
    MaxNonce = 2
    MaxVersion = 3
    MaxReorgs = 1
    MaxCrashes = 0
    MaxWriteErrors = 0
INVARIANTS
    PaidOnce
    FinalVerdictsSound
PROPERTIES
    FinalityIsStable
