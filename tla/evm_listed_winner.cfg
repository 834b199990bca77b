SPECIFICATION FairSpec
CONSTANTS
    Capacity = 3
    ArchiveThreshold = 9
    KeepRecent = 1
    QuoteCap = 2
    ExternalWallets = FALSE
    LaggingNodes = FALSE
    MaxTx = 2
    MaxQuotes = 2
    MaxNonce = 1
    MaxVersion = 3
    MaxReorgs = 1
    MaxCrashes = 0
    MaxWriteErrors = 0
PROPERTIES
    FinalIsShown
