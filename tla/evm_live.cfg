SPECIFICATION FairSpec
CONSTANTS
    Capacity = 1
    ArchiveThreshold = 1
    KeepRecent = 0
    QuoteCap = 2
    ExternalWallets = FALSE
    LaggingNodes = FALSE
    MaxTx = 2
    MaxQuotes = 2
    MaxNonce = 2
    MaxVersion = 3
    MaxReorgs = 0
    MaxCrashes = 1
    MaxWriteErrors = 1
PROPERTIES
    FinalizedIsRecorded
