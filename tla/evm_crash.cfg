SPECIFICATION Spec
CONSTANTS
    Capacity = 2
    ArchiveThreshold = 2
    KeepRecent = 1
    QuoteCap = 1
    ExternalWallets = TRUE
    LaggingNodes = FALSE
    MaxTx = 2
    MaxQuotes = 2
    MaxNonce = 2
    MaxVersion = 2
    MaxReorgs = 0
    MaxCrashes = 1
    MaxWriteErrors = 1
INVARIANTS
    TypeOK
    DurableBeforeBroadcast
    RejectedIsAbandonable
    SingleOutstandingNonce
PROPERTIES
    WriteAhead
