SPECIFICATION MCSpec
CONSTANTS
    h1 = h1
    h2 = h2
    h3 = h3
    h4 = h4
    Hashes <- MCHashes
    BlockHashes <- MCBlockHashes
    ImportIds <- MCNoImports
    Starts <- MCStarts
    MaxHashes = 1
    Keep = 1
    MaxNano = 0
    MaxCrashes = 1
    MaxWriteErrors = 1
    MaxLoads = 0
    MaxBlock = 2
    MaxConfigs = 2
    MaxRpcErrors = 1
    Recent = 2
    BackoffBase = 4
    BackoffCap = 6
INVARIANTS
    NoHashLost
    ServedIsComplete
    ScannedIsIndexed
PROPERTIES
    OrderIsStable
    OldScanIsIgnored
    EveryBlockIsScanned
