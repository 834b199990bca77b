SPECIFICATION FairSpec
CONSTANTS
    Main = Main
    Ids = {a1, a2}
    Keys = {k1, k2}
    MaxAccounts = 3
    MaxCrashes = 1
    MaxWriteErrors = 1
INVARIANTS
    NoSharedSigner
    UsedIsTracked
    StopIsClean
PROPERTIES
    KeysAreKept
    StopEnds
