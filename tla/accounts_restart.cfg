SPECIFICATION Spec
CONSTANTS
    Main = Main
    Ids = {a1}
    Keys = {k1}
    MaxAccounts = 2
    MaxCrashes = 1
    MaxWriteErrors = 0
INVARIANTS
    CatalogueLoads
