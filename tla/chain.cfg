SPECIFICATION MCSpec
CONSTANTS
    Parties = {p1, p2}
    Ids = {1}
    Escrow = Escrow
    Vault = Vault
    Amounts = {0, 1, 2}
    Supply = 2
    Ether = 1
    MaxDepth = 2
    MaxGifts = 1
    Nodes = {e1, e2}
    OrderValues <- MCOrderValues
    MaxBlock = 3
    MaxMinted = 3
    Requests = {r1, r2}
    N = 2
    MaxRounds = 2
    MaxMisroutes = 1
SYMMETRY Symmetry
INVARIANTS
    EscrowIsExact
    VaultIsExact
    PreviewHolds
    FinalLookupIsFinal
    FinalOrderIsFinal
    EndpointsAreChecked
PROPERTIES
    OrdersFollowLifeCycle
CHECK_DEADLOCK FALSE
