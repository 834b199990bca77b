SPECIFICATION MCSpec
CONSTANTS
    Recipients = {r1, r2}
    Claimants = {c1, c2}
    Hour = 1
    Limit = 2
    MaxTx = 3
    MaxClock = 1
    MaxReorgs = 1
    Requests = {q1, q2}
    TrafficLimit = 2
    Reads = 1
    Writes = 1
    Attempts = 1
    Minute = 2
    MaxTicks = 2
SYMMETRY Symmetry
INVARIANTS
    PaidOncePerHour
    HourlyLimit
    GuessesAreBounded
    OperatorIsSeparate
