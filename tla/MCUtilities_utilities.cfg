SPECIFICATION UtilitiesSpec
CONSTANTS
    NumThreads = 2
    Task = {t1, t2, t3}
    Clients = 2
    MaxRequests = 2
    MaxErrors = 1
    MaxOptions = 3
    Given <- MCGiven
    Producer = {p1, p2}
    Consumer = {c1, c2}
    Capacity = 2
    MaxPuts = 3
    SIZE = 12
    Digits = 3
    kMaxNumericSize = 6
    Number <- MCNumber
    Address <- MCAddress
    Decimals = {1, 5}
    o = o
    t = t
    f1 = f1
    f2 = f2
    Owner = o
    Threads <- MCThreads
    Functors <- MCFunctors
    EarlyQueue = TRUE
    DestroyEarly = FALSE
INVARIANTS NumbersFit RequestIsWellFormed Handshake
PROPERTIES PoolServes BenchPrints QueueServes OwnerGoesOn
CHECK_DEADLOCK FALSE
