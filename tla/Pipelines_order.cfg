CONSTANTS
    NULL = NULL
    Parts = {"graph"}
    LastEvent = 2
    Kind <- MixedKinds
    Relays = {r1, r2}
    BatchSize = 2
    Workers = {w1, w2}
    MaxRecords = 2
    MaxAttempts = 2
    MaxFaults = 2
    Row <- ChainRow
    Existing <- ChainExisting
    Transactions <- ChainTransactions
    Projectors = {p1, p2}
    GraphBatch = 2
    GraphFetch = 2
    Visible <- ChainVisible
    Queries <- ChainQueries
    MaxGraphFaults = 2
    Loops = {w1, w2}
    Poll = 1
    Backoff = 3
    IterationMax = 2
    MaxAge = 8
SPECIFICATION PartsSpec
SYMMETRY Symmetry
INVARIANT AlwaysCurrent
