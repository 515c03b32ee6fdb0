CONSTANTS
    NULL = NULL
    Parts = {"events", "graph", "workers", "schema", "backfill"}
    LastEvent = 2
    Kind <- MixedKinds
    Relays = {r1, r2}
    BatchSize = 2
    Workers = {w1, w2}
    MaxRecords = 2
    MaxAttempts = 2
    MaxFaults = 2
    Row <- FullRow
    Existing <- FullExisting
    Transactions <- FullTransactions
    Projectors = {p1}
    GraphBatch = 3
    GraphFetch = 2
    Visible <- ChainVisible
    Queries <- FullQueries
    MaxGraphFaults = 1
    Loops = {w1, w2}
    Poll = 1
    Backoff = 3
    IterationMax = 2
    MaxAge = 8
SPECIFICATION PartsSpec
SYMMETRY Symmetry
INVARIANTS
    ZeroPendingMeansComplete
    QuietMeansExact
    StopsInTime
    RevisionNamesSchema
    EveryRowCaptured
PROPERTIES
    KeepsPromise
