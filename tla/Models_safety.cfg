CONSTANTS
    NULL = NULL
    Parts = {"queue", "providers", "answers", "answers2", "investigations", "investigations2"}
    org1 = org1
    org2 = org2
    doc1 = doc1
    doc2 = doc2
    u1 = u1
    u2 = u2
    r1 = r1
    r2 = r2
    d1 = d1
    v1 = v1
    v2 = v2
    v3 = v3
    other = other
    LastVersion = 3
    Org <- MixedOrgs
    Text <- SharedText
    Refused = {doc2}
    Workers = {w1, w2}
    Drainers = {w2}
    MaxBatches = 2
    BatchSize = 2
    ChunkSize = 1
    MaxRetries = 0
    MaxAttempts = 2
    Lease = 1
    RetryBase = 1
    RetryCap = 2
    MaxFaults = 2
    ClientRetries = 2
    BaseDelay = 2
    MaxDelay = 5
    Timeout = 8
    MaxBatch = 2
    HttpStatuses = {200, 400, 401, 429, 503}
    RetryAfters <- SomeRetryAfters
    MaxElapsed = 12
    Askers = {u1, u2}
    Requests = {r1, r2}
    Searchable = {v1, v2, v3}
    Limit = 2
    MaxCited = 2
    Investigators = {u1, u2}
    Runs = {r1, r2}
    Decisions = {d1}
    FactVersions = {v1, v2}
    Receipt <- OneReceipt
    Chain <- TwoChain
    Invented = other
    MaxSteps = 3
    MaxToolCalls = 3
    MaxCalls = 3
SPECIFICATION PartsSpec
INVARIANTS
    Timely
    CitesWhatWasShown
    Grounded
PROPERTIES
    LeaseProtects
