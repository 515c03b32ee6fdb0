CONSTANTS
    NULL = NULL
    Parts = {"queue", "events", "graph"}
    org1 = org1
    org2 = org2
    doc1 = doc1
    doc2 = doc2
    w1 = w1
    w2 = w2
    LastVersion = 2
    Org <- TwoOrgs
    Text <- TwoTexts
    Refused = {}
    Workers = {w1, w2}
    Drainers = {}
    MaxBatches = 0
    BatchSize = 1
    ChunkSize = 1
    MaxRetries = 1
    MaxAttempts = 2
    Lease = 1
    RetryBase = 1
    RetryCap = 2
    MaxFaults = 1
SPECIFICATION ProgressSpec
PROPERTIES
    EventuallySettled
    EventsSettled
    EventuallyProjected
