CONSTANTS
    NULL = NULL
    Parts = {"store", "cache", "sessions"}
    Slots = {s1}
    Counters = {c1}
    Values = {x, y}
    TTLs = {1, 2}
    MaxTime = 4
    MaxCount = 3
    Writes = {1}
    Direct = {}
    Questions = {q1}
    Readers = {r1, r2}
    EntryTTL = 1
    GenerationTTL = 2
    MaxDeliveries = 2
    MaxGeneration = 3
    p1 = p1
    p2 = p2
    v1 = v1
    Sessions = {h1, h2}
    Calls = {k1, k2}
    Snapshots = {p1, p2}
    FactsOf <- SomeFacts
    Queries = {q1}
    MaxRecent = 1
    SessionTTL = 1
SPECIFICATION PartsSpec
SYMMETRY Symmetry
INVARIANTS
    FreshWithinEpoch
    ContextWhole
PROPERTIES
    ImplementsContract
