CONSTANTS
    NULL = NULL
    Parts = {"idempotency", "rates", "states"}
    c1 = c1
    c2 = c2
    c3 = c3
    k1 = k1
    b1 = b1
    b2 = b2
    u1 = u1
    a1 = a1
    Clients = {c1, c2, c3}
    Keys = {k1}
    Key <- OneKey
    Body <- TwoBodies
    Lock = 2
    TTL = 3
    Principals <- SomePrincipals
    TokenClients = {a1}
    RequestLimit = 2
    TokenLimit = 1
    Window = 3
    Second = 2
    MaxCount = 3
    States = {s1, s2}
    Payloads = {"p1", "p2"}
    StateTTL = 2
SPECIFICATION PartsSpec
SYMMETRY Symmetry
INVARIANTS
    AtMostOnce
    AtMostTwice
    AcceptedOnce
