CONSTANTS
    NULL = NULL
    Parts = {"members", "tokens"}
    o1 = o1
    read = read
    Names = {n1}
    Services = {agent}
    Users = {u1, u2, agent}
    Requests = {r1, r2}
    Clients = {c1}
    Organizations = {o1}
    OrgOf <- OrgOfClient
    AllowedScopes <- ReadOnly
    Scopes = {read, write}
    Processes = {p1, p2}
    Tokens = {t1}
    TokenRequests = {q1}
    TTL = 2
    Leeway = 1
    Skew = 1
    MaxKey = 3
SPECIFICATION PartsSpec
SYMMETRY Symmetry
INVARIANTS
    KeepsAdmin
    RefusedOnlyBehind
PROPERTIES
    KeepsPromise
