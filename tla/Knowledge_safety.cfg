CONSTANTS
    NULL = NULL
    Parts = {"evidence", "reviews", "closings", "ranking", "scoping"}
    c1 = c1
    first = first
    second = second
    v1 = v1
    r1 = r1
    r2 = r2
    f1 = f1
    f2 = f2
    h1 = h1
    h2 = h2
    Contents = {c1}
    Copies = {first, second}
    Versions = {v1}
    Requests = {r1, r2}
    Facts = {f1, f2}
    MaxVersions = 2
    Findings <- TwoFactFindings
    MaxFindings = 2
    Reviews = {r1, r2}
    People = {h1, h2}
SPECIFICATION PartsSpec
SYMMETRY Symmetry
INVARIANTS
    AnswersStand
    
PROPERTIES
    ClosedOnce
    ReportTrue
    ReadsAsCallerNow
