CONSTANTS
    NULL = NULL
    Parts = {"decisions", "reviews", "cache"}
    s1 = s1
    s2 = s2
    f1 = f1
    f2 = f2
    f3 = f3
    q1 = q1
    Facts = {f1}
    Requests = {r1, r2}
    Commands <- MCCommands
    CapturedEvidence <- NoEvidence
    Instants = {0, 1, 2}
    MaxClock = 1
    ClockStepsBack = FALSE
    Agents = {a1}
    KnownAtChoices = {NULL}
    ValidAtChoices = {NULL}
    Outcomes = {"kept"}
    Jsonb <- RoundTrip
SPECIFICATION ProgressSpec
PROPERTIES
    RevokedStaysOut
    ImpactsComplete
    RequestsEnd
    ReviewsEnd
    EventuallyFresh
