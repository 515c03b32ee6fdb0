CONSTANTS
    NULL = NULL
    Facts = {f1}
    Requests = {r1, r2, r3}
    Commands <- MCCommands
    CapturedEvidence <- NoEvidence
    Instants = {0, 1, 2}
    MaxClock = 2
    ClockStepsBack = FALSE
    Agents = {a1}
    KnownAtChoices = {0, NULL}
    ValidAtChoices = {NULL}
    Outcomes = {"kept", "float"}
    Jsonb <- RoundTrip
SPECIFICATION DecisionsSpec
SYMMETRY RequestSymmetry
INVARIANTS
    ReceiptsVerify
    ImpactsTrue
