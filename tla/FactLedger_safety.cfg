CONSTANTS
    NULL = NULL
    f1 = f1
    Facts = {f1}
    Requests = {r1, r2, r3}
    Commands <- MCCommands
    CapturedEvidence <- MCEvidence
    Instants = {0, 1, 2, 3}
    MaxClock = 2
    PropertyRank <- OneRank
    ClockStepsBack = TRUE
SPECIFICATION Spec
SYMMETRY RequestSymmetry
INVARIANTS
    ChainsOK
    CommittedOnce
    SqlMatchesReference
    ContradictionsExact
    ReadsAgree
PROPERTIES
    HistoryStable
