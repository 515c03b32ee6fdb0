CONSTANTS
    NULL = NULL
    f1 = f1
    Facts = {f1}
    Requests = {r1, r2}
    Commands <- MCCommands
    CapturedEvidence <- MCEvidence
    Instants = {0, 1, 2, 3, 4}
    MaxClock = 2
    PropertyRank <- OneRank
    ClockStepsBack = FALSE
SPECIFICATION FairSpec
PROPERTY AnswersReproducible
