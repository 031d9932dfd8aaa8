SPECIFICATION FairSpec
CONSTANTS
    Caller = {c1, c2}
    Outcome <- MostOutcomes
    Abandons = TRUE
    Administered = FALSE
    WindowSize = 3
    MinCalls = 2
    FailureThreshold = 50
    SlowThreshold = 100
    HalfOpenMax = 1
PROPERTY HalfOpenEnds
