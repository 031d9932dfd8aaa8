SPECIFICATION FairSpec
CONSTANTS
    Caller = {c1, c2}
    Outcome <- MostOutcomes
    Abandons = TRUE
    Administered = TRUE
    WindowSize = 3
    MinCalls = 2
    FailureThreshold = 50
    SlowThreshold = 100
    HalfOpenMax = 2
INVARIANTS
    NoPhantomPermit
    TripsWhenEvaluated
PROPERTIES
    ClosesWithEmptyWindow
    OpenEnds
    HalfOpenEndsUnlessBenign
