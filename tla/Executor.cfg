SPECIFICATION Spec
CONSTANTS
    Request = {r1}
    Endpoint = {e1, e2, e3, e4}
    NoEndpoint = NoEndpoint
    NoOutcome = NoOutcome
    Provider <- OneProvider
    Ends <- KindsOfOutcome
    MaxTotal = 4
    MaxSame = 2
    MaxHops = 2
    MaxWaits = 1
    Estimate <- UnitEstimate
    Cost <- UnitCost
    Limit = 4
SYMMETRY Symmetry
CHECK_DEADLOCK FALSE
INVARIANTS
    AttemptsBounded
    NoReturn
    RetriesBounded
    AttemptsWrittenAhead
PROPERTY Progress
