SPECIFICATION Spec
CONSTANTS
    Request = {r1, r2}
    Endpoint = {e1, e2}
    NoEndpoint = NoEndpoint
    NoOutcome = NoOutcome
    Provider <- OneProvider
    Ends <- Outcome
    MaxTotal = 2
    MaxSame = 2
    MaxHops = 2
    MaxWaits = 1
    Estimate <- DoubleEstimate
    Cost <- AnyCost
    Limit = 5
SYMMETRY Symmetry
CHECK_DEADLOCK FALSE
INVARIANTS
    ReservationsInFlight
    WithinBudget
