CONSTANTS
    e1 = e1
    e2 = e2
    e3 = e3
    Endpoint = {e1, e2, e3}
    NoEndpoint = NoEndpoint
    Suits = {e1, e2}
    Provider <- MCProvider
    Query <- MCQuery
    MaxTotal = 3
    MaxSame = 2
    MaxHops = 2
    MaxWaits = 1
    MaxChunks = 2
SPECIFICATION Spec
INVARIANTS
    NoSplice
    NoSilentTruncation
    UpstreamReleased
    EarlierAttemptsSettled
    VisibleStreamSettled
PROPERTY RequestEnds
CHECK_DEADLOCK FALSE
