SPECIFICATION Spec
CONSTANTS
    c1 = c1
    a1 = a1
    l2 = l2
    n3 = n3
    l3 = l3
    n4 = n4
    l4 = l4
    or = or
    groq = groq
    m1 = m1
    m2 = m2
    m3 = m3
    m4 = m4
    None = None
    Pool <- MCPool
    Route = {c1, a1, l2, n3, l3, n4, l4}
    PoolOf <- MCPoolOf
    ProviderOf <- MCProviderOf
    ModelOf <- MCModelOf
    Listed <- MCListed
    Usable = {c1, a1, l2, n3, l3, n4, l4}
    Aggregator = or
    Hold = 2
    Dispatcher = {d1}
    MaxAttempts = 2
    Thread = {t1, t2}
    Caller = caller
    Free = {m3, m4}
    Sampled = {m2}
    Retired = {m4}
    CanaryRoute <- MCCanaryRoute
    LedgerRoute <- MCLedgerRoute
    Request = {x1, x2}
    Plain = {c1, a1, l2}
    Workload <- MCWorkload
INVARIANTS LockoutsShared
PROPERTIES QuotaHonoured GoneStaysGone PoolsIsolated RetirementKept
    SchedulerStops LockoutsEnd
CHECK_DEADLOCK FALSE
