CONSTANTS
    c1 = c1
    c2 = c2
    c3 = c3
    None = None
    Callers <- ThreeCalls
    Impatient <- ThreeCalls
    ValueTTL = 2
    NegativeTTL = 1
    MaxTime = 2
    a1 = a1
    a2 = a2
    b1 = b1
    b2 = b2
    Requests <- MCRequests
    Rpcs <- MCRpcs
    RpcOf <- MCRpcOf
    Limit <- MCLimit
    Window <- MCWindow
    MaxWait = 1
    MaxClock = 4
SPECIFICATION CacheSpec
INVARIANTS
    UsableEntry
    FetchesAreShared
    StoredBeforeShared
    TypeOK
    SlidingCap
PROPERTIES EveryCallReturns
CHECK_DEADLOCK FALSE
