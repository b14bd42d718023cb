CONSTANTS
    c1 = c1
    c2 = c2
    c3 = c3
    None = None
    Callers <- ThreeCalls
    Impatient = {}
    ValueTTL = 2
    NegativeTTL = 1
    MaxTime = 0
SPECIFICATION CoalesceSpec
INVARIANT OneCacheWrite
CHECK_DEADLOCK FALSE
