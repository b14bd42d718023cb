CONSTANTS
    r1 = r1
    r2 = r2
    r3 = r3
    NoRow = NoRow
    Runs <- MCRuns
    Keys <- MCKeys
    Domains <- OneDomain
    KeyOf <- MCKeyOf
    DomainOf <- SameDomain
    Lease = 2
    MaxClock = 3
SPECIFICATION Spec
INVARIANTS TypeOK LeaseHeld NoLeakedLock
PROPERTIES PublishOrder ImplementsLeaseLock
SYMMETRY Publishers
CHECK_DEADLOCK FALSE
