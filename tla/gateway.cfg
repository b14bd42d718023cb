SPECIFICATION Spec
CONSTANTS
    k1 = k1
    k2 = k2
    r1 = r1
    r2 = r2
    Requests <- MCRequests
    Keys <- MCKeys
    Plans <- MCPlans
    Tiers <- MCTiers
    StatedTtls <- MCStatedTtls
    JwksTtl = 1
    PlanTtl = 1
    Flight = 1
SYMMETRY Symmetric
INVARIANT
    ModelFaultsAreTold
PROPERTIES
    AcceptedByARecentKey
    PublishedKeyNeverRefused
    DecidedByARecentPlan
