SPECIFICATION Spec
CONSTANTS
    Requests = {r1, r2, r3}
    Limit = 2
    LastWindow = 2
    MaxProbes = 2
    MaxConflicts = 1
    Damage = 1
    Chunks = 3
    Permits = 1
    Attempts = 2
    Threshold = 2
    Batched = TRUE
INVARIANTS
    TrafficIInv
    NeverOverAdmits
    RefusedOnlyWhenFull
    PermitsAccountedFor
    BreakerCounts
PROPERTIES
    ImplementsContract
    TrippedForGood
    BatchEnds
CHECK_DEADLOCK FALSE
