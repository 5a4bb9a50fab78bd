SPECIFICATION Spec
CONSTANTS
    Missions <- MCMissions
    MaxCalls = 5
    MaxRounds = 2
    MaxExtra = 1
    CleanProbes = 5
    MaxAnswer = 2
    MaxBlind = 1
INVARIANTS
    TypeOK
    PassIsEarned
    BlockIsProven
    LedgerTruthful
    CancelStopsModel
    RatedByTariff
    PassIsRight
    ExposureCovers
    PlanIsSound
    CauseIsTheChange
    VerifiedIsPriced
    AloneOrTogether
    PricesAsCompiled
PROPERTIES
    PipelineEnds
CHECK_DEADLOCK FALSE
