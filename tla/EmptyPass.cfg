SPECIFICATION Spec
CONSTANTS
    Missions <- MCMissions
    MaxCalls = 5
    MaxRounds = 2
    MaxExtra = 1
    CleanProbes = 5
    MaxAnswer = 2
    MaxBlind = 1
INVARIANTS
    NoPassWithoutProbe
CHECK_DEADLOCK FALSE
