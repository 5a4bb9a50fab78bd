CONSTANTS
    Requests = {q1}
    Workers = {w1}
    Messages = {m1}
    MaxDeliveries = 2
    MaxAttempts = 2
    Stages = 2
    Disposable = TRUE
    Faults = {"CRASH"}
    None = None
SPECIFICATION FairSpec
PROPERTIES CrashedMissionResumes
CHECK_DEADLOCK FALSE
