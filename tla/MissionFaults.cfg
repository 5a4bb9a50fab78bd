CONSTANTS
    Requests = {q1, q2}
    Workers = {w1, w2}
    Messages = {m1, m2}
    MaxDeliveries = 2
    MaxAttempts = 2
    Stages = 2
    Disposable = TRUE
    Faults = {"EXCEPTION"}
    None = None
SPECIFICATION FairSpec
PROPERTIES MissionConcludes
CHECK_DEADLOCK FALSE
