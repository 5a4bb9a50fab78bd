CONSTANTS
    Requests = {q1, q2}
    Workers = {w1}
    Messages = {m1}
    MaxDeliveries = 2
    MaxAttempts = 2
    Stages = 2
    Disposable = TRUE
    Faults = {}
    None = None
SPECIFICATION Spec
PROPERTIES CancelledIsFinal
CHECK_DEADLOCK FALSE
