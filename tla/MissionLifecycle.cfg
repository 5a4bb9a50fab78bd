CONSTANTS
    Requests = {q1, q2, q3}
    Workers = {w1, w2}
    Messages = {m1, m2}
    MaxDeliveries = 1
    MaxAttempts = 2
    Stages = 2
    Disposable = TRUE
    Faults = {"EXCEPTION", "CRASH", "OUTAGE"}
    None = None
SPECIFICATION Spec
SYMMETRY Symmetry
INVARIANTS IInv ExclusiveExecution CompletedIsDecided
PROPERTIES ChangesAreLegal
CHECK_DEADLOCK FALSE
