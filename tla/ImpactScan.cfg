CONSTANTS
    r1 = r1
    r2 = r2
    r3 = r3
    b1 = b1
    b2 = b2
    c1 = c1
    c2 = c2
    m1 = m1
    m2 = m2
    None = None
    Rows = {r1, r2, r3}
    Batches = {b1, b2}
    BatchRows <- TwoBatchRows
    Truths <- Portfolios
    Coordinators = {c1}
    Messages = {m1, m2}
    Excess = 0
    MaxAttempts = 2
    MaxInflight = 1
    HaltAfter = 1
    MaxDeliveries = 1
SPECIFICATION Spec
SYMMETRY MessageSymmetry
INVARIANTS ScanIInv AggregateStaysTrue AggregateAddsUp DecisionSound
PROPERTIES CancelledNeverPasses DecidedRowsStay FencedWrites
