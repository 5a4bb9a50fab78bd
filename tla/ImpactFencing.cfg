CONSTANTS
    r1 = r1
    r2 = r2
    r3 = r3
    b1 = b1
    b2 = b2
    c1 = c1
    c2 = c2
    m1 = m1
    m2 = m2
    None = None
    Rows = {r1, r2}
    Batches = {b1}
    BatchRows <- OneBatchRows
    Truths <- SmallPortfolios
    Coordinators = {c1}
    Messages = {m1, m2}
    Excess = 0
    MaxAttempts = 3
    MaxInflight = 1
    HaltAfter = 1
    MaxDeliveries = 3
SPECIFICATION Spec
SYMMETRY MessageSymmetry
PROPERTY FencedWrites
