SPECIFICATION Spec
CONSTANTS
    b1 = b1
    b2 = b2
    b3 = b3
    b4 = b4
    s1 = s1
    k1 = k1
    k2 = k2
    k3 = k3
    p1 = p1
    p2 = p2
    Batches = {b1, b2}
    Singles = {s1}
    Items <- Reused
    NoKey = NoKey
    EmptyKey = EmptyKey
    BlankKey = BlankKey
    MaxBatchSize = 4
    NoRow = NoRow
    MaxFaults = 0
INVARIANTS
    ReuseIsRejected
CHECK_DEADLOCK FALSE
