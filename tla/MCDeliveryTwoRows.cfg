SPECIFICATION Spec
CONSTANTS
    s1 = s1
    s2 = s2
    s3 = s3
    Notifications = {n1, n2}
    Handlers = {h1}
    Schedulers = {d1}
    Reapers = {r1, r2}
    Senders = {s1, s2}
    MaxFaults = 1
    MaxLate = 0
    BatchSize = 2
    MaxAttempts = 1
    BufferSize = 1
    Poison = Poison
    NoId = NoId
    LeaseHolds = TRUE
SYMMETRY Symmetry
INVARIANTS
    ClaimExclusive
    ExtraOutcomesNeedFaults
    QueuedReachedTopic
    NotBeforeDue
PROPERTIES
    LifecycleSpec
CHECK_DEADLOCK FALSE
