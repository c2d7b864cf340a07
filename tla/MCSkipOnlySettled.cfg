SPECIFICATION Spec
CONSTANTS
    s1 = s1
    s2 = s2
    s3 = s3
    Notifications = {n1}
    Handlers = {h1}
    Schedulers = {d1}
    Reapers = {}
    Senders = {s1}
    MaxFaults = 0
    MaxLate = 0
    BatchSize = 1
    MaxAttempts = 2
    BufferSize = 1
    Poison = Poison
    NoId = NoId
    LeaseHolds = TRUE
PROPERTIES
    SkipOnlySettled
CHECK_DEADLOCK FALSE
