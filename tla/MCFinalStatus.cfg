SPECIFICATION Spec
CONSTANTS
    s1 = s1
    s2 = s2
    s3 = s3
    Notifications = {n1}
    Handlers = {h1}
    Schedulers = {}
    Reapers = {r1}
    Senders = {s1, s2}
    MaxFaults = 0
    MaxLate = 1
    BatchSize = 1
    MaxAttempts = 2
    BufferSize = 1
    Poison = Poison
    NoId = NoId
    LeaseHolds = FALSE
PROPERTIES
    FinalStatusStays
CHECK_DEADLOCK FALSE
