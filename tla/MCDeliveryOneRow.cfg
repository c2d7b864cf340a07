SPECIFICATION FairSpec
CONSTANTS
    s1 = s1
    s2 = s2
    s3 = s3
    Notifications = {n1}
    Handlers = {h1}
    Schedulers = {d1}
    Reapers = {r1}
    Senders = {s1, s2, s3}
    MaxFaults = 2
    MaxLate = 1
    BatchSize = 1
    MaxAttempts = 2
    BufferSize = 1
    Poison = Poison
    NoId = NoId
    LeaseHolds = FALSE
ACTION_CONSTRAINT FirstIdleTakes
INVARIANTS
    TypeOK
    SendersBounded
    ExtraOutcomesNeedFaults
PROPERTIES
    SkipsAreCovered
    FinalUntilPremature
    OnlyLateOutcomesDepart
    EventuallySettled
CHECK_DEADLOCK FALSE
