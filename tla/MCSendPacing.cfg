SPECIFICATION FairSpec
CONSTANTS
    s1 = s1
    s2 = s2
    unset = unset
    malformed = malformed
    Senders = {s1, s2}
    RATE_LIMIT_PER_SEC = 3
    RATE_LIMIT_BURST = unset
    RETRY_MAX_ATTEMPTS = malformed
    DefaultRate = 3
    DefaultBurst = 2
    DefaultAttempts = 2
    Backoff = 1
    Codes = {0, 202, 404, 503}
INVARIANTS
    TypeOK
    StartsBounded
    WaitBounded
    SleepBounded
    OutcomeHasCause
PROPERTIES
    EveryJobFinishes
