SPECIFICATION Spec
CONSTANTS
    s1 = s1
    s2 = s2
    unset = unset
    malformed = malformed
    Senders = {s1, s2}
    RATE_LIMIT_PER_SEC = unset
    RATE_LIMIT_BURST = unset
    RETRY_MAX_ATTEMPTS = 0
    DefaultRate = 3
    DefaultBurst = 3
    DefaultAttempts = 3
    Backoff = 1
    Codes = {0, 202, 404, 503}
INVARIANTS
    SentWasAccepted
