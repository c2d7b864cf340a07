SPECIFICATION FairSpec
CONSTANTS
    ProviderTimeout = 20
    MaxAttempts = 3
    Backoff = 1
    InflightAfter = 40
    Margin = 60
    MaxClaim = 4
    MaxWait = 2
    MaxRecord = 47
    Skew = 4
    Horizon = 130
INVARIANTS
    TypeOK
    ReapsOnlyAbandoned
PROPERTIES
    AbandonedIsReaped
CHECK_DEADLOCK FALSE
