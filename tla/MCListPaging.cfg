SPECIFICATION Spec
CONSTANTS
    any = any
    Any = any
    Rows = {1, 2, 3, 4}
    CreatedAt <- Times
    ChannelOf <- Channels
    Filters <- Queries
    Limit = 1
    MaxChanges = 3
INVARIANTS
    TypeOK
    NothingMissed
    RepeatsNeedArrivals
