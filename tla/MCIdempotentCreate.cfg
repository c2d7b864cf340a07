SPECIFICATION FairSpec
CONSTANTS
    b1 = b1
    b2 = b2
    b3 = b3
    b4 = b4
    s1 = s1
    k1 = k1
    k2 = k2
    k3 = k3
    p1 = p1
    p2 = p2
    Batches <- CrossingBatches
    Singles <- CrossingSingles
    Items <- Crossing
    NoKey = NoKey
    EmptyKey = EmptyKey
    BlankKey = BlankKey
    MaxBatchSize = 4
    NoRow = NoRow
    MaxFaults = 2
ACTION_CONSTRAINT RefusalsFirst
INVARIANTS
    TypeOK
    AnswersAgree
    AnswersAreStored
    BatchIsAtomic
    SummaryMatchesAnswer
    ContractEnforced
    NoGroupIsStuck
PROPERTIES
    KeysAreRegistered
    EveryRequestAnswered
CHECK_DEADLOCK FALSE
