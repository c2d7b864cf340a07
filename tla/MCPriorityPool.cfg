SPECIFICATION FairSpec
CONSTANTS
    Senders = {s1, s2}
    Supply <- Backlog
    Capacity = 1
INVARIANTS
    TypeOK
    OvertakingBounded
PROPERTIES
    ShutdownAdvances
    EverythingTaken
    ShutdownCompletes
CHECK_DEADLOCK FALSE
