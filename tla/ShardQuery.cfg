SPECIFICATION FairSpec
CONSTANTS
    NShards = 3
    Known = 2
    Permits = 1
    Slack = 1
    MaxSkew = 1
    NoBound = NoBound
    Kinds = {"history", "search"}
    Limits = {1}
    Offsets = {0, 1}
    MayFail = TRUE
    MayDrop = TRUE
    MaxClock = 2
    MaxMsg = 2
INVARIANTS TypeOK 
PROPERTIES NothingMissing EventuallyAnswered
CHECK_DEADLOCK FALSE
