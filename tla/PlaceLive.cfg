SPECIFICATION FairSpec
CONSTANTS
    N = 2
    MaxSeq = 1
    MaxCrashes = 1
    MaxLapses = 0
    MaxFails = 0
    MaxRouters = 1
    CanStop = TRUE
    HasEvictHost = TRUE
INVARIANTS
    SoleOwner
PROPERTIES
    DeadClaimReclaimed
CHECK_DEADLOCK FALSE
