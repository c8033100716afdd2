SPECIFICATION Spec
CONSTANTS
    N = 2
    MaxSeq = 2
    MaxCrashes = 0
    MaxLapses = 1
    MaxFails = 1
    MaxRouters = 1
    CanStop = FALSE
    HasEvictHost = FALSE
INVARIANTS
    SoleOwner
    OwnershipInv
CHECK_DEADLOCK FALSE
