SPECIFICATION HostSpec
CONSTANTS
 HostActors = {"a"}
 HostPools = {"w"}
 HostCalls = {1,2,3}
 PoolCap = 1
 MaxQueued = 2
 MaxInflight = 3
 MaxActive = 1
 MaxActs = 3
 MaxSpins = 3
 MaxHostFaults = 0
CHECK_DEADLOCK FALSE
INVARIANT NoForeignInterleaving
