SPECIFICATION HostsSpec
CONSTANTS
    HostActors = {"a"}
    HostPools = {"w"}
    HostCalls = {1, 2, 3}
    PoolCap = 1
    MaxQueued = 2
    MaxInflight = 3
    MaxActive = 1
    MaxActs = 3
    MaxSpins = 1
    MaxHostFaults = 1
    DlCalls = {1, 2, 3}
    Budgets = {1, 4}
    DefaultBudget = 3
    MaxBudget = 4
    CoarseTick = 2
    ExactBelow = 2
    MaxDlNow = 9
    Callers = {1, 2, 3}
    MaxHosts = 2
    MaxLifeFaults = 2
    TopicNames = {"T", "U"}
    SubTypes = {"a", "b"}
    Subscribes <- MCSubscribes
    LazyTypes = {"b"}
    RebuildsIndex = FALSE
    MaxPublishes = 3
    MaxTopicFaults = 1
    MountCalls = {1, 2}
    MountModes = {"cluster", "single"}
    MaxBuilt = 2
    MaxBody = 1
    MaxMountFaults = 1
    MonitorSources = {"http", "embedded"}
    Panels = {"h1"}
    MaxPolls = 2
    MaxStarts = 2
    MaxViewTime = 1
    MaxKeys = 1
    MaxViewFaults = 1
    Plugins <- MCPlugins
    HookCalls = {1, 2, 3}
    MaxAttempts = 3
    MaxHookFaults = 1
    Own = "x"
    OtherRef = "y"
    PoolRef = "pool"
    DoCalls = {1, 2}
    DoSocks = {1, 2}
    MaxDoVer = 2
    MaxDoFaults = 1
INVARIANTS
    HostNeverStrandsACall
    StopUndoesStart
    MountFollowsTheApp
    ObjectsServeTheirActor
CHECK_DEADLOCK FALSE
