SPECIFICATION SchedSpec
CONSTANTS
    RHosts = {1, 2}
    MaxClock = 2
    Dues = {0, 2}
    Period = 2
    MaxSets = 1
    MaxClears = 1
    MaxUndelivered = 1
    MaxHostCrashes = 1
    Providers = {"sharded", "redis", "pg", "surreal", "durable"}
    TaskNames = {t1}
    TaskHosts = {1, 2}
    MaxStarts = 2
    MaxInsts = 2
    MaxDepartures = 1
    MaxTaskFaults = 1
    MaxAttempts = 2
    Retains = TRUE
    MaxCheckpoints = 1
    MaxPauses = 1
    MaxJobCrashes = 2
    MaxJobFaults = 1
    MaxJobActs = 4
    WfPlan <- MCWfPlan
    MaxTries = 2
    ShortMs = 1
    LongMs = 2
    MaxWfClock = 4
    MaxTouches = 2
    MaxLoose = 2
    MaxWfFaults = 1
    Unary = {u1}
    Streams = {s1}
    AcceptorCalls = {u1}
    Window = 1
    Chunks = 2
    HighWater = 1
    MaxConnFaults = 1
    MaxConns = 2
    MaxPending = 1
    MaxLinkFaults = 1
    MaxStops = 1
    MaxLinkCalls = 1
    Runs = {"p", "c"}
    Plans <- MCPlans
    KidsOf <- MCKidsOf
    ParentOf <- MCParentOf
    Nobody = "nobody"
    MaxSeq = 2
    EngBudget <- MCEngBudget
    Own = {"a", "b"}
    Kids = {"k"}
    Foreign = {"f"}
    Shards = {"s0", "s1"}
    ShardOf <- MCShardOf
    AppendMode = {TRUE, FALSE}
    SaveEvery = 2
    CompactEvery = 2
    Ring = 2
    PageLimit = 1
    MaxLedgerFaults = 1
INVARIANTS
    RemindersAreKept
    BackgroundWorkSurvives
    WorkflowsResume
    ConnectionKeepsItsWord
    OneLinkPerPeer
    EngineStrandsNobody
    LedgerCountsOnce
PROPERTY
    VerdictsStand
CHECK_DEADLOCK FALSE
