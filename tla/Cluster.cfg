SPECIFICATION ClusterSpec
CONSTANTS
    StClients = {1, 2}
    StProviders = {"memory", "file", "sqlite", "redis", "pg", "surreal", "object"}
    MaxStWrites = 4
    MaxStClears = 2
    MaxLostReplies = 1
    TTL = 1
    LeaseSkew = 1
    Slots = {1, 2}
    MaxNow = 3
    MaxMemFaults = 1
    RefProviders = {"redis", "pg", "surreal", "k8s"}
    Demands = {1, 2}
    QuietProviders = {"surreal"}
    MaxContent = 2
    MaxRefFaults = 1
    Backends = {"memory", "redis", "pg", "surreal"}
    DirHosts = {"h1", "h2"}
    DirActors = {"x"}
    MaxActivations = 3
    MaxDirFaults = 1
    Reruns = 1
    LbHosts = {1, 2}
    Attaching = {1, 2}
    LbActors = {"x", "y", "z"}
    Threshold = 12
    MaxShed = 2
    MaxLbChurn = 1
    MaxLbRounds = 2
    PeerHosts = {"A", "B", "C"}
    PeerActors = {"x", "k"}
    StatelessRefs = {"k"}
    Unlisted = {"C"}
    TypeAt <- MCTypeAt
    Wires <- MCWires
    Score <- MCScore
    Rank <- MCRank
    Skew <- MCSkew
    Policies = {"random", "prefer-local"}
    AuthWindow = 2
    Budget = 1
    PeerRetries = 1
    MaxPeerNow = 1
    MaxPeerCalls = 3
    MaxChurn = 1
    MonHosts = {"h1", "h2"}
    Collector = "h1"
    MonTypes = {"a", "b"}
    MaxMonCalls = 3
    Durations = {5, 40}
    SubBits = 1
    MaxOctave = 4
    MaxTypes = 1
    DigestRows = 1
    MaxMonOps = 1
    Sessions = {1, 2}
    WatchIds = {1}
    Requested = {0, 5, 30}
    MaxSubs = 2
    MaxSpent = 4
    Libraries = {"fetch", "surreal"}
    FetchCalls = {1, 2, 3, 4}
    Connections = 2
    MaxFetchTicks = 4
    MaxFetchFaults = 1
INVARIANTS
    StoresNeverLoseAWrite
    MembershipIsHonest
    PeersAgree
    MetricsAddUp
PROPERTIES
    ViewsMoveForCause
CHECK_DEADLOCK FALSE
