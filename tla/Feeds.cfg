SPECIFICATION FeedsSpec
CONSTANTS
    WatchSubs = {w1, w2}
    Principals = {p1, p2}
    ConsultFroms = {1, 3}
    MaxVer = 2
    MaxLoops = 3
    WatchBuffer = 1
    SliceSize = 1
    MaxReadFaults = 1
    SockCalls = {"a", "b"}
    OneWays = {"b"}
    MaxSockIds = 3
    MaxDials = 2
    MaxToggles = 2
    MaxSockVer = 1
    MaxConcurrent = 1
    MaxSockFaults = 1
    Reads = {1, 2}
    Shown = 1
    MaxOpens = 2
    MaxPageToggles = 3
    MaxPageVer = 1
    MaxPageFaults = 1
    RelaySubs = {1, 2}
    Trusted = {1}
    Peers = {"b", "c"}
    RelayBuffer = 1
    RelayRetries = 1
    MaxStreams = 2
    MaxRelayVer = 1
    MaxUpsets = 1
    EdgeHosts = {"A", "B"}
    FrontDoor = "A"
    Reachable = {"A", "B"}
    EdgeActors = {"x", "y"}
    EdgeCalls = {1, 2}
    MissModes = {"proxy", "redirect"}
    Resends = TRUE
    MaxHops = 2
    MaxRedirects = 2
    RouteCap = 1
    MaxEdgeFaults = 1
    HighWaterMark = 1
    MaxYields = 3
    Bodies = {1, 2}
    ChangeBuffer = 1
    MaxBodyTurns = 1
    MaxTimers = 1
SYMMETRY Alike
INVARIANTS
    WatchersAreCurrent
    SocketSessionsAgree
    PagesShowTheLatest
    EdgeForwardsFaithfully
    BodiesEndCleanly
CHECK_DEADLOCK FALSE
