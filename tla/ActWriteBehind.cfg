SPECIFICATION FairSpec
CONSTANTS
    Acts = {a1, a2}
    Calls = {c1, c2}
    Kinds = {"write", "append", "clear"}
    Flush = flush
    WriteBehind = TRUE
    Subscribed = FALSE
    RetryQueued = TRUE
    Interleave = FALSE
    AppendSeam = TRUE
    UniqueEtags = TRUE
    LostAcks = TRUE
    OneHost = FALSE
    MaxFailures = 1
    MaxStops = 1
PROPERTIES
    DeferredResolves
CHECK_DEADLOCK FALSE
