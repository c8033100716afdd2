SPECIFICATION FairSpec
CONSTANTS
    Acts = {a1, a2}
    Calls = {c1, c2}
    Kinds = {"write", "save", "eventual", "append", "clear"}
    Flush = flush
    WriteBehind = FALSE
    Subscribed = FALSE
    RetryQueued = TRUE
    Interleave = FALSE
    AppendSeam = TRUE
    UniqueEtags = TRUE
    LostAcks = TRUE
    OneHost = FALSE
    MaxFailures = 1
    MaxStops = 1
INVARIANTS
    StorageInv
PROPERTIES
    EveryCallSettles
CHECK_DEADLOCK FALSE
