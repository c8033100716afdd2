SPECIFICATION Spec
CONSTANTS
    Acts = {a1, a2}
    Calls = {c1, c2, c3}
    Kinds = {"save", "eventual", "append", "clear"}
    Flush = flush
    WriteBehind = FALSE
    Subscribed = FALSE
    RetryQueued = FALSE
    Interleave = TRUE
    AppendSeam = TRUE
    UniqueEtags = TRUE
    LostAcks = FALSE
    OneHost = FALSE
    MaxFailures = 0
    MaxStops = 0
SYMMETRY Symmetry
INVARIANTS
    KeptOnce
PROPERTIES
    FaultedNeverWrites
CHECK_DEADLOCK FALSE
