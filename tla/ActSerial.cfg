SPECIFICATION Spec
CONSTANTS
    Acts = {a1, a2}
    Calls = {c1, c2, c3}
    Kinds = {"save", "eventual", "append", "clear"}
    Flush = flush
    WriteBehind = FALSE
    Subscribed = TRUE
    RetryQueued = TRUE
    Interleave = FALSE
    AppendSeam = TRUE
    UniqueEtags = TRUE
    LostAcks = TRUE
    OneHost = FALSE
    MaxFailures = 1
    MaxStops = 1
SYMMETRY Symmetry
INVARIANTS
    KeptOnce
    LosingTurnDiscarded
PROPERTIES
    KeepsPromise
    NoLostUpdate
    NoBlankResurrection
CHECK_DEADLOCK FALSE
