SPECIFICATION FairSpec
CONSTANTS
    Hosts = {h1, h2}
    NoHost = none
    Calls = {c1}
    Retries = 3
    Http = FALSE
    NestedErrors = FALSE
    MaxFaults = 2
INVARIANTS
    AtMostOnce
    RefusedNeverRan
    RoutesConverge
PROPERTIES
    EveryCallEnds
CHECK_DEADLOCK FALSE
