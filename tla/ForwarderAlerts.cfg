\* A burst of accesses; tasks read logs at the same time, sinks fail, the forwarder
\* may restart.
SPECIFICATION FairSpec
CONSTANTS
    a1 = a1  a2 = a2  a3 = a3  n1 = n1  n2 = n2  s1 = s1  s2 = s2
    None = None
    NodeOf <- MCNodeOf
    Accesses = {a1, a2}
    Copies = {1, 2}
    Nodes = {n1}
    Own = {}
    Excluded = {}
    Sinks = {s1, s2}
    Env = {"overlap", "sinkerror", "restart"}
    Debounce = 1
    Window = 6
    MaxTime = 2
    MaxFaults = 2
INVARIANTS
    CachedIsProcessed
PROPERTIES
    EveryAccessAlerts
\* In the end there are no accesses and no tasks left.
CHECK_DEADLOCK FALSE
