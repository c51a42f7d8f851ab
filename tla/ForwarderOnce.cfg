\* Two nodes, slow threads, sinks and API calls that fail; tasks read logs one after
\* the other.
SPECIFICATION Spec
CONSTANTS
    a1 = a1  a2 = a2  a3 = a3  n1 = n1  n2 = n2  s1 = s1  s2 = s2
    None = None
    NodeOf <- MCNodeOf
    Accesses = {a2, a3}
    Copies = {1, 2}
    Nodes = {n1, n2}
    Own = {}
    Excluded = {a3}
    Sinks = {s1}
    Env = {"slow", "apierror", "sinkerror"}
    Debounce = 1
    Window = 6
    MaxTime = 3
    MaxFaults = 2
INVARIANTS
    TypeOK
    NoDuplicates
    OneTaskSurvives
\* In the end there are no accesses and no tasks left.
CHECK_DEADLOCK FALSE
