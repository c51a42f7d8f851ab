\* A pod disappears while its decoys are cleaned up.
SPECIFICATION FairSpec
CONSTANTS
    p1 = p1  p2 = p2  d1 = d1  d2 = d2  c1 = c1  c2 = c2
    ta = ta  tb = tb  tc = tc  x = x  y = y  None = None
    PathOf <- MCPathOf
    Policies = {p1}
    Traps = {ta}
    Pods = {d1}
    Containers = {c1}
    Paths = {x}
    ValidTraps = {ta}
    Specs <- Single
    Env = {"poddelete"}
    MaxEdits = 4
    MaxFaults = 0
PROPERTIES
    DeletionCompletes
\* Budgets run out and every policy may end up as its user wants it.
CHECK_DEADLOCK FALSE
