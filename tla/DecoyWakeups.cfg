\* Strict policies and policies that spare existing pods come, change and go, while
\* two faults hit a container, a command or the controller.
SPECIFICATION FairSpec
CONSTANTS
    p1 = p1  p2 = p2  d1 = d1  d2 = d2  c1 = c1  c2 = c2
    ta = ta  tb = tb  tc = tc  x = x  y = y  None = None
    PathOf <- MCPathOf
    Policies = {p1}
    Traps = {ta, tb, tc}
    Pods = {d1}
    Containers = {c1}
    Paths = {x, y}
    ValidTraps = {ta, tb}
    Specs <- Guarding
    Env = {"flap", "restart", "execfail", "halfexec", "crash"}
    MaxEdits = 4
    MaxFaults = 2
INVARIANTS
    FinalizerGuards
    NothingForgotten
PROPERTIES
    Settles
    DeletionCompletes
\* Budgets run out and every policy may end up as its user wants it.
CHECK_DEADLOCK FALSE
