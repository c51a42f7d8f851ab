\* Two policies on one pod, caches that lag, a label that comes and goes, restarts
\* of the controller.
SPECIFICATION Spec
CONSTANTS
    p1 = p1  p2 = p2  d1 = d1  d2 = d2  c1 = c1  c2 = c2
    ta = ta  tb = tb  tc = tc  x = x  y = y  None = None
    PathOf <- MCPathOf
    Policies = {p1, p2}
    Traps = {ta}
    Pods = {d1}
    Containers = {c1}
    Paths = {x}
    ValidTraps = {ta}
    Specs <- Single
    Env = {"lag", "crash", "relabel"}
    MaxEdits = 3
    MaxFaults = 1
PROPERTIES
    NoLostUpdate
    UserWins
\* Budgets run out and every policy may end up as its user wants it.
CHECK_DEADLOCK FALSE
