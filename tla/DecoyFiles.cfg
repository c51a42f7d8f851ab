\* Two containers, two paths, commands that fail, pods that vanish or are labelled
\* late.
SPECIFICATION Spec
CONSTANTS
    p1 = p1  p2 = p2  d1 = d1  d2 = d2  c1 = c1  c2 = c2
    ta = ta  tb = tb  tc = tc  x = x  y = y  None = None
    PathOf <- MCPathOf
    Policies = {p1}
    Traps = {ta, tb, tc}
    Pods = {d1}
    Containers = {c1, c2}
    Paths = {x, y}
    ValidTraps = {ta, tb, tc}
    Specs <- Growing
    Env = {"poddelete", "execfail", "relabel", "canonical"}
    MaxEdits = 4
    MaxFaults = 2
INVARIANTS
    TypeOK
    FinalizerGuards
    OnePerPath
    RecordedIsThere
    ThereIsRecorded
    NothingLeftBehind
PROPERTIES
    KeepsTheLedger
\* Budgets run out and every policy may end up as its user wants it.
CHECK_DEADLOCK FALSE
