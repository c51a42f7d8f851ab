\* A trap whose filters match by namespaces only.
SPECIFICATION FairSpec
CONSTANTS
    p1 = p1  p2 = p2  None = None
    ta = ta  tb = tb  ka = ka  kb = kb  kc = kc  un = un  uk = uk  no = no
    na = na  nb = nb  nk = nk  nl = nl  nt = nt  nm = nm
    NameOf <- MCNameOf
    KindOf <- MCKindOf
    Policies = {p1}
    Traps = {ta, tb, ka, kb, kc, un, uk, no}
    Names = {na, nb, nk, nl, nt, nm}
    ValidTraps = {ta, ka, kb, kc, un, uk, no}
    NoSelector = {un, uk}
    SpecsOf <- ByNamespace
    Reused = {}
    Env = {}
    MaxEdits = 2
    MaxFaults = 0
PROPERTIES
    ValidTrapsGetWatched
\* Budgets run out and every policy may end up as its user wants it.
CHECK_DEADLOCK FALSE
