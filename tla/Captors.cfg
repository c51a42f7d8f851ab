\* Two policies change, go and come again while writes fail and the controller
\* restarts; only a policy with Kive captors uses its name again.
SPECIFICATION FairSpec
CONSTANTS
    p1 = p1  p2 = p2  None = None
    ta = ta  tb = tb  ka = ka  kb = kb  kc = kc  un = un  uk = uk  no = no
    na = na  nb = nb  nk = nk  nl = nl  nt = nt  nm = nm
    NameOf <- MCNameOf
    KindOf <- MCKindOf
    Policies = {p1, p2}
    Traps = {ta, tb, ka, kb, kc, un, uk, no}
    Names = {na, nb, nk, nl, nt, nm}
    ValidTraps = {ta, ka, kb, kc, un, uk, no}
    NoSelector = {un, uk}
    SpecsOf <- MCSpecsOf
    Reused = {p2}
    Env = {"lag", "apierror", "notfound", "crash"}
    MaxEdits = 3
    MaxFaults = 1
INVARIANTS
    TypeOK
    EveryTrapIsWatched
    NoStrayCaptor
PROPERTIES
    MadeForTheLiving
    TakenOnlyByMistake
    Settles
\* Budgets run out and every policy may end up as its user wants it.
CHECK_DEADLOCK FALSE
