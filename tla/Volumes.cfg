\* A policy rotates its decoys in two Deployments.
SPECIFICATION FairSpec
CONSTANTS
    p1 = p1  d1 = d1  d2 = d2  c1 = c1  c2 = c2  None = None
    ta = ta  tb = tb  x1 = x1  sa = sa  sb = sb
    PathOf <- MCPathOf
    SecretOf <- MCSecretOf
    SelectedBy <- MCSelectedBy
    Policies = {p1}
    Deps = {d1, d2}
    Containers = {c1, c2}
    Traps = {ta, tb}
    Paths = {x1}
    Secrets = {sa, sb}
    MatchedBy <- Everywhere
    Late = {d2}
    PlanOf <- Rotation
    Env = {"lag", "edit", "status", "apierror", "secreterror", "crash"}
    MaxFaults = 1
INVARIANTS
    TypeOK
    RecordedIsMounted
    MountedIsRecorded
    VolumesAreBacked
PROPERTIES
    EditsSurvive
    DeletionCompletes
    Settles
\* Budgets run out and every policy may end up as its user wants it.
CHECK_DEADLOCK FALSE
