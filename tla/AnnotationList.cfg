\* Two policies, two traps and two containers, which are recorded in either order.
SPECIFICATION Spec
CONSTANTS
    c1 = c1  c2 = c2
    None = None
    Policies = {p1, p2}
    Traps = {ta, tb}
    Containers = {c1, c2}
    Orders <- MCOrders
INVARIANTS
    WellFormed
    OperationsAgree
PROPERTIES
    OthersKept
