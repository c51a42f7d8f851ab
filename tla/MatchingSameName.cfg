\* A name that two namespaces use.
SPECIFICATION Spec
CONSTANTS
    o1 = o1  o2 = o2  na = na  nb = nb  x = x  y = y  l1 = l1  l2 = l2
    c1 = c1  c2 = c2  all = all  exact = exact  other = other  pattern = pattern
    None = None
    Objects = {o1, o2}
    Names = {x, y}
    Namespaces = {na, nb}
    Labels = {l1, l2}
    Containers = {c1, c2}
    NameOf <- SameName
    NamespaceOf <- MCNamespaceOf
    Selectors = {all, exact, other, pattern}
    SelectsOf <- MCSelectsOf
    Wildcards = {all}
    Patterns = {pattern}
    Filters <- MCFilters
    MaxFilters = 1
INVARIANTS
    OnlyWhereItMatches
\* The call returns.
CHECK_DEADLOCK FALSE
