----------------------------- MODULE MCMatching -----------------------------
(* Instances of Matching for TLC.                                          *)
EXTENDS Matching, TLC

CONSTANTS o1, o2, na, nb, x, y, l1, l2, c1, c2, all, exact, other, pattern

MCNamespaceOf == (o1 :> na) @@ (o2 :> nb)

\* Two namespaces may use the same name.
OwnNames == (o1 :> x) @@ (o2 :> y)
SameName == [o \in Objects |-> x]

\* Two exact names, a pattern that matches one container, and a wildcard.
MCSelectsOf == (all :> {c1, c2}) @@ (exact :> {c1}) @@ (other :> {c2}) @@ (pattern :> {c2})

\* Namespaces, labels or both.
MCFilters ==
    {f \in [namespaces : {{}, {na}, {na, nb}}, labels : {{}, {l1}, {l2}}, containers : Selectors] :
       /\ f.namespaces # {} \/ f.labels # {}
       /\ f.namespaces = {na, nb} => f.labels = {}}
=============================================================================
