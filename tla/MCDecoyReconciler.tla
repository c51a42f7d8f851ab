------------------------- MODULE MCDecoyReconciler -------------------------
(* Instances of DecoyReconciler for TLC.                                   *)
EXTENDS DecoyProperties, TLC

CONSTANTS p1, p2, d1, d2, c1, c2, ta, tb, tc, x, y

\* ta and tb are two versions of the decoy at path x, tc is at path y.
MCPathOf == [t \in Traps |-> IF t = tc THEN y ELSE x]

Wish(ts, cs, strict, mutate) ==
    [traps |-> ts, sel |-> [t \in Traps |-> cs], strict |-> strict, mutate |-> mutate]

\* The decoy at path x is rotated, one at path y comes and goes.
Growing == {Wish({ta}, Containers, FALSE, TRUE), Wish({tb, tc}, Containers, FALSE, TRUE)}

\* A policy with an invalid trap tc, taken strictly or not, and one that spares
\* the pods that were there before it.
Guarding == {Wish({ta, tc}, Containers, TRUE, TRUE), Wish({tb, tc}, Containers, FALSE, TRUE),
             Wish({tb}, Containers, FALSE, FALSE)}

\* Only one decoy.
Single == {Wish({ta}, Containers, FALSE, TRUE)}
=============================================================================
