-------------------------- MODULE MCAlertForwarder --------------------------
(* Instances of AlertForwarder for TLC.                                    *)
EXTENDS AlertForwarder

CONSTANTS a1, a2, a3, n1, n2, s1, s2

\* The first two accesses are logged on one node, the third on another.
MCNodeOf == [a \in Accesses |-> IF a = a3 /\ n2 \in Nodes THEN n2 ELSE n1]
=============================================================================
