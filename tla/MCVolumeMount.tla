--------------------------- MODULE MCVolumeMount ---------------------------
(* Instances of VolumeMount for TLC.                                       *)
EXTENDS VolumeProperties, TLC

CONSTANTS p1, d1, d2, c1, c2, ta, tb, x1, sa, sb

\* ta and tb are two contents of one file; tb goes into one container only.
MCPathOf == [t \in Traps |-> x1]
MCSecretOf == (ta :> sa) @@ (tb :> sb)
MCSelectedBy == (ta :> {c1, c2}) @@ (tb :> {c1})

Everywhere == [p \in Policies |-> Deps]

\* The content of the file is rotated.
Rotation == [p \in Policies |-> <<{ta}, {tb}>>]
=============================================================================
