------------------------ MODULE MCCaptorDeployment ------------------------
(* Instances of CaptorDeployment for TLC.                                  *)
EXTENDS CaptorProperties, TLC

CONSTANTS p1, p2, ta, tb, ka, kb, kc, un, uk, no, na, nb, nk, nl, nt, nm

\* ta and tb are watched by Tetragon; ka and kb are two contents of one file,
\* watched by the same Kive policy; kc is another file.  un and uk match by
\* namespaces only, and no has the captor strategy "none".
MCNameOf == (ta :> na) @@ (tb :> nb) @@ (ka :> nk) @@ (kb :> nk) @@ (kc :> nl)
            @@ (un :> nt) @@ (uk :> nm) @@ (no :> None)
MCKindOf == [n \in Names |-> IF n \in {nk, nl, nm} THEN "kive" ELSE "tetragon"]

Wish(ts, strict) == [traps |-> ts, strict |-> strict]

\* p1 asks for Tetragon and Kive; with tb, which is invalid, it is blocked.
\* p2 asks for Kive, or for captors that cannot be made.
MCSpecsOf ==
    [p \in Policies |-> IF p = p1
        THEN {Wish({ta, ka}, FALSE), Wish({tb, kb}, TRUE)}
        ELSE {Wish({kc}, FALSE), Wish({un, uk, no}, FALSE)}]

\* One trap that matches by namespaces, or by labels.
ByNamespace == [p \in Policies |-> {Wish({un}, FALSE), Wish({ta}, FALSE)}]
=============================================================================
