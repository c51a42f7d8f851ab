---------------------------- MODULE Annotations ----------------------------
(***************************************************************************)
(* The change annotation "koney/changes" that the controller keeps on      *)
(* every pod it puts decoys into.  In the code it is a JSON list with one  *)
(* entry per deception policy, each with a list of traps, each with a list *)
(* of containers.  Here it is a function: ann[p][t] is the set of          *)
(* containers in which the annotation says that policy p has deployed trap *)
(* t, the empty set when the annotation has no such entry.                 *)
(***************************************************************************)
CONSTANTS
    Policies,       \* names of DeceptionPolicies
    Traps,          \* traps, told apart as AreTheSameTrap tells them apart
    Containers      \* names of containers

Annotation == [Policies -> [Traps -> SUBSET Containers]]

\* A resource without the annotation.
NoAnnotation == [p \in Policies |-> [t \in Traps |-> {}]]

\* The annotation has an entry for policy p.
IsAnnotated(ann, p) == \E t \in Traps : ann[p][t] # {}

\* The containers of the entry are REPLACED by cs, not extended by them.
AddTrap(ann, p, t, cs) == [ann EXCEPT ![p][t] = cs]

\* Only an entry of the same policy is touched; if the policy has one but it
\* does not list the trap, the trap is added to it.
UpdateContainers(ann, p, t, cs) ==
    IF IsAnnotated(ann, p) THEN [ann EXCEPT ![p][t] = cs] ELSE ann

\* The trap is removed only if its list of containers is exactly cs.
RemoveTrap(ann, p, t, cs) ==
    IF ann[p][t] = cs THEN [ann EXCEPT ![p][t] = {}] ELSE ann
=============================================================================
