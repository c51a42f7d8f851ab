--------------------------- MODULE AnnotationList ---------------------------
(***************************************************************************)
(* The list behind the annotation of one resource, as the functions of the *)
(* annotations package read and write it: a list of changes, one for each  *)
(* policy, each with a list of traps, each with a list of containers.      *)
(*                                                                         *)
(* DeployDecoy and RemoveDecoy call these functions.  RemoveDecoy is given *)
(* a TrapAnnotation that was read earlier, from a cache that may lag, so   *)
(* that the list may have changed since.                                   *)
(***************************************************************************)
EXTENDS Annotations, SequencesExt

CONSTANTS
    Orders,         \* the orders in which containers are recorded: in a pod that of its
                    \*   ContainerStatuses, in a Deployment that of the filters
    None

ASSUME OrdersAssumption == \A o \in Orders : o \in Seq(Containers) /\ IsInjective(o)

VARIABLES
    changes,        \* the list, None without the annotation
    seen            \* the TrapAnnotation that RemoveDecoy was given, or None

vars == <<changes, seen>>

\* The loops that copy the elements of a list which they want to keep.
Keep(s, wanted) ==
    LET kept[i \in 0..Len(s)] ==
            IF i = 0 THEN <<>>
            ELSE IF s[i] \in wanted THEN Append(kept[i - 1], s[i]) ELSE kept[i - 1]
    IN kept[Len(s)]

\* Containers are selected filter by filter, each of them once; what is left out
\* later leaves the others in their order.
ContainerLists == {Keep(o, cs) : o \in Orders, cs \in SUBSET Containers} \ {<<>>}

TrapAnnotation == [trap: Traps, containers: ContainerLists]
ChangeAnnotation == [policy: Policies, traps: Seq(TrapAnnotation)]
Seen == [policy: Policies, trap: Traps, containers: ContainerLists]

ASSUME NoneAssumption == None \notin Seq(ChangeAnnotation)

-----------------------------------------------------------------------------
(* The operations.                                                         *)

Parsed(list) == IF list = None THEN <<>> ELSE list

\* Mutant: the loop does not notice that the trap is in the list already.
PutAgain(traps, t, cs) == Append(traps, [trap |-> t, containers |-> cs])

\* The first entry of the trap gets the new containers; there may be none.
Put(traps, t, cs) ==
    LET i == SelectInSeq(traps, LAMBDA e : e.trap = t) IN
    IF i = 0 THEN Append(traps, [trap |-> t, containers |-> cs])
             ELSE [traps EXCEPT ![i].containers = cs]

PutInChanges(list, p, t, cs) ==
    [i \in DOMAIN list |-> IF list[i].policy = p
                           THEN [list[i] EXCEPT !.traps = Put(@, t, cs)] ELSE list[i]]

AddTrapToAnnotations(list, p, t, cs) ==
    LET old == Parsed(list) IN
    IF \E i \in DOMAIN old : old[i].policy = p
    THEN PutInChanges(old, p, t, cs)
    ELSE Append(old, [policy |-> p, traps |-> <<[trap |-> t, containers |-> cs]>>])

\* A resource without the annotation gets an empty list.
UpdateContainersInAnnotations(list, p, t, cs) == PutInChanges(Parsed(list), p, t, cs)

\* Mutant: the trap is removed whatever its containers.
WithoutTrap(traps, t, cs) == Keep(traps, {e \in ToSet(traps) : e.trap # t})

\* Only an entry with exactly these containers, in this order, is removed.
Without(traps, t, cs) ==
    Keep(traps, {e \in ToSet(traps) : ~(e.trap = t /\ e.containers = cs)})

\* Changes without traps are dropped, the annotation with the last of them.
Written(list) ==
    LET left == Keep(list, {change \in ToSet(list) : change.traps # <<>>})
    IN  IF left = <<>> THEN None ELSE left

\* Mutant: the trap is removed from the changes of all policies.
RemoveTrapFromAll(list, p, t, cs) ==
    LET old == Parsed(list) IN
    Written([i \in DOMAIN old |-> [old[i] EXCEPT !.traps = Without(@, t, cs)]])

RemoveTrapAnnotations(list, p, t, cs) ==
    LET old == Parsed(list) IN
    Written([i \in DOMAIN old |-> IF old[i].policy = p
                                  THEN [old[i] EXCEPT !.traps = Without(@, t, cs)]
                                  ELSE old[i]])

\* The traps of the first change of policy p.
GetAnnotationChange(list, p) ==
    LET i == SelectInSeq(Parsed(list), LAMBDA change : change.policy = p)
    IN IF i = 0 THEN <<>> ELSE list[i].traps

-----------------------------------------------------------------------------
(* Their callers.                                                          *)

Init == changes = None /\ seen = None

DeployDecoy(p, t, cs) ==
    /\ changes' = AddTrapToAnnotations(changes, p, t, cs)
    /\ UNCHANGED seen

\* cleanupDeceptionPolicy and cleanupRemovedDecoys hand a trap of the annotation
\* to RemoveDecoy, which runs commands before it writes.
StartRemoveDecoy(p, i) ==
    /\ seen = None
    /\ i \in DOMAIN GetAnnotationChange(changes, p)
    /\ LET e == GetAnnotationChange(changes, p)[i] IN
       seen' = [policy |-> p, trap |-> e.trap, containers |-> e.containers]
    /\ UNCHANGED changes

\* failed: the containers in which the file could not be removed.
FinishRemoveDecoy(failed) ==
    /\ seen # None /\ failed \subseteq ToSet(seen.containers)
    /\ changes' = IF failed = {}
                  THEN RemoveTrapAnnotations(changes, seen.policy, seen.trap, seen.containers)
                  ELSE UpdateContainersInAnnotations(changes, seen.policy, seen.trap,
                           Keep(seen.containers, failed))
    /\ seen' = None

Next ==
    \/ \E p \in Policies, t \in Traps, cs \in ContainerLists : DeployDecoy(p, t, cs)
    \/ \E p \in Policies, i \in 1..Cardinality(Traps) : StartRemoveDecoy(p, i)
    \/ \E failed \in SUBSET Containers : FinishRemoveDecoy(failed)

Spec == Init /\ [][Next]_vars

-----------------------------------------------------------------------------
(* Properties.                                                             *)

\* The list never has two changes of a policy, two entries of a trap or a
\* change without traps, which the functions that look for the first match
\* would overlook (AddTrapToAnnotations, GetAnnotationChange).
WellFormed ==
    LET list == Parsed(changes) IN
    /\ IsInjective([i \in DOMAIN list |-> list[i].policy])
    /\ \A i \in DOMAIN list :
          /\ list[i].traps # <<>>
          /\ \A j \in DOMAIN list[i].traps : list[i].traps[j] \in TrapAnnotation
          /\ IsInjective([j \in DOMAIN list[i].traps |-> list[i].traps[j].trap])
    /\ seen \in Seen \cup {None}

\* What the rest of the controller sees of a list.
AsFunction(list) ==
    [p \in Policies |-> [t \in Traps |->
        UNION {ToSet(e.containers) :
                 e \in {f \in ToSet(GetAnnotationChange(list, p)) : f.trap = t}}]]

\* The trap is recorded with these containers, but in another order.
Reordered(list, p, t, cs) ==
    \E e \in ToSet(GetAnnotationChange(list, p)) :
       e.trap = t /\ ToSet(e.containers) = ToSet(cs) /\ e.containers # cs

\* On every list that the controller can produce the three operations do what
\* the operators of module Annotations say, for any arguments, those of a
\* RemoveDecoy that started from an old copy included: but a trap is not removed
\* when its containers have been recorded in another order since (Equals of
\* TrapAnnotation, after the filters of the policy were reordered).
OperationsAgree ==
    \A p \in Policies, t \in Traps, cs \in ContainerLists :
       LET ann == AsFunction(changes) IN
       /\ AsFunction(AddTrapToAnnotations(changes, p, t, cs)) = AddTrap(ann, p, t, ToSet(cs))
       /\ AsFunction(UpdateContainersInAnnotations(changes, p, t, cs))
             = UpdateContainers(ann, p, t, ToSet(cs))
       /\ AsFunction(RemoveTrapAnnotations(changes, p, t, cs))
             = IF Reordered(changes, p, t, cs) THEN ann ELSE RemoveTrap(ann, p, t, ToSet(cs))

\* A step for one policy leaves the changes of all others as they are and in
\* their order: the annotation is shared by all policies (the loops that put
\* back the changes of other policies).
OthersOf(list, p) ==
    Keep(Parsed(list), {change \in ToSet(Parsed(list)) : change.policy # p})
OthersKept == [][\E p \in Policies : OthersOf(changes', p) = OthersOf(changes, p)]_vars
=============================================================================
