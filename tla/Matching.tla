------------------------------ MODULE Matching ------------------------------
(***************************************************************************)
(* Which containers get a trap (matching.go), and which of them its        *)
(* captor watches (generateTetragonTracingPolicy and the container filter  *)
(* of the alert forwarder): GetDeployableObjectsWithContainers runs once   *)
(* on a cluster and a trap that are chosen in the beginning.  The cluster  *)
(* stays as it is during a call.                                           *)
(*                                                                         *)
(* An object is a pod (strategy containerExec) or a Deployment             *)
(* (volumeMount).  Labels have keys of their own.  A container selector is *)
(* a value that SelectsOf maps to the container names it matches.          *)
(***************************************************************************)
EXTENDS Naturals, Sequences

CONSTANTS
    Objects,        \* the pods, or the Deployments, of the cluster
    Names, Namespaces, Labels, Containers,
    NameOf, NamespaceOf,
    Selectors,      \* container selectors
    SelectsOf,      \* the container names that a selector matches
    Wildcards,      \* selectors that match every name: "", regex:.*, glob:*
    Patterns,       \* other regex: and glob: selectors
    Filters,        \* resource filters that users write
    MaxFilters,     \* bound on the filters of a trap
    None

ASSUME BoundAssumption == MaxFilters \in Nat

ASSUME SelectorAssumption ==
    /\ Wildcards \cap Patterns = {} /\ Wildcards \cup Patterns \subseteq Selectors
    /\ SelectsOf \in [Selectors -> SUBSET Containers]
    /\ \A s \in Wildcards : SelectsOf[s] = Containers

ASSUME NameAssumption ==
    /\ NameOf \in [Objects -> Names] /\ NamespaceOf \in [Objects -> Namespaces]
    /\ \A o, u \in Objects :
          NameOf[o] = NameOf[u] /\ NamespaceOf[o] = NamespaceOf[u] => o = u

\* Selector is never nil; one without labels is empty.
ResourceFilter == [namespaces : SUBSET Namespaces, labels : SUBSET Labels, containers : Selectors]

\* IsValid lets only filters pass that have a namespace or a label.
ASSUME FilterAssumption ==
    /\ Filters \subseteq ResourceFilter
    /\ \A f \in Filters : f.namespaces # {} \/ f.labels # {}

VARIABLES
    cluster,    \* the objects
    trap,       \* the trap and what its policy says about existing objects
    matched,    \* matchingObjectsWithContainers; an object without containers is not in it
    next,       \* the next of the filters
    result      \* the MatchingResult, or None

vars == <<cluster, trap, matched, next, result>>

-----------------------------------------------------------------------------

Strategies == {"containerExec", "volumeMount"}

\* What users write under any.
FilterLists == UNION {[1..n -> Filters] : n \in 0..MaxFilters}

\* What matters of an object: whether it has a deletion timestamp, whether it
\* was created after the policy, whether the pod is running or the Deployment
\* available, and which containers are running and ready.  What a call does not
\* ask for is left out: readiness of containers of a Deployment, the age of
\* objects when existing ones are not spared, anything of an object that goes.
Health(t) ==
    {h \in [deleting : BOOLEAN, young : BOOLEAN, up : BOOLEAN, ready : SUBSET Containers] :
       /\ ~h.up => h.ready = {}
       /\ h.up /\ t.strategy = "volumeMount" => h.ready = Containers
       /\ ~h.young => t.spare /\ ~h.deleting
       /\ h.deleting \/ ~h.young => h.up /\ h.ready = Containers}

Init ==
    /\ trap \in [strategy : Strategies, any : FilterLists, spare : BOOLEAN]
    /\ cluster \in [Objects -> [labels : SUBSET Labels, health : Health(trap)]]
    /\ matched = [o \in Objects |-> {}]
    /\ next = 1
    /\ result = None

-----------------------------------------------------------------------------
(* Matching.                                                               *)

\* A list of objects is cut down to the first object of each name; the order
\* of a cached list is arbitrary, and so is the order of the namespaces.
FirstOfEachName(S) ==
    {R \in SUBSET S : /\ \A o, u \in R : NameOf[o] = NameOf[u] => o = u
                      /\ \A o \in S : \E u \in R : NameOf[u] = NameOf[o]}

ListByNamespace(f) == FirstOfEachName({o \in Objects : NamespaceOf[o] \in f.namespaces})

ListByLabels(f) ==
    FirstOfEachName({o \in Objects : f.labels # {} /\ f.labels \subseteq cluster[o].labels})

\* Mutant: one of the two is enough.
JoinByNameOr(f, byNamespace, byLabels) == byNamespace \cup byLabels

\* Both lists are joined by name.
JoinByName(f, byNamespace, byLabels) ==
    CASE f.namespaces = {} -> byLabels
      [] f.labels = {}     -> byNamespace
      [] OTHER -> {o \in byNamespace : \E u \in byLabels : NameOf[u] = NameOf[o]}

InMap(o) == matched[o] # {}

\* The entry of the map that an object is added to: an earlier one of its name,
\* if there is one.
EntryFor(o) ==
    IF \E u \in Objects : InMap(u) /\ NameOf[u] = NameOf[o]
      THEN CHOOSE u \in Objects : InMap(u) /\ NameOf[u] = NameOf[o]
      ELSE o

\* One round of the loop over the filters.
MatchFilter ==
    /\ next <= Len(trap.any)
    /\ LET f == trap.any[next] IN
       \E byNamespace \in ListByNamespace(f), byLabels \in ListByLabels(f) :
          LET found == JoinByName(f, byNamespace, byLabels) IN
          matched' = [o \in Objects |->
             IF \E u \in found : EntryFor(u) = o
               THEN matched[o] \cup SelectsOf[f.containers] ELSE matched[o]]
    /\ next' = next + 1
    /\ UNCHANGED <<cluster, trap, result>>

\* Objects that go, and those from before the policy if it spares them, do not
\* count as matched.
Counts(o) == ~cluster[o].health.deleting /\ (trap.spare => cluster[o].health.young)

Remaining == {o \in Objects : InMap(o) /\ Counts(o)}

\* Where a trap can be deployed in an object now.
Deployable(o) ==
    IF ~cluster[o].health.up THEN {}
    ELSE IF trap.strategy = "containerExec" THEN matched[o] \cap cluster[o].health.ready
    ELSE matched[o]

\* Mutant: the phase of the pod is enough.
IsReadyIfUp(o) == cluster[o].health.up

\* ContainersReady of a pod is about all its containers, selected or not.
IsReady(o) ==
    /\ cluster[o].health.up
    /\ trap.strategy = "containerExec" => cluster[o].health.ready = Containers

DeployableObjects == {e \in Remaining \X Containers : e[2] \in Deployable(e[1])}

MatchingResult ==
    [deployable |-> DeployableObjects,
     matched    |-> Remaining # {},
     allReady   |-> DeployableObjects # {} /\ \A o \in Remaining : IsReady(o)]

FilterReady ==
    /\ next = Len(trap.any) + 1
    /\ result' = MatchingResult
    /\ next' = next + 1
    /\ UNCHANGED <<cluster, trap, matched>>

Next == MatchFilter \/ FilterReady

Spec == Init /\ [][Next]_vars

-----------------------------------------------------------------------------
(* Watching.                                                               *)

TrapFilters == {trap.any[i] : i \in 1..Len(trap.any)}
TrapSelectors == {f.containers : f \in TrapFilters}

\* The labels of all filters go into one PodSelector.
PodSelector == UNION {f.labels : f \in TrapFilters}

SelectsAll == TrapSelectors \cap Wildcards # {}
NeedsClientFiltering == ~SelectsAll /\ TrapSelectors \cap Patterns # {}

\* The container names that Tetragon itself lets pass.
ContainerSelector ==
    IF SelectsAll \/ NeedsClientFiltering THEN Containers
    ELSE UNION {SelectsOf[s] : s \in TrapSelectors}

\* Mutant: only what Tetragon cannot do itself is left to the forwarder.
AnnotatedPatterns == IF NeedsClientFiltering THEN TrapSelectors \cap Patterns ELSE {}

\* The selectors in the annotation for the alert forwarder, if it has one.
AnnotatedSelectors == IF NeedsClientFiltering THEN TrapSelectors ELSE {}

\* Mutant: the annotation is not read.
PassesForwarderAlways(c) == TRUE

\* container_matches_selectors, asked if there is an annotation.
PassesForwarder(c) ==
    AnnotatedSelectors = {} \/ \E s \in AnnotatedSelectors : c \in SelectsOf[s]

\* An access in container c of pod o gives an alert.
GivesAlert(o, c) ==
    PodSelector \subseteq cluster[o].labels /\ c \in ContainerSelector /\ PassesForwarder(c)

-----------------------------------------------------------------------------
(* Properties.                                                             *)

\* What the documentation says: a filter is a logical AND of namespaces and
\* labels, a trap a logical OR of filters.
Matches(f, o) ==
    /\ f.namespaces # {} => NamespaceOf[o] \in f.namespaces
    /\ f.labels \subseteq cluster[o].labels

Wanted(o, c) == Counts(o) /\ \E f \in TrapFilters : Matches(f, o) /\ c \in SelectsOf[f.containers]

CanTake(o, c) ==
    /\ cluster[o].health.up
    /\ trap.strategy = "containerExec" => c \in cluster[o].health.ready

NamesAreUnique == \A o, u \in Objects : NameOf[o] = NameOf[u] => o = u

\* Every container that a filter selects, and that is ready, gets the trap:
\* joining and merging by name loses nothing and mixes up nothing as long as
\* names do not repeat in other namespaces (getMatchingObjectsWithContainers).
SelectsExactly ==
    result # None /\ NamesAreUnique =>
       \A o \in Objects, c \in Containers :
          <<o, c>> \in result.deployable <=> Wanted(o, c) /\ CanTake(o, c)

\* Only resources (and containers) that match are returned, whatever their
\* names are ("The trap is only deployed in pods with labels that match the
\* selector").
OnlyWhereItMatches ==
    result # None =>
       \A o \in Objects, c \in Containers : <<o, c>> \in result.deployable => Wanted(o, c)

\* If a container that is wanted cannot take the trap yet, the result says that
\* there is more to come; Reconcile comes back for nothing else
\* (AllDeployableObjectsWereReady, with its several ways to be false).
SaysThatMoreWillCome ==
    result # None /\ NamesAreUnique
    /\ (\E o \in Objects, c \in Containers : Wanted(o, c) /\ <<o, c>> \notin result.deployable)
       => result.matched /\ ~result.allReady

\* A decoy in a pod is watched: neither Tetragon nor the forwarder filters out an
\* access to it, for every mix of names, patterns and wildcards, as long as all
\* filters have the same labels (the three cases of
\* generateTetragonTracingPolicy, which leave out what does not fit into one
\* tracing policy).
SameLabels == \A f, g \in TrapFilters : f.labels = g.labels

DecoysAreWatched ==
    result # None /\ NamesAreUnique /\ SameLabels /\ trap.strategy = "containerExec"
       => \A o \in Objects, c \in Containers :
             <<o, c>> \in result.deployable => GivesAlert(o, c)

\* No alert comes from a container that no filter of the trap selects, although
\* Tetragon watches all containers when a selector is a pattern
\* (container_matches_selectors makes up for it).
OnlySelectedAlert ==
    \A o \in Objects, c \in Containers :
       GivesAlert(o, c) => \E s \in TrapSelectors : c \in SelectsOf[s]
=============================================================================
