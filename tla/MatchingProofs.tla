--------------------------- MODULE MatchingProofs ---------------------------
(***************************************************************************)
(* Matching is exact for every cluster and every list of filters, as long  *)
(* as names do not repeat across namespaces.                               *)
(***************************************************************************)
EXTENDS Matching, TLAPS

\* The filters that have been through the loop.
Done == {i \in 1..Len(trap.any) : i < next}

\* The map holds what the filters so far select.
MapSoFar ==
    \A o \in Objects, c \in Containers :
       c \in matched[o] <=> \E i \in Done : /\ Matches(trap.any[i], o)
                                            /\ c \in SelectsOf[trap.any[i].containers]

InputType ==
    /\ trap \in [strategy : Strategies, any : FilterLists, spare : BOOLEAN]
    /\ cluster \in [Objects -> [labels : SUBSET Labels, health : Health(trap)]]
    /\ matched \in [Objects -> SUBSET Containers]
    /\ next \in Nat \ {0}

ResultInv ==
    result # None => result = MatchingResult /\ next > Len(trap.any)

MatchInv == InputType /\ MapSoFar /\ ResultInv

-----------------------------------------------------------------------------

\* A list of filters is a sequence of them.
LEMMA ListsAreSequences ==
    ASSUME NEW any \in FilterLists
    PROVE  Len(any) \in Nat /\ any \in [1..Len(any) -> Filters]
PROOF
<1>1. PICK n \in 0..MaxFilters : any \in [1..n -> Filters]
  BY DEF FilterLists
<1>2. n \in Nat /\ any \in Seq(Filters)
  BY <1>1, BoundAssumption
<1>3. Len(any) = n
  BY <1>1, <1>2
<1> QED BY <1>1, <1>2, <1>3

\* Lists of objects with different names are not cut down.
LEMMA NothingIsCut ==
    ASSUME NamesAreUnique, NEW S \in SUBSET Objects, NEW R \in FirstOfEachName(S)
    PROVE  R = S
PROOF
<1>1. R \subseteq S
  BY DEF FirstOfEachName
<1>2. ASSUME NEW o \in S PROVE o \in R
  <2>1. PICK u \in R : NameOf[u] = NameOf[o]
    BY DEF FirstOfEachName
  <2> QED BY <1>1, <2>1 DEF NamesAreUnique
<1> QED BY <1>1, <1>2

\* Then both lists and their join say what a filter matches.
LEMMA JoinMatches ==
    ASSUME NamesAreUnique, NEW f \in Filters,
           NEW byNamespace \in ListByNamespace(f), NEW byLabels \in ListByLabels(f)
    PROVE  JoinByName(f, byNamespace, byLabels) = {o \in Objects : Matches(f, o)}
PROOF
<1>1. byNamespace = {o \in Objects : NamespaceOf[o] \in f.namespaces}
  BY NothingIsCut DEF ListByNamespace
<1>2. byLabels = {o \in Objects : f.labels # {} /\ f.labels \subseteq cluster[o].labels}
  BY NothingIsCut DEF ListByLabels
<1>3. CASE f.namespaces = {}
  <2>1. f.labels # {}
    BY <1>3, FilterAssumption
  <2> QED BY <1>2, <1>3, <2>1 DEF JoinByName, Matches
<1>4. CASE f.namespaces # {} /\ f.labels = {}
  BY <1>1, <1>4 DEF JoinByName, Matches
<1>5. CASE f.namespaces # {} /\ f.labels # {}
  <2>1. \A o \in byNamespace : (\E u \in byLabels : NameOf[u] = NameOf[o]) <=> o \in byLabels
    BY <1>1, <1>2 DEF NamesAreUnique
  <2>2. JoinByName(f, byNamespace, byLabels)
          = {o \in byNamespace : \E u \in byLabels : NameOf[u] = NameOf[o]}
    BY <1>5 DEF JoinByName
  <2> QED BY <1>1, <1>2, <1>5, <2>1, <2>2 DEF Matches
<1> QED BY <1>3, <1>4, <1>5

\* And every object is an entry of its own.
LEMMA OwnEntry ==
    ASSUME NamesAreUnique, NEW o \in Objects
    PROVE  EntryFor(o) = o
PROOF
<1>1. CASE \E u \in Objects : InMap(u) /\ NameOf[u] = NameOf[o]
  BY <1>1 DEF EntryFor, NamesAreUnique
<1>2. CASE ~\E u \in Objects : InMap(u) /\ NameOf[u] = NameOf[o]
  BY <1>2 DEF EntryFor
<1> QED BY <1>1, <1>2

-----------------------------------------------------------------------------

\* Nothing is matched at the start, which is what no filter selects.
LEMMA InitMatches == ASSUME Init PROVE MatchInv
PROOF
<1>1. InputType
  BY DEF Init, InputType
<1>2. Done = {}
  BY DEF Init, Done
<1>3. MapSoFar
  BY <1>2 DEF Init, MapSoFar
<1> QED BY <1>1, <1>3 DEF MatchInv, ResultInv, Init

\* One round of the loop adds what its filter selects.
LEMMA RoundMatches ==
    ASSUME NamesAreUnique, MatchInv, MatchFilter
    PROVE  MatchInv'
PROOF
<1> DEFINE f == trap.any[next]
<1>1. Len(trap.any) \in Nat /\ next \in 1..Len(trap.any) /\ trap.any \in [1..Len(trap.any) -> Filters]
  BY ListsAreSequences DEF MatchInv, InputType, MatchFilter
<1>2. f \in Filters /\ f.containers \in Selectors /\ SelectsOf[f.containers] \subseteq Containers
  BY <1>1, FilterAssumption, SelectorAssumption DEF ResourceFilter
<1>3. UNCHANGED <<cluster, trap, result>> /\ next' = next + 1
  BY DEF MatchFilter
<1>4. matched' = [o \in Objects |-> IF Matches(f, o)
                                      THEN matched[o] \cup SelectsOf[f.containers] ELSE matched[o]]
  <2>1. PICK byNamespace \in ListByNamespace(f), byLabels \in ListByLabels(f) :
           matched' = [o \in Objects |->
              IF \E u \in JoinByName(f, byNamespace, byLabels) : EntryFor(u) = o
                THEN matched[o] \cup SelectsOf[f.containers] ELSE matched[o]]
    BY DEF MatchFilter
  <2>2. JoinByName(f, byNamespace, byLabels) = {o \in Objects : Matches(f, o)}
    BY <1>2, JoinMatches
  <2>3. \A o \in Objects :
           (\E u \in JoinByName(f, byNamespace, byLabels) : EntryFor(u) = o) <=> Matches(f, o)
    BY <2>2, OwnEntry
  <2> QED BY <2>1, <2>3
<1>5. InputType'
  BY <1>2, <1>3, <1>4 DEF MatchInv, InputType, Health
<1>6. Done' = Done \cup {next}
  BY <1>1, <1>3 DEF Done
<1>7. \A g, o : Matches(g, o)' <=> Matches(g, o)
  BY <1>3 DEF Matches
<1>8. MapSoFar'
  <2> SUFFICES ASSUME NEW o \in Objects, NEW c \in Containers
               PROVE  c \in matched'[o] <=>
                        \E i \in Done \cup {next} : /\ Matches(trap.any[i], o)
                                                    /\ c \in SelectsOf[trap.any[i].containers]
    BY <1>3, <1>6, <1>7 DEF MapSoFar
  <2>1. c \in matched'[o] <=> c \in matched[o] \/ (Matches(f, o) /\ c \in SelectsOf[f.containers])
    BY <1>4
  <2> QED BY <2>1 DEF MatchInv, MapSoFar
<1>9. result = None
  BY <1>1 DEF MatchInv, ResultInv
<1> QED BY <1>3, <1>5, <1>8, <1>9 DEF MatchInv, ResultInv

\* The last step only reads what the loop has collected.
LEMMA ResultMatches ==
    ASSUME MatchInv, FilterReady
    PROVE  MatchInv'
PROOF
<1>1. Len(trap.any) \in Nat /\ next = Len(trap.any) + 1
  BY ListsAreSequences DEF MatchInv, InputType, FilterReady
<1>2. UNCHANGED <<cluster, trap, matched>> /\ next' = next + 1 /\ result' = MatchingResult
  BY DEF FilterReady
<1>3. MatchingResult' = MatchingResult
  BY <1>2 DEF MatchingResult, DeployableObjects, Remaining, Deployable, IsReady, InMap, Counts
<1>4. Done' = Done
  BY <1>1, <1>2 DEF Done
<1>5. MapSoFar'
  BY <1>2, <1>4 DEF MatchInv, MapSoFar, Matches
<1>6. InputType'
  BY <1>1, <1>2 DEF MatchInv, InputType, Health
<1>7. next' > Len(trap'.any)
  BY <1>1, <1>2
<1>8. ResultInv'
  BY <1>2, <1>3, <1>7 DEF ResultInv
<1> QED BY <1>5, <1>6, <1>8 DEF MatchInv

\* A step that changes nothing keeps the invariant.
LEMMA StutterMatches == ASSUME MatchInv, UNCHANGED vars PROVE MatchInv'
PROOF
<1>1. UNCHANGED <<cluster, trap, matched, next, result>>
  BY DEF vars
<1>2. MatchingResult' = MatchingResult
  BY <1>1 DEF MatchingResult, DeployableObjects, Remaining, Deployable, IsReady, InMap, Counts
<1>3. InputType'
  BY <1>1 DEF MatchInv, InputType, Health
<1>4. MapSoFar'
  BY <1>1 DEF MatchInv, MapSoFar, Matches, Done
<1>5. ResultInv'
  BY <1>1, <1>2 DEF MatchInv, ResultInv
<1> QED BY <1>3, <1>4, <1>5 DEF MatchInv

ExactMap == NamesAreUnique => MatchInv

\* If names are unique, the map says at any time what the filters so far select.
THEOREM MatchesAsDocumented == Spec => []ExactMap
PROOF
<1>1. Init => ExactMap
  BY InitMatches DEF ExactMap
<1>2. ExactMap /\ [Next]_vars => ExactMap'
  BY RoundMatches, ResultMatches, StutterMatches DEF ExactMap, Next, NamesAreUnique
<1> QED BY <1>1, <1>2, PTL DEF Spec

-----------------------------------------------------------------------------
(* What follows for the result.                                            *)

\* The map of a finished loop is what the trap as a whole selects.
LEMMA FinishedMap ==
    ASSUME MatchInv, next > Len(trap.any), NEW o \in Objects, NEW c \in Containers
    PROVE  Counts(o) /\ c \in matched[o] <=> Wanted(o, c)
PROOF
<1>1. Len(trap.any) \in Nat /\ next \in Nat
  BY ListsAreSequences DEF MatchInv, InputType
<1>2. Done = 1..Len(trap.any)
  BY <1>1 DEF Done
<1>3. c \in matched[o] <=> \E i \in 1..Len(trap.any) : /\ Matches(trap.any[i], o)
                                                       /\ c \in SelectsOf[trap.any[i].containers]
  BY <1>2 DEF MatchInv, MapSoFar
<1> QED BY <1>3 DEF Wanted, TrapFilters

\* With the invariant, the result is what the filters select.
LEMMA ResultIsExact == MatchInv => SelectsExactly
PROOF
<1> SUFFICES ASSUME MatchInv, result # None, NEW o \in Objects, NEW c \in Containers
             PROVE  <<o, c>> \in result.deployable <=> Wanted(o, c) /\ CanTake(o, c)
  BY DEF SelectsExactly
<1>1. result.deployable = DeployableObjects /\ next > Len(trap.any)
  BY DEF MatchInv, ResultInv, MatchingResult
<1>2. <<o, c>> \in DeployableObjects <=> InMap(o) /\ Counts(o) /\ c \in Deployable(o)
  BY DEF DeployableObjects, Remaining
<1>3. c \in Deployable(o) <=> c \in matched[o] /\ CanTake(o, c)
  BY DEF Deployable, CanTake
<1>4. Counts(o) /\ c \in matched[o] <=> Wanted(o, c)
  BY <1>1, FinishedMap
<1> QED BY <1>1, <1>2, <1>3, <1>4 DEF InMap

\* A container that is wanted and left out makes its object count as not ready.
LEMMA ResultTells == MatchInv => SaysThatMoreWillCome
PROOF
<1> SUFFICES ASSUME MatchInv, result # None, NamesAreUnique,
                    NEW o \in Objects, NEW c \in Containers,
                    Wanted(o, c), <<o, c>> \notin result.deployable
             PROVE  result.matched /\ ~result.allReady
  BY DEF SaysThatMoreWillCome
<1>1. next > Len(trap.any) /\ result = MatchingResult
  BY DEF MatchInv, ResultInv
<1>2. Counts(o) /\ c \in matched[o]
  BY <1>1, FinishedMap
<1>3. o \in Remaining
  BY <1>2 DEF Remaining, InMap
<1>4. ~CanTake(o, c)
  BY ResultIsExact DEF SelectsExactly
<1>5. ~IsReady(o)
  BY <1>4 DEF CanTake, IsReady
<1> QED BY <1>1, <1>3, <1>5 DEF MatchingResult

\* An alert needs a selector that matches the container.
LEMMA AlertNeedsSelector ==
    ASSUME InputType, NEW o \in Objects, NEW c \in Containers, GivesAlert(o, c)
    PROVE  \E s \in TrapSelectors : c \in SelectsOf[s]
PROOF
<1>1. CASE SelectsAll
  BY <1>1, SelectorAssumption DEF SelectsAll
<1>2. CASE NeedsClientFiltering
  <2>1. TrapSelectors # {} /\ AnnotatedSelectors = TrapSelectors
    BY <1>2 DEF NeedsClientFiltering, AnnotatedSelectors
  <2> QED BY <2>1 DEF GivesAlert, PassesForwarder
<1>3. CASE ~SelectsAll /\ ~NeedsClientFiltering
  <2>1. c \in UNION {SelectsOf[s] : s \in TrapSelectors}
    BY <1>3 DEF GivesAlert, ContainerSelector
  <2> QED BY <2>1
<1> QED BY <1>1, <1>2, <1>3

\* A container that a filter selects passes Tetragon and the forwarder.
LEMMA SelectedPasses ==
    ASSUME NEW s \in TrapSelectors, NEW c \in Containers, c \in SelectsOf[s]
    PROVE  c \in ContainerSelector /\ PassesForwarder(c)
PROOF
<1>1. c \in ContainerSelector
  BY DEF ContainerSelector
<1>2. PassesForwarder(c)
  BY DEF PassesForwarder, AnnotatedSelectors
<1> QED BY <1>1, <1>2

\* With the invariant, whatever gets the decoy passes the filters of its alerts.
LEMMA DeployedIsWatched == MatchInv => DecoysAreWatched
PROOF
<1> SUFFICES ASSUME MatchInv, result # None, NamesAreUnique, SameLabels,
                    NEW o \in Objects, NEW c \in Containers, <<o, c>> \in result.deployable
             PROVE  GivesAlert(o, c)
  BY DEF DecoysAreWatched
<1>1. Wanted(o, c)
  BY ResultIsExact DEF SelectsExactly
<1>2. PICK f \in TrapFilters : Matches(f, o) /\ c \in SelectsOf[f.containers]
  BY <1>1 DEF Wanted
<1>3. c \in ContainerSelector /\ PassesForwarder(c)
  BY <1>2, SelectedPasses DEF TrapSelectors
<1>4. PodSelector \subseteq f.labels
  BY <1>2 DEF SameLabels, PodSelector
<1>5. PodSelector \subseteq cluster[o].labels
  BY <1>2, <1>4 DEF Matches
<1> QED BY <1>3, <1>5 DEF GivesAlert

-----------------------------------------------------------------------------

\* With unique names, joining by name and merging by name compute the OR of ANDs
\* that the documentation states, for every cluster and every list of filters.
THEOREM MatchingIsExact == Spec => []SelectsExactly
PROOF
<1>1. ExactMap => SelectsExactly
  BY ResultIsExact DEF ExactMap, SelectsExactly
<1> QED BY <1>1, MatchesAsDocumented, PTL

\* A result that leaves out something that is wanted says so: the caller comes back.
THEOREM ResultIsHonest == Spec => []SaysThatMoreWillCome
PROOF
<1>1. ExactMap => SaysThatMoreWillCome
  BY ResultTells DEF ExactMap, SaysThatMoreWillCome
<1> QED BY <1>1, MatchesAsDocumented, PTL

\* If all filters have the same labels, an access to any decoy in a pod is neither
\* left out by Tetragon's selectors nor filtered by the forwarder.
THEOREM DecoysAreAlwaysWatched == Spec => []DecoysAreWatched
PROOF
<1>1. ExactMap => DecoysAreWatched
  BY DeployedIsWatched DEF ExactMap, DecoysAreWatched
<1> QED BY <1>1, MatchesAsDocumented, PTL

\* The inputs of a call do not change, and keep their types.
LEMMA InputStays == Spec => []InputType
PROOF
<1>1. Init => InputType
  BY DEF Init, InputType
<1>2. InputType /\ [Next]_vars => InputType'
  <2> SUFFICES ASSUME InputType, [Next]_vars PROVE InputType'
    OBVIOUS
  <2>1. CASE MatchFilter
    <3>1. Len(trap.any) \in Nat /\ next \in 1..Len(trap.any)
          /\ trap.any \in [1..Len(trap.any) -> Filters]
      BY <2>1, ListsAreSequences DEF InputType, MatchFilter
    <3>2. SelectsOf[trap.any[next].containers] \subseteq Containers
      BY <3>1, FilterAssumption, SelectorAssumption DEF ResourceFilter
    <3>3. PICK F \in SUBSET Objects :
             matched' = [o \in Objects |-> IF o \in F
                THEN matched[o] \cup SelectsOf[trap.any[next].containers] ELSE matched[o]]
      <4> DEFINE f == trap.any[next]
      <4>1. PICK byNamespace \in ListByNamespace(f), byLabels \in ListByLabels(f) :
               matched' = [o \in Objects |->
                  IF \E u \in JoinByName(f, byNamespace, byLabels) : EntryFor(u) = o
                    THEN matched[o] \cup SelectsOf[f.containers] ELSE matched[o]]
        BY <2>1 DEF MatchFilter
      <4> DEFINE G == {o \in Objects : \E u \in JoinByName(f, byNamespace, byLabels) : EntryFor(u) = o}
      <4> QED BY <4>1, G \in SUBSET Objects
    <3> QED BY <2>1, <3>1, <3>2, <3>3 DEF InputType, MatchFilter, Health
  <2>2. CASE FilterReady
    BY <2>2, ListsAreSequences DEF InputType, FilterReady, Health
  <2>3. CASE UNCHANGED vars
    BY <2>3 DEF vars, InputType, Health
  <2> QED BY <2>1, <2>2, <2>3 DEF Next
<1> QED BY <1>1, <1>2, PTL DEF Spec

\* No alert comes from a container that no filter selects, unique names or not.
THEOREM NoAlertElsewhere == Spec => []OnlySelectedAlert
PROOF
<1>1. InputType => OnlySelectedAlert
  BY AlertNeedsSelector DEF OnlySelectedAlert
<1> QED BY <1>1, InputStays, PTL
=============================================================================
