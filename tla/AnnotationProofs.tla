-------------------------- MODULE AnnotationProofs --------------------------
(***************************************************************************)
(* Proofs about AnnotationList, for lists of any length: the list is well  *)
(* formed, its operations are those of module Annotations, and a step for  *)
(* one policy keeps the changes of all others.                             *)
(***************************************************************************)
EXTENDS AnnotationList, WellFoundedInduction, TLAPS

-----------------------------------------------------------------------------
(* The provers have no rule of induction; these two lemmas take its place: *)
(* a set of numbers has a least one, and a set of lists that is closed     *)
(* under Append has them all.                                              *)

\* A set of numbers that is not empty has a least one.
LEMMA LeastNat ==
    ASSUME NEW T, T \subseteq Nat, T # {}
    PROVE  \E n \in T : \A m \in T : n <= m
<1>1. PICK n \in T : \A m \in T : <<m, n>> \notin OpToRel(<, Nat)
  BY WFMin, NatLessThanWellFounded, Zenon
<1>2. ASSUME NEW m \in T PROVE n <= m
  <2>1. n \in Nat /\ m \in Nat
    OBVIOUS
  <2>2. ~(m < n)
    BY <1>1, <2>1, Zenon DEF OpToRel
  <2> QED BY <2>1, <2>2
<1> QED BY <1>2

\* A set of lists that has the empty one and is closed under Append has all of them.
LEMMA ListInduction ==
    ASSUME NEW S, NEW T, <<>> \in T,
           \A s \in Seq(S), x \in S : s \in T => Append(s, x) \in T
    PROVE  Seq(S) \subseteq T
<1> SUFFICES ASSUME NEW u \in Seq(S), u \notin T PROVE FALSE
  OBVIOUS
<1> DEFINE Lengths == {n \in Nat : \E s \in Seq(S) : Len(s) = n /\ s \notin T}
<1>1. Lengths \subseteq Nat /\ Len(u) \in Lengths
  OBVIOUS
<1>2. PICK n \in Lengths : \A m \in Lengths : n <= m
  <2> HIDE DEF Lengths
  <2> QED BY <1>1, LeastNat
<1>3. PICK s \in Seq(S) : Len(s) = n /\ s \notin T
  BY <1>2
<1>4. n # 0
  BY <1>3
<1> DEFINE r == [i \in 1..(n - 1) |-> s[i]]
<1>5. n \in Nat /\ r \in Seq(S) /\ Len(r) = n - 1 /\ s[n] \in S
  BY <1>1, <1>3, <1>4
<1>6. Append(r, s[n]) = s
  BY <1>3, <1>4, <1>5
<1>7. r \notin T
  BY <1>3, <1>5, <1>6
<1>8. n - 1 \in Lengths
  BY <1>4, <1>5, <1>7
<1> QED BY <1>2, <1>5, <1>8

\* What is in a list has a place in it.
LEMMA Members ==
    ASSUME NEW S, NEW s \in Seq(S)
    PROVE  /\ \A e \in ToSet(s) : e \in S /\ \E i \in 1..Len(s) : e = s[i]
           /\ \A i \in 1..Len(s) : s[i] \in S /\ s[i] \in ToSet(s)
<1>1. DOMAIN s = 1..Len(s) /\ \A i \in 1..Len(s) : s[i] \in S
  OBVIOUS
<1> QED BY <1>1 DEF ToSet

\* Append adds the one element to what is in a list.
LEMMA AppendSet ==
    ASSUME NEW S, NEW s \in Seq(S), NEW x \in S
    PROVE  ToSet(Append(s, x)) = ToSet(s) \cup {x}
<1>0. PICK t : t = Append(s, x)
  OBVIOUS
<1>1. PICK n \in Nat : n = Len(s)
  OBVIOUS
<1>2. /\ DOMAIN s = 1..n /\ DOMAIN t = 1..(n + 1) /\ t[n + 1] = x
      /\ \A i \in 1..n : t[i] = s[i]
  BY <1>0, <1>1
<1>3. n + 1 \in 1..(n + 1) /\ \A i \in 1..(n + 1) : i \in 1..n \/ i = n + 1
  OBVIOUS
<1>4. \A i \in 1..n : i \in 1..(n + 1)
  OBVIOUS
<1>5. \A e : e \in {t[i] : i \in 1..(n + 1)} <=> e \in {s[i] : i \in 1..n} \/ e = x
  BY <1>2, <1>3, <1>4
<1> QED BY <1>0, <1>2, <1>5 DEF ToSet

\* Nothing is in the empty list.
LEMMA EmptySet == ToSet(<<>>) = {}
<1>1. DOMAIN <<>> = {}
  OBVIOUS
<1> QED BY <1>1 DEF ToSet

-----------------------------------------------------------------------------
(* Keep, by its effect on the empty list and on a list with one more       *)
(* element.                                                                *)

\* The lists that the loop has built after each of its rounds.
Rounds(f, s, wanted) ==
    f = [i \in 0..Len(s) |->
           IF i = 0 THEN <<>>
           ELSE IF s[i] \in wanted THEN Append(f[i - 1], s[i]) ELSE f[i - 1]]

Kept(s, wanted) == CHOOSE f : Rounds(f, s, wanted)

\* What is kept is what the last round has built.
LEMMA KeepIsLast == ASSUME NEW s, NEW wanted PROVE Keep(s, wanted) = Kept(s, wanted)[Len(s)]
BY DEF Keep, Kept, Rounds

\* A round appends the element if it is wanted.
LEMMA Round ==
    ASSUME NEW s, NEW wanted, NEW f, Rounds(f, s, wanted), Len(s) \in Nat, NEW i \in 1..Len(s)
    PROVE  f[i] = IF s[i] \in wanted THEN Append(f[i - 1], s[i]) ELSE f[i - 1]
<1>1. i \in 0..Len(s) /\ i # 0
  OBVIOUS
<1>2. f[i] = IF i = 0 THEN <<>>
             ELSE IF s[i] \in wanted THEN Append(f[i - 1], s[i]) ELSE f[i - 1]
  BY <1>1, Zenon DEF Rounds
<1> QED BY <1>1, <1>2

\* There are such lists.
LEMMA RoundsExist ==
    ASSUME NEW S, NEW wanted, NEW s \in Seq(S)
    PROVE  \E f \in [0..Len(s) -> Seq(S)] : Rounds(f, s, wanted)
<1> DEFINE T == {r \in Seq(S) : \E f \in [0..Len(r) -> Seq(S)] : Rounds(f, r, wanted)}
<1>1. <<>> \in T
  <2>1. Rounds([i \in 0..0 |-> <<>>], <<>>, wanted)
    BY DEF Rounds
  <2>2. [i \in 0..0 |-> <<>>] \in [0..Len(<<>>) -> Seq(S)]
    OBVIOUS
  <2> QED BY <2>1, <2>2
<1>2. ASSUME NEW r \in Seq(S), NEW x \in S, r \in T
      PROVE  Append(r, x) \in T
  <2>1. PICK f \in [0..Len(r) -> Seq(S)] : Rounds(f, r, wanted)
    BY <1>2
  <2> DEFINE n == Len(r) + 1
             g == [i \in 0..n |-> IF i # n THEN f[i]
                                  ELSE IF x \in wanted THEN Append(f[n - 1], x) ELSE f[n - 1]]
             t == Append(r, x)
  <2>2. t \in Seq(S) /\ Len(t) = n /\ n \in Nat /\ t[n] = x /\ \A i \in 1..(n - 1) : t[i] = r[i]
    OBVIOUS
  <2>3. g \in [0..Len(t) -> Seq(S)]
    BY <2>2
  <2>4. ASSUME NEW i \in 0..n
        PROVE  g[i] = IF i = 0 THEN <<>>
                      ELSE IF t[i] \in wanted THEN Append(g[i - 1], t[i]) ELSE g[i - 1]
    <3>1. CASE i = n
      BY <3>1, <2>2
    <3>2. CASE i # n
      <4>1. CASE i = 0
        BY <4>1, <3>2, <2>1, <2>2 DEF Rounds
      <4>2. CASE i # 0
        <5>1. i \in 1..Len(r) /\ Len(r) \in Nat /\ t[i] = r[i] /\ g[i] = f[i] /\ g[i - 1] = f[i - 1]
          BY <4>2, <3>2, <2>2
        <5>2. f[i] = IF r[i] \in wanted THEN Append(f[i - 1], r[i]) ELSE f[i - 1]
          BY <2>1, <5>1, Round, Zenon
        <5> QED BY <4>2, <5>1, <5>2
      <4> QED BY <4>1, <4>2
    <3> QED BY <3>1, <3>2
  <2>5. Rounds(g, t, wanted)
    BY <2>2, <2>4 DEF Rounds
  <2> QED BY <2>2, <2>3, <2>5
<1> HIDE DEF T
<1>3. Seq(S) \subseteq T
  BY <1>1, <1>2, ListInduction
<1> QED BY <1>3 DEF T

\* The wanted elements of two lists are the same, up to n.
Alike(s, v, t, w, n) ==
    \A i \in 1..n : (s[i] \in v <=> t[i] \in w) /\ (s[i] \in v => s[i] = t[i])

\* The rounds are determined by the elements that are wanted.
LEMMA RoundsAgree ==
    ASSUME NEW S, NEW s \in Seq(S), NEW t \in Seq(S), NEW f, NEW g, NEW v, NEW w,
           NEW n \in Nat, n <= Len(s), n <= Len(t), Rounds(f, s, v), Rounds(g, t, w),
           Alike(s, v, t, w, n)
    PROVE  f[n] = g[n]
<1> DEFINE T == {i \in 0..n : f[i] # g[i]}
<1>1. SUFFICES ASSUME T # {} PROVE FALSE
  OBVIOUS
<1>2. PICK i \in T : \A m \in T : i <= m
  <2>1. T \subseteq Nat
    OBVIOUS
  <2> HIDE DEF T
  <2> QED BY <1>1, <2>1, LeastNat
<1>3. i # 0
  BY <1>2 DEF Rounds
<1>4. f[i - 1] = g[i - 1]
  BY <1>2, <1>3
<1>5. f[i] = g[i]
  <2>1. i \in 1..Len(s) /\ i \in 1..Len(t) /\ i \in 1..n /\ Len(s) \in Nat /\ Len(t) \in Nat
    BY <1>2, <1>3
  <2>2. /\ f[i] = IF s[i] \in v THEN Append(f[i - 1], s[i]) ELSE f[i - 1]
        /\ g[i] = IF t[i] \in w THEN Append(g[i - 1], t[i]) ELSE g[i - 1]
    BY <2>1, Round
  <2> QED BY <2>1, <2>2, <1>4 DEF Alike
<1> QED BY <1>2, <1>5

\* What the rest of the proofs need to know of the loop.
LEMMA KeptRounds ==
    ASSUME NEW S, NEW wanted, NEW s \in Seq(S)
    PROVE  Rounds(Kept(s, wanted), s, wanted) /\ Kept(s, wanted) \in [0..Len(s) -> Seq(S)]
<1>1. PICK f \in [0..Len(s) -> Seq(S)] : Rounds(f, s, wanted)
  BY RoundsExist
<1>2. Rounds(Kept(s, wanted), s, wanted)
  BY <1>1 DEF Kept
<1>3. ASSUME NEW i \in 0..Len(s) PROVE Kept(s, wanted)[i] = f[i]
  BY <1>1, <1>2, RoundsAgree DEF Alike
<1>4. Kept(s, wanted) = [i \in 0..Len(s) |-> Kept(s, wanted)[i]]
  BY <1>2 DEF Rounds
<1> HIDE DEF Rounds
<1> QED BY <1>1, <1>2, <1>3, <1>4

\* Nothing is kept of nothing.
LEMMA KeepEmpty == ASSUME NEW wanted PROVE Keep(<<>>, wanted) = <<>>
<1>1. PICK s \in Seq({}) : s = <<>>
  <2>1. <<>> \in Seq({})
    OBVIOUS
  <2> QED BY <2>1, Zenon
<1>2. Len(s) = 0
  BY <1>1
<1>3. Rounds(Kept(s, wanted), s, wanted)
  BY KeptRounds
<1>4. Kept(s, wanted)[0] = <<>>
  BY <1>2, <1>3 DEF Rounds
<1> QED BY <1>1, <1>2, <1>4, KeepIsLast

\* Of two lists with the same wanted elements, at the same places, the same is kept.
LEMMA KeepSame ==
    ASSUME NEW S, NEW s \in Seq(S), NEW t \in Seq(S), NEW v, NEW w, Len(s) = Len(t),
           Alike(s, v, t, w, Len(s))
    PROVE  Keep(s, v) = Keep(t, w)
<1>1. PICK n \in Nat : n = Len(s)
  OBVIOUS
<1>2. PICK f, g : f = Kept(s, v) /\ g = Kept(t, w)
  OBVIOUS
<1>3. Rounds(f, s, v) /\ Rounds(g, t, w)
  BY <1>2, KeptRounds
<1>4. f[n] = g[n]
  <2>1. n <= Len(s) /\ n <= Len(t) /\ Alike(s, v, t, w, n)
    BY <1>1
  <2> QED BY <1>3, <2>1, RoundsAgree
<1> QED BY <1>1, <1>2, <1>4, KeepIsLast

\* One more element is kept at the end or not at all.
LEMMA KeepAppend ==
    ASSUME NEW S, NEW s \in Seq(S), NEW x \in S, NEW wanted
    PROVE  Keep(Append(s, x), wanted) = IF x \in wanted THEN Append(Keep(s, wanted), x)
                                                        ELSE Keep(s, wanted)
<1>1. PICK t \in Seq(S) : t = Append(s, x)
  <2>1. Append(s, x) \in Seq(S)
    OBVIOUS
  <2> QED BY <2>1, Zenon
<1>2. PICK n \in Nat : n = Len(s)
  OBVIOUS
<1>3. /\ Len(t) = n + 1 /\ t[n + 1] = x
      /\ \A i \in 1..n : t[i] = s[i]
  BY <1>1, <1>2
<1>4. PICK f, g : f = Kept(s, wanted) /\ g = Kept(t, wanted)
  OBVIOUS
<1>5. Rounds(f, s, wanted) /\ Rounds(g, t, wanted)
  BY <1>4, KeptRounds
<1>6. f[n] = g[n]
  <2>1. n <= Len(s) /\ n <= Len(t) /\ Alike(s, wanted, t, wanted, n)
    BY <1>2, <1>3 DEF Alike
  <2> QED BY <1>5, <2>1, RoundsAgree
<1>7. g[n + 1] = IF x \in wanted THEN Append(g[n], x) ELSE g[n]
  <2>1. n + 1 \in 1..Len(t) /\ Len(t) \in Nat /\ (n + 1) - 1 = n
    BY <1>3
  <2>2. g[n + 1] = IF t[n + 1] \in wanted THEN Append(g[(n + 1) - 1], t[n + 1]) ELSE g[(n + 1) - 1]
    BY <1>5, <2>1, Round
  <2> QED BY <1>3, <2>1, <2>2
<1>8. Keep(t, wanted) = g[n + 1] /\ Keep(s, wanted) = f[n]
  BY <1>2, <1>3, <1>4, KeepIsLast
<1> QED BY <1>1, <1>6, <1>7, <1>8

\* The list that is kept has the wanted elements and no others.
LEMMA KeepRange ==
    ASSUME NEW S, NEW s \in Seq(S), NEW wanted
    PROVE  Keep(s, wanted) \in Seq(S) /\ ToSet(Keep(s, wanted)) = ToSet(s) \cap wanted
<1> DEFINE T == {r \in Seq(S) : /\ Keep(r, wanted) \in Seq(S)
                                /\ ToSet(Keep(r, wanted)) = ToSet(r) \cap wanted}
<1>1. <<>> \in T
  <2>1. <<>> \in Seq(S)
    OBVIOUS
  <2> QED BY <2>1, KeepEmpty, EmptySet
<1>2. ASSUME NEW r \in Seq(S), NEW x \in S, r \in T PROVE Append(r, x) \in T
  <2>1. CASE x \in wanted
    <3>1. Keep(Append(r, x), wanted) = Append(Keep(r, wanted), x)
      BY <2>1, KeepAppend
    <3>2. Append(Keep(r, wanted), x) \in Seq(S)
      BY <1>2
    <3>3. ToSet(Append(Keep(r, wanted), x)) = ToSet(Keep(r, wanted)) \cup {x}
      BY <1>2, AppendSet
    <3>4. ToSet(Append(r, x)) = ToSet(r) \cup {x}
      BY AppendSet
    <3>5. ToSet(Append(Keep(r, wanted), x)) = ToSet(Append(r, x)) \cap wanted
      BY <1>2, <2>1, <3>3, <3>4
    <3>6. Append(r, x) \in Seq(S)
      OBVIOUS
    <3> QED BY <3>1, <3>2, <3>5, <3>6
  <2>2. CASE x \notin wanted
    BY <1>2, <2>2, KeepAppend, AppendSet
  <2> QED BY <2>1, <2>2
<1> HIDE DEF T
<1>3. Seq(S) \subseteq T
  BY <1>1, <1>2, ListInduction
<1> QED BY <1>3 DEF T

\* To keep the wanted of what was kept is to keep what is wanted twice.
LEMMA KeepKeep ==
    ASSUME NEW S, NEW s \in Seq(S), NEW v, NEW w
    PROVE  Keep(Keep(s, v), w) = Keep(s, v \cap w)
<1> DEFINE T == {r \in Seq(S) : Keep(Keep(r, v), w) = Keep(r, v \cap w)}
<1>1. <<>> \in T
  BY KeepEmpty
<1>2. ASSUME NEW r \in Seq(S), NEW x \in S, r \in T PROVE Append(r, x) \in T
  <2>1. Keep(r, v) \in Seq(S)
    BY KeepRange
  <2>2. CASE x \in v
    <3>1. Keep(Append(r, x), v) = Append(Keep(r, v), x)
      BY <2>2, KeepAppend
    <3>2. Keep(Append(Keep(r, v), x), w) = IF x \in w THEN Append(Keep(Keep(r, v), w), x)
                                                     ELSE Keep(Keep(r, v), w)
      BY <2>1, KeepAppend
    <3>3. Keep(Append(r, x), v \cap w) = IF x \in w THEN Append(Keep(r, v \cap w), x)
                                                   ELSE Keep(r, v \cap w)
      BY <2>2, KeepAppend
    <3>4. Keep(Keep(r, v), w) = Keep(r, v \cap w)
      BY <1>2
    <3>5. Append(r, x) \in Seq(S)
      OBVIOUS
    <3> QED BY <3>1, <3>2, <3>3, <3>4, <3>5
  <2>3. CASE x \notin v
    BY <1>2, <2>3, KeepAppend
  <2> QED BY <2>2, <2>3
<1> HIDE DEF T
<1>3. Seq(S) \subseteq T
  BY <1>1, <1>2, ListInduction
<1> QED BY <1>3 DEF T

\* No two elements have the same key.
Distinct(s, key) == \A i, j \in 1..Len(s) : key[s[i]] = key[s[j]] => i = j

\* One more element is distinct from the others if its key is new.
LEMMA AppendDistinct ==
    ASSUME NEW S, NEW s \in Seq(S), NEW x \in S, NEW key
    PROVE  Distinct(Append(s, x), key)
             <=> Distinct(s, key) /\ \A e \in ToSet(s) : key[e] # key[x]
<1>1. /\ Len(Append(s, x)) = Len(s) + 1 /\ Len(s) \in Nat
      /\ Append(s, x)[Len(s) + 1] = x
      /\ \A i \in 1..Len(s) : Append(s, x)[i] = s[i]
  OBVIOUS
<1>2. ToSet(s) = {s[i] : i \in 1..Len(s)}
  BY DEF ToSet
<1> QED BY <1>1, <1>2 DEF Distinct

\* The elements that are kept are as distinct as those of the list.
LEMMA KeepDistinct ==
    ASSUME NEW S, NEW s \in Seq(S), NEW wanted, NEW key, Distinct(s, key)
    PROVE  Distinct(Keep(s, wanted), key)
<1> DEFINE T == {r \in Seq(S) : Distinct(r, key) => Distinct(Keep(r, wanted), key)}
<1>1. <<>> \in T
  BY KeepEmpty DEF Distinct
<1>2. ASSUME NEW r \in Seq(S), NEW x \in S, r \in T PROVE Append(r, x) \in T
  <2> SUFFICES ASSUME Distinct(Append(r, x), key)
               PROVE  Distinct(Keep(Append(r, x), wanted), key)
    OBVIOUS
  <2>1. Distinct(r, key) /\ \A e \in ToSet(r) : key[e] # key[x]
    BY AppendDistinct
  <2>2. Keep(r, wanted) \in Seq(S) /\ ToSet(Keep(r, wanted)) \subseteq ToSet(r)
    BY KeepRange
  <2>3. Distinct(Append(Keep(r, wanted), x), key) /\ Distinct(Keep(r, wanted), key)
    BY <1>2, <2>1, <2>2, AppendDistinct
  <2> QED BY <2>3, KeepAppend
<1> HIDE DEF T
<1>3. Seq(S) \subseteq T
  BY <1>1, <1>2, ListInduction
<1> QED BY <1>3 DEF T

-----------------------------------------------------------------------------
(* Lists of containers and of traps.                                       *)

\* A list of containers is not empty, and what is left of it is one, or nothing.
LEMMA ListsOfContainers ==
    ASSUME NEW cs \in ContainerLists
    PROVE  /\ cs \in Seq(Containers) /\ ToSet(cs) # {}
           /\ \A wanted : Keep(cs, wanted) # <<>> => Keep(cs, wanted) \in ContainerLists
<1>1. PICK o \in Orders, C \in SUBSET Containers : cs = Keep(o, C)
  BY DEF ContainerLists
<1>2. o \in Seq(Containers)
  BY OrdersAssumption
<1>3. cs \in Seq(Containers)
  BY <1>1, <1>2, KeepRange
<1>4. ToSet(cs) # {}
  <2>1. cs # <<>>
    BY DEF ContainerLists
  <2>2. 1 \in 1..Len(cs)
    BY <1>3, <2>1
  <2> QED BY <1>3, <2>2, Members
<1>5. ASSUME NEW wanted, Keep(cs, wanted) # <<>> PROVE Keep(cs, wanted) \in ContainerLists
  <2>1. Keep(cs, wanted) = Keep(o, C \cap wanted)
    BY <1>1, <1>2, KeepKeep
  <2> QED BY <1>5, <2>1 DEF ContainerLists
<1> QED BY <1>3, <1>4, <1>5

\* Without a choice of orders, as for a pod, a list is determined by what is in it.
OneOrder == \A o, q \in Orders : o = q

LEMMA ListsInOneOrder ==
    ASSUME OneOrder, NEW cs \in ContainerLists, NEW ds \in ContainerLists, ToSet(cs) = ToSet(ds)
    PROVE  cs = ds
<1>1. PICK o \in Orders, C \in SUBSET Containers : cs = Keep(o, C)
  BY DEF ContainerLists
<1>2. PICK D \in SUBSET Containers : ds = Keep(o, D)
  BY DEF ContainerLists, OneOrder
<1>3. o \in Seq(Containers)
  BY OrdersAssumption
<1>4. ToSet(o) \cap C = ToSet(o) \cap D
  <2>1. ToSet(cs) = ToSet(o) \cap C
    BY <1>1, <1>3, KeepRange
  <2>2. ToSet(ds) = ToSet(o) \cap D
    BY <1>2, <1>3, KeepRange
  <2> QED BY <2>1, <2>2
<1>5. Alike(o, C, o, D, Len(o))
  BY <1>3, <1>4, Members DEF Alike
<1> QED BY <1>1, <1>2, <1>3, <1>5, KeepSame

TrapOf == [e \in TrapAnnotation |-> e.trap]
GoodTraps(traps) == traps \in Seq(TrapAnnotation) /\ Distinct(traps, TrapOf)

\* What a list of traps says of a trap.
Of(traps, t) == UNION {ToSet(e.containers) : e \in {f \in ToSet(traps) : f.trap = t}}

\* A trap has the containers of its entry, which is the only one.
LEMMA OfEntry ==
    ASSUME NEW traps, GoodTraps(traps), NEW e \in ToSet(traps)
    PROVE  Of(traps, e.trap) = ToSet(e.containers)
<1>1. \A f \in ToSet(traps) : f.trap = e.trap => f = e
  <2>1. /\ \A f \in ToSet(traps) : f \in TrapAnnotation /\ \E i \in 1..Len(traps) : f = traps[i]
        /\ \A i, j \in 1..Len(traps) : TrapOf[traps[i]] = TrapOf[traps[j]] => i = j
    BY Members DEF GoodTraps, Distinct
  <2>2. \A f \in ToSet(traps) : TrapOf[f] = f.trap
    BY <2>1 DEF TrapOf
  <2> QED BY <2>1, <2>2
<1>2. {f \in ToSet(traps) : f.trap = e.trap} = {e}
  BY <1>1
<1> QED BY <1>2 DEF Of

\* A trap without an entry has no containers.
LEMMA OfAbsent ==
    ASSUME NEW traps, NEW t, \A e \in ToSet(traps) : e.trap # t
    PROVE  Of(traps, t) = {}
BY DEF Of

\* What only depends on the entries of a trap.
LEMMA OfSame ==
    ASSUME NEW traps, NEW others, NEW t,
           \A e : e.trap = t => (e \in ToSet(traps) <=> e \in ToSet(others))
    PROVE  Of(traps, t) = Of(others, t)
<1>1. {e \in ToSet(traps) : e.trap = t} = {e \in ToSet(others) : e.trap = t}
  OBVIOUS
<1> QED BY <1>1 DEF Of

\* The place at which the loop of Put stops.
Added(traps, t, new, put) ==
    (\A j \in 1..Len(traps) : traps[j].trap # t) /\ put = Append(traps, new)
Changed(traps, t, new, put, i) ==
    /\ traps[i].trap = t
    /\ put \in Seq(TrapAnnotation) /\ Len(put) = Len(traps) /\ put[i] = new
    /\ \A j \in 1..Len(traps) : j # i => put[j] = traps[j]

LEMMA PutPlace ==
    ASSUME NEW traps \in Seq(TrapAnnotation), NEW t \in Traps, NEW cs \in ContainerLists,
           NEW new, new = [trap |-> t, containers |-> cs],
           NEW put, put = Put(traps, t, cs)
    PROVE  Added(traps, t, new, put) \/ \E i \in 1..Len(traps) : Changed(traps, t, new, put, i)
<1> DEFINE I == {i \in 1..Len(traps) : traps[i].trap = t}
<1>1. SelectInSeq(traps, LAMBDA e : e.trap = t) = IF I # {} THEN Min(I) ELSE 0
  BY DEF SelectInSeq
<1>2. CASE I = {}
  BY <1>1, <1>2 DEF Put, Added
<1>3. CASE I # {}
  <2>1. I \subseteq Nat
    OBVIOUS
  <2>2. \E i \in I : \A j \in I : i <= j
    <3> HIDE DEF I
    <3> QED BY <1>3, <2>1, LeastNat
  <2>3. Min(I) \in I
    BY <2>2 DEF Min
  <2>4. Put(traps, t, cs) = [traps EXCEPT ![Min(I)].containers = cs]
    <3>1. Min(I) # 0
      BY <2>3
    <3> HIDE DEF I
    <3> QED BY <1>1, <1>3, <3>1 DEF Put
  <2>5. PICK i \in 1..Len(traps) : traps[i].trap = t /\ put = [traps EXCEPT ![i].containers = cs]
    BY <2>3, <2>4
  <2>6. traps[i] \in TrapAnnotation /\ new \in TrapAnnotation
    <3>1. traps[i] \in TrapAnnotation
      OBVIOUS
    <3>2. new \in TrapAnnotation
      BY DEF TrapAnnotation
    <3> QED BY <3>1, <3>2
  <2>7. [traps[i] EXCEPT !.containers = cs] = new
    BY <2>5, <2>6 DEF TrapAnnotation
  <2>8. /\ put \in Seq(TrapAnnotation) /\ Len(put) = Len(traps) /\ put[i] = new
        /\ \A j \in 1..Len(traps) : j # i => put[j] = traps[j]
    BY <2>5, <2>6, <2>7
  <2> QED BY <2>5, <2>8 DEF Changed
<1> QED BY <1>2, <1>3

\* Put gives the trap one entry and touches no other.
LEMMA PutSet ==
    ASSUME NEW traps, GoodTraps(traps), NEW t \in Traps, NEW cs \in ContainerLists
    PROVE  /\ GoodTraps(Put(traps, t, cs))
           /\ ToSet(Put(traps, t, cs)) = {e \in ToSet(traps) : e.trap # t}
                                           \cup {[trap |-> t, containers |-> cs]}
<1>0. PICK new, put : new = [trap |-> t, containers |-> cs] /\ put = Put(traps, t, cs)
  OBVIOUS
<1>1. /\ traps \in Seq(TrapAnnotation) /\ Distinct(traps, TrapOf) /\ new \in TrapAnnotation
      /\ new.trap = t /\ new.containers = cs
  BY <1>0 DEF GoodTraps, TrapAnnotation
<1>2. Added(traps, t, new, put) \/ \E i \in 1..Len(traps) : Changed(traps, t, new, put, i)
  BY <1>0, <1>1, PutPlace
<1>3. CASE Added(traps, t, new, put)
  <2>1. \A e \in ToSet(traps) : e \in TrapAnnotation /\ e.trap # t
    BY <1>1, <1>3, Members DEF Added
  <2>2. \A e \in ToSet(traps) : TrapOf[e] # TrapOf[new]
    BY <1>1, <2>1 DEF TrapOf
  <2>3. Distinct(put, TrapOf)
    BY <1>1, <1>3, <2>2, AppendDistinct DEF Added
  <2>4. ToSet(put) = ToSet(traps) \cup {new}
    BY <1>1, <1>3, AppendSet DEF Added
  <2>5. put \in Seq(TrapAnnotation)
    BY <1>1, <1>3 DEF Added
  <2> QED BY <1>0, <2>1, <2>3, <2>4, <2>5 DEF GoodTraps
<1>4. CASE \E i \in 1..Len(traps) : Changed(traps, t, new, put, i)
  <2>1. PICK i \in 1..Len(traps) :
          /\ traps[i].trap = t
          /\ put \in Seq(TrapAnnotation) /\ Len(put) = Len(traps) /\ put[i] = new
          /\ \A j \in 1..Len(traps) : j # i => put[j] = traps[j]
    BY <1>4 DEF Changed
  <2>2. \A j \in 1..Len(traps) : /\ traps[j] \in TrapAnnotation /\ put[j] \in TrapAnnotation
                               /\ put[j].trap = traps[j].trap
    BY <1>1, <2>1
  <2>3. \A j \in 1..Len(traps) : /\ TrapOf[put[j]] = TrapOf[traps[j]]
                               /\ TrapOf[traps[j]] = traps[j].trap
    BY <2>2 DEF TrapOf
  <2>4. Distinct(put, TrapOf)
    BY <1>1, <2>1, <2>3 DEF Distinct
  <2>5. \A j \in 1..Len(traps) : j # i => traps[j].trap # t
    BY <1>1, <2>1, <2>3 DEF Distinct
  <2>6. /\ ToSet(traps) = {traps[j] : j \in 1..Len(traps)}
        /\ ToSet(put) = {put[j] : j \in 1..Len(traps)}
    BY <1>1, <2>1 DEF ToSet
  <2>7. \A e : e \in ToSet(put) <=> e = new \/ (e \in ToSet(traps) /\ e.trap # t)
    BY <2>1, <2>5, <2>6
  <2> QED BY <1>0, <2>1, <2>4, <2>7 DEF GoodTraps
<1> QED BY <1>2, <1>3, <1>4

\* Put changes the containers of its trap and of no other.
LEMMA PutIsSet ==
    ASSUME NEW traps, GoodTraps(traps), NEW t \in Traps, NEW cs \in ContainerLists, NEW u
    PROVE  Of(Put(traps, t, cs), u) = IF u = t THEN ToSet(cs) ELSE Of(traps, u)
<1> DEFINE new == [trap |-> t, containers |-> cs]
           put == Put(traps, t, cs)
<1>1. GoodTraps(put) /\ ToSet(put) = {e \in ToSet(traps) : e.trap # t} \cup {new}
  BY PutSet
<1>2. new \in ToSet(put) /\ new.trap = t /\ new.containers = cs
  BY <1>1
<1>3. Of(put, t) = ToSet(cs)
  <2> HIDE DEF put, new
  <2> QED BY <1>1, <1>2, OfEntry
<1>4. CASE u # t
  <2>1. \A e : e.trap = u => (e \in ToSet(put) <=> e \in ToSet(traps))
    BY <1>1, <1>2, <1>4
  <2> QED BY <1>4, <2>1, OfSame
<1> QED BY <1>3, <1>4

\* The entry of the trap has other containers, or these in another order.
Other(traps, t, cs) == \E e \in ToSet(traps) : e.trap = t /\ e.containers # cs

\* Without takes the entry away if it has this list of containers, and touches no other.
LEMMA WithoutIsRemove ==
    ASSUME NEW traps, GoodTraps(traps), NEW t, NEW cs \in ContainerLists, NEW u
    PROVE  /\ GoodTraps(Without(traps, t, cs))
           /\ Of(Without(traps, t, cs), u) = IF u = t /\ ~Other(traps, t, cs)
                                             THEN {} ELSE Of(traps, u)
<1> DEFINE W == Without(traps, t, cs)
           wanted == {e \in ToSet(traps) : ~(e.trap = t /\ e.containers = cs)}
<1>1. traps \in Seq(TrapAnnotation) /\ Distinct(traps, TrapOf) /\ W = Keep(traps, wanted)
  BY DEF GoodTraps, Without
<1>2. W \in Seq(TrapAnnotation) /\ ToSet(W) = wanted /\ Distinct(W, TrapOf)
  <2> HIDE DEF wanted, W
  <2>1. wanted \subseteq ToSet(traps)
    BY DEF wanted
  <2>2. W \in Seq(TrapAnnotation) /\ ToSet(W) = ToSet(traps) \cap wanted
    BY <1>1, KeepRange
  <2>3. Distinct(W, TrapOf)
    BY <1>1, KeepDistinct
  <2> QED BY <2>1, <2>2, <2>3
<1>3. CASE u # t
  <2>1. \A e : e.trap = u => (e \in ToSet(W) <=> e \in ToSet(traps))
    BY <1>2, <1>3
  <2> QED BY <1>2, <1>3, <2>1, OfSame DEF GoodTraps
<1>4. CASE u = t /\ ~Other(traps, t, cs)
  <2>1. \A e \in ToSet(W) : e.trap # t
    BY <1>2, <1>4 DEF Other
  <2> QED BY <1>2, <1>4, <2>1, OfAbsent DEF GoodTraps
<1>5. CASE u = t /\ Other(traps, t, cs)
  <2>1. PICK e \in ToSet(traps) : e.trap = t /\ e.containers # cs
    BY <1>5 DEF Other
  <2>2. e \in ToSet(W)
    BY <1>2, <2>1
  <2>3. Of(traps, t) = ToSet(e.containers)
    BY <2>1, OfEntry
  <2>4. Of(W, t) = ToSet(e.containers)
    BY <1>2, <2>1, <2>2, OfEntry DEF GoodTraps
  <2> QED BY <1>2, <1>5, <2>3, <2>4 DEF GoodTraps
<1> QED BY <1>3, <1>4, <1>5

\* The set of containers of a trap tells whether its entry is another one, but for
\* their order.
LEMMA OtherTells ==
    ASSUME NEW traps, GoodTraps(traps), NEW t, NEW cs \in ContainerLists
    PROVE  Other(traps, t, cs)
             <=> \/ Of(traps, t) # {} /\ Of(traps, t) # ToSet(cs)
                 \/ \E e \in ToSet(traps) :
                       e.trap = t /\ ToSet(e.containers) = ToSet(cs) /\ e.containers # cs
<1>1. CASE \E e \in ToSet(traps) : e.trap = t
  <2>1. PICK e \in ToSet(traps) : e.trap = t
    BY <1>1
  <2>2. Of(traps, t) = ToSet(e.containers) /\ ToSet(e.containers) # {}
    <3>1. e \in TrapAnnotation
      BY Members DEF GoodTraps
    <3>2. e.containers \in ContainerLists
      BY <3>1 DEF TrapAnnotation
    <3> QED BY <2>1, <3>2, OfEntry, ListsOfContainers
  <2>3. \A f \in ToSet(traps) : f.trap = t => ToSet(f.containers) = Of(traps, t)
    BY OfEntry
  <2> QED BY <2>1, <2>2, <2>3 DEF Other
<1>2. CASE \A e \in ToSet(traps) : e.trap # t
  BY <1>2, OfAbsent DEF Other
<1> QED BY <1>1, <1>2

-----------------------------------------------------------------------------
(* Lists of changes.                                                       *)

PolicyOf == [c \in ChangeAnnotation |-> c.policy]
GoodList(s) ==
    /\ s \in Seq(ChangeAnnotation) /\ Distinct(s, PolicyOf)
    /\ \A c \in ToSet(s) : c.traps # <<>> /\ GoodTraps(c.traps)

\* A list is what is parsed of it, and it is not None.
LEMMA ParsedList == ASSUME NEW s \in Seq(ChangeAnnotation) PROVE Parsed(s) = s
BY NoneAssumption DEF Parsed

\* A missing annotation reads as the empty list.
LEMMA GetParsed ==
    ASSUME NEW list, list = None \/ list \in Seq(ChangeAnnotation), NEW p
    PROVE  /\ Parsed(list) \in Seq(ChangeAnnotation)
           /\ GetAnnotationChange(Parsed(list), p) = GetAnnotationChange(list, p)
<1>1. CASE list \in Seq(ChangeAnnotation)
  BY <1>1, ParsedList
<1>2. CASE list = None
  <2>1. Parsed(list) = <<>> /\ <<>> \in Seq(ChangeAnnotation)
    BY <1>2 DEF Parsed
  <2>2. Parsed(<<>>) = <<>>
    BY <2>1, ParsedList
  <2>3. SelectInSeq(<<>>, LAMBDA change : change.policy = p) = 0
    <3>1. {i \in 1..Len(<<>>) : <<>>[i].policy = p} = {}
      OBVIOUS
    <3> QED BY <3>1 DEF SelectInSeq
  <2> QED BY <2>1, <2>2, <2>3 DEF GetAnnotationChange
<1> QED BY <1>1, <1>2

\* GetAnnotationChange finds a change of the policy when there is one.
LEMMA GetFirst ==
    ASSUME NEW s \in Seq(ChangeAnnotation), NEW p
    PROVE  \/ (\A i \in 1..Len(s) : s[i].policy # p) /\ GetAnnotationChange(s, p) = <<>>
           \/ \E i \in 1..Len(s) : s[i].policy = p /\ GetAnnotationChange(s, p) = s[i].traps
<1> DEFINE I == {i \in 1..Len(s) : s[i].policy = p}
<1>1. SelectInSeq(s, LAMBDA change : change.policy = p) = IF I # {} THEN Min(I) ELSE 0
  BY DEF SelectInSeq
<1>2. Parsed(s) = s
  BY ParsedList
<1>3. CASE I = {}
  BY <1>1, <1>2, <1>3 DEF GetAnnotationChange
<1>4. CASE I # {}
  <2>1. I \subseteq Nat
    OBVIOUS
  <2>2. \E i \in I : \A j \in I : i <= j
    <3> HIDE DEF I
    <3> QED BY <1>4, <2>1, LeastNat
  <2>3. Min(I) \in I
    BY <2>2 DEF Min
  <2>4. GetAnnotationChange(s, p) = s[Min(I)].traps
    <3>1. Min(I) # 0
      BY <2>3
    <3> HIDE DEF I
    <3> QED BY <1>1, <1>2, <1>4, <3>1 DEF GetAnnotationChange
  <2> QED BY <2>3, <2>4
<1> QED BY <1>3, <1>4

\* The first change of a policy is its only one.
LEMMA GetOnly ==
    ASSUME NEW s \in Seq(ChangeAnnotation), Distinct(s, PolicyOf), NEW p
    PROVE  /\ \A i \in 1..Len(s) : s[i].policy = p => GetAnnotationChange(s, p) = s[i].traps
           /\ \A c \in ToSet(s) : c.policy = p => GetAnnotationChange(s, p) = c.traps
           /\ (\A c \in ToSet(s) : c.policy # p) => GetAnnotationChange(s, p) = <<>>
<1>1. /\ \A c \in ToSet(s) : c \in ChangeAnnotation /\ \E i \in 1..Len(s) : c = s[i]
      /\ \A i \in 1..Len(s) : s[i] \in ChangeAnnotation /\ s[i] \in ToSet(s)
  BY Members
<1>2. \A i, j \in 1..Len(s) : s[i].policy = s[j].policy => i = j
  BY <1>1 DEF Distinct, PolicyOf
<1>3. CASE (\A i \in 1..Len(s) : s[i].policy # p) /\ GetAnnotationChange(s, p) = <<>>
  BY <1>1, <1>3
<1>4. CASE \E i \in 1..Len(s) : s[i].policy = p /\ GetAnnotationChange(s, p) = s[i].traps
  BY <1>1, <1>2, <1>4
<1> QED BY <1>3, <1>4, GetFirst

\* The change of a policy is a good list of traps, empty when there is none.
LEMMA GetGood ==
    ASSUME NEW s, GoodList(s), NEW p
    PROVE  GoodTraps(GetAnnotationChange(s, p))
<1>1. GoodTraps(<<>>)
  BY DEF GoodTraps, Distinct
<1>2. CASE \E c \in ToSet(s) : c.policy = p
  BY <1>2, GetOnly DEF GoodList
<1>3. CASE \A c \in ToSet(s) : c.policy # p
  BY <1>1, <1>3, GetOnly DEF GoodList
<1> QED BY <1>2, <1>3

-----------------------------------------------------------------------------
(* The loops over the changes touch those of one policy only.              *)

Touched(s, n, p) ==
    /\ n \in Seq(ChangeAnnotation) /\ Len(n) = Len(s)
    /\ \A i \in 1..Len(s) : n[i].policy = s[i].policy /\ (s[i].policy # p => n[i] = s[i])

Others(s, p) == {change \in ToSet(s) : change.policy # p}

\* A loop that touches only the changes of one policy keeps those of all others.
LEMMA TouchedKeepsOthers ==
    ASSUME NEW s \in Seq(ChangeAnnotation), NEW n, NEW p, Touched(s, n, p)
    PROVE  Keep(n, Others(n, p)) = Keep(s, Others(s, p))
<1>1. n \in Seq(ChangeAnnotation) /\ Len(n) = Len(s)
  BY DEF Touched
<1>2. Alike(n, Others(n, p), s, Others(s, p), Len(n))
  <2>1. /\ \A i \in 1..Len(s) : s[i] \in ToSet(s)
        /\ \A i \in 1..Len(n) : n[i] \in ToSet(n)
    BY <1>1, Members
  <2> QED BY <1>1, <2>1 DEF Alike, Touched, Others
<1> QED BY <1>1, <1>2, KeepSame

\* Such a loop leaves each policy its one change, in which GetAnnotationChange finds it.
LEMMA TouchedDistinct ==
    ASSUME NEW s \in Seq(ChangeAnnotation), NEW n, NEW p, Touched(s, n, p), Distinct(s, PolicyOf)
    PROVE  /\ Distinct(n, PolicyOf)
           /\ \A q : q # p => GetAnnotationChange(n, q) = GetAnnotationChange(s, q)
           /\ \A i \in 1..Len(s) : s[i].policy = p =>
                 GetAnnotationChange(n, p) = n[i].traps /\ GetAnnotationChange(s, p) = s[i].traps
           /\ (\A c \in ToSet(s) : c.policy # p) =>
                 GetAnnotationChange(n, p) = <<>> /\ GetAnnotationChange(s, p) = <<>>
<1>1. /\ n \in Seq(ChangeAnnotation) /\ Len(n) = Len(s)
      /\ \A i \in 1..Len(s) : /\ s[i] \in ChangeAnnotation /\ s[i] \in ToSet(s)
                             /\ n[i] \in ChangeAnnotation /\ n[i] \in ToSet(n)
                             /\ n[i].policy = s[i].policy /\ (s[i].policy # p => n[i] = s[i])
      /\ \A c \in ToSet(s) : \E i \in 1..Len(s) : c = s[i]
      /\ \A c \in ToSet(n) : \E i \in 1..Len(s) : c = n[i]
  BY Members DEF Touched
<1>2. Distinct(n, PolicyOf)
  <2>1. \A i \in 1..Len(s) : PolicyOf[n[i]] = PolicyOf[s[i]]
    BY <1>1 DEF PolicyOf
  <2> QED BY <1>1, <2>1 DEF Distinct
<1>3. ASSUME NEW q, q # p PROVE GetAnnotationChange(n, q) = GetAnnotationChange(s, q)
  <2>1. CASE \E i \in 1..Len(s) : s[i].policy = q
    BY <1>1, <1>2, <1>3, <2>1, GetOnly
  <2>2. CASE \A i \in 1..Len(s) : s[i].policy # q
    <3>1. /\ \A c \in ToSet(s) : c.policy # q
          /\ \A c \in ToSet(n) : c.policy # q
      BY <1>1, <2>2
    <3> QED BY <1>1, <1>2, <3>1, GetOnly
  <2> QED BY <2>1, <2>2
<1>4. ASSUME NEW i \in 1..Len(s), s[i].policy = p
      PROVE  GetAnnotationChange(n, p) = n[i].traps /\ GetAnnotationChange(s, p) = s[i].traps
  BY <1>1, <1>2, <1>4, GetOnly
<1>5. ASSUME \A c \in ToSet(s) : c.policy # p
      PROVE  GetAnnotationChange(n, p) = <<>> /\ GetAnnotationChange(s, p) = <<>>
  <2>1. \A c \in ToSet(n) : c.policy # p
    BY <1>1, <1>5
  <2> QED BY <1>1, <1>2, <1>5, <2>1, GetOnly
<1> QED BY <1>2, <1>3, <1>4, <1>5

-----------------------------------------------------------------------------
(* The operations, on a good list: the list that they leave is good, it    *)
(* says what module Annotations says, and the others' changes are kept.    *)

\* PutInChanges leaves a good list, with the trap put into the change of its policy.
LEMMA PutInChangesGood ==
    ASSUME NEW s, GoodList(s), NEW p \in Policies, NEW t \in Traps, NEW cs \in ContainerLists,
           NEW n, n = PutInChanges(s, p, t, cs)
    PROVE  /\ GoodList(n) /\ Touched(s, n, p)
           /\ \A i \in 1..Len(s) : s[i].policy = p => n[i].traps = Put(s[i].traps, t, cs)
<1>1. /\ s \in Seq(ChangeAnnotation) /\ Len(s) \in Nat /\ DOMAIN s = 1..Len(s)
      /\ \A i \in 1..Len(s) : s[i] \in ChangeAnnotation /\ s[i] \in ToSet(s)
  BY Members DEF GoodList
<1>2. ASSUME NEW i \in 1..Len(s)
      PROVE  /\ n[i] \in ChangeAnnotation
             /\ n[i].policy = s[i].policy /\ (s[i].policy # p => n[i] = s[i])
             /\ s[i].policy = p => n[i].traps = Put(s[i].traps, t, cs)
             /\ n[i].traps # <<>> /\ GoodTraps(n[i].traps)
  <2>1. s[i] \in ChangeAnnotation /\ s[i].traps # <<>> /\ GoodTraps(s[i].traps)
    BY <1>1 DEF GoodList
  <2>2. n[i] = IF s[i].policy = p THEN [s[i] EXCEPT !.traps = Put(s[i].traps, t, cs)] ELSE s[i]
    BY <1>1 DEF PutInChanges
  <2>3. CASE s[i].policy # p
    BY <2>1, <2>2, <2>3
  <2>4. CASE s[i].policy = p
    <3>1. PICK put : put = Put(s[i].traps, t, cs)
      OBVIOUS
    <3>2. GoodTraps(put) /\ [trap |-> t, containers |-> cs] \in ToSet(put)
      BY <2>1, <3>1, PutSet
    <3>3. put \in Seq(TrapAnnotation) /\ put # <<>>
      BY <3>2, EmptySet DEF GoodTraps
    <3>4. n[i] = [s[i] EXCEPT !.traps = put]
      BY <2>2, <2>4, <3>1
    <3>5. n[i] \in ChangeAnnotation /\ n[i].policy = s[i].policy /\ n[i].traps = put
      BY <2>1, <3>3, <3>4 DEF ChangeAnnotation
    <3> QED BY <2>4, <3>1, <3>2, <3>3, <3>5
  <2> QED BY <2>3, <2>4
<1>3. DOMAIN n = 1..Len(s) /\ n = [i \in 1..Len(s) |-> n[i]]
  BY <1>1 DEF PutInChanges
<1>4. n \in Seq(ChangeAnnotation) /\ Len(n) = Len(s)
  BY <1>1, <1>2, <1>3
<1>5. Touched(s, n, p)
  BY <1>2, <1>4 DEF Touched
<1>6. \A c \in ToSet(n) : c.traps # <<>> /\ GoodTraps(c.traps)
  BY <1>2, <1>4, Members
<1>7. Distinct(n, PolicyOf)
  BY <1>1, <1>5, TouchedDistinct DEF GoodList
<1> QED BY <1>2, <1>4, <1>5, <1>6, <1>7 DEF GoodList

\* UpdateContainersInAnnotations puts the trap into the change of the policy, if there is one.
LEMMA UpdateEffect ==
    ASSUME NEW s, GoodList(s), NEW p \in Policies, NEW t \in Traps, NEW cs \in ContainerLists,
           NEW n, n = UpdateContainersInAnnotations(s, p, t, cs)
    PROVE  /\ GoodList(n) /\ Touched(s, n, p)
           /\ \A q : GetAnnotationChange(n, q) =
                 IF q = p /\ GetAnnotationChange(s, p) # <<>>
                 THEN Put(GetAnnotationChange(s, p), t, cs) ELSE GetAnnotationChange(s, q)
<1>1. s \in Seq(ChangeAnnotation) /\ Distinct(s, PolicyOf) /\ n = PutInChanges(s, p, t, cs)
  BY ParsedList DEF GoodList, UpdateContainersInAnnotations
<1>2. /\ GoodList(n) /\ Touched(s, n, p)
      /\ \A i \in 1..Len(s) : s[i].policy = p => n[i].traps = Put(s[i].traps, t, cs)
  BY <1>1, PutInChangesGood
<1>3. CASE \A c \in ToSet(s) : c.policy # p
  <2>1. GetAnnotationChange(n, p) = <<>> /\ GetAnnotationChange(s, p) = <<>>
    BY <1>1, <1>2, <1>3, TouchedDistinct
  <2> QED BY <1>1, <1>2, <2>1, TouchedDistinct
<1>4. CASE \E c \in ToSet(s) : c.policy = p
  <2>1. PICK i \in 1..Len(s) : s[i].policy = p /\ s[i].traps # <<>>
    BY <1>1, <1>4, Members DEF GoodList
  <2>2. GetAnnotationChange(n, p) = n[i].traps /\ GetAnnotationChange(s, p) = s[i].traps
    BY <1>1, <1>2, <2>1, TouchedDistinct
  <2> QED BY <1>1, <1>2, <2>1, <2>2, TouchedDistinct
<1> QED BY <1>2, <1>3, <1>4

\* Put on no list of traps is the list of the one new entry.
LEMMA PutFirst ==
    ASSUME NEW t, NEW cs
    PROVE  Put(<<>>, t, cs) = <<[trap |-> t, containers |-> cs]>>
<1>1. {i \in 1..Len(<<>>) : <<>>[i].trap = t} = {}
  OBVIOUS
<1>2. SelectInSeq(<<>>, LAMBDA e : e.trap = t) = 0
  BY <1>1 DEF SelectInSeq
<1> QED BY <1>2 DEF Put

\* AddTrapToAnnotations puts the trap into the change of the policy or into a new one.
LEMMA AddEffect ==
    ASSUME NEW s, GoodList(s), NEW p \in Policies, NEW t \in Traps, NEW cs \in ContainerLists,
           NEW n, n = AddTrapToAnnotations(s, p, t, cs)
    PROVE  /\ GoodList(n)
           /\ Keep(n, Others(n, p)) = Keep(s, Others(s, p))
           /\ \A q : GetAnnotationChange(n, q) =
                 IF q = p THEN Put(GetAnnotationChange(s, p), t, cs) ELSE GetAnnotationChange(s, q)
<1>1. /\ s \in Seq(ChangeAnnotation) /\ Distinct(s, PolicyOf) /\ Parsed(s) = s
      /\ DOMAIN s = 1..Len(s)
      /\ \A i \in 1..Len(s) : s[i] \in ToSet(s)
      /\ \A c \in ToSet(s) : c \in ChangeAnnotation /\ \E i \in 1..Len(s) : c = s[i]
  BY ParsedList, Members DEF GoodList
<1>2. CASE \E i \in 1..Len(s) : s[i].policy = p
  <2>1. n = UpdateContainersInAnnotations(s, p, t, cs)
    BY <1>1, <1>2 DEF AddTrapToAnnotations, UpdateContainersInAnnotations
  <2>2. PICK i \in 1..Len(s) : s[i].policy = p
    BY <1>2
  <2>3. GetAnnotationChange(s, p) # <<>>
    BY <1>1, <2>2, GetOnly DEF GoodList
  <2> QED BY <1>1, <2>1, <2>3, UpdateEffect, TouchedKeepsOthers
<1>3. CASE \A i \in 1..Len(s) : s[i].policy # p
  <2>1. PICK c : c = [policy |-> p, traps |-> <<[trap |-> t, containers |-> cs]>>]
    OBVIOUS
  <2>2. n = Append(s, c)
    BY <1>1, <1>3, <2>1 DEF AddTrapToAnnotations
  <2>3. GoodTraps(<<>>) /\ GoodTraps(Put(<<>>, t, cs))
    <3>1. GoodTraps(<<>>)
      BY DEF GoodTraps, Distinct
    <3> QED BY <3>1, PutSet
  <2>4. /\ c.policy = p /\ c.traps = Put(<<>>, t, cs) /\ c.traps # <<>> /\ GoodTraps(c.traps)
    BY <2>1, <2>3, PutFirst
  <2>5. c \in ChangeAnnotation
    BY <2>1, <2>3, PutFirst DEF GoodTraps, ChangeAnnotation
  <2>6. n \in Seq(ChangeAnnotation) /\ ToSet(n) = ToSet(s) \cup {c}
    BY <1>1, <2>2, <2>5, AppendSet
  <2>7. \A d \in ToSet(s) : d.policy # p
    BY <1>1, <1>3
  <2>8. Distinct(n, PolicyOf)
    <3>1. \A d \in ToSet(s) : PolicyOf[d] # PolicyOf[c]
      BY <1>1, <2>4, <2>5, <2>7 DEF PolicyOf
    <3> QED BY <1>1, <2>2, <2>5, <3>1, AppendDistinct
  <2>9. GoodList(n)
    BY <2>4, <2>6, <2>8 DEF GoodList
  <2>10. Others(n, p) = Others(s, p) /\ c \notin Others(s, p)
    BY <2>4, <2>6 DEF Others
  <2>11. Keep(n, Others(n, p)) = Keep(s, Others(s, p))
    BY <1>1, <2>2, <2>5, <2>10, KeepAppend
  <2>12. GetAnnotationChange(s, p) = <<>> /\ GetAnnotationChange(n, p) = c.traps
    <3>1. c \in ToSet(n)
      BY <2>6
    <3> QED BY <1>1, <2>4, <2>6, <2>7, <2>8, <3>1, GetOnly
  <2>13. ASSUME NEW q, q # p PROVE GetAnnotationChange(n, q) = GetAnnotationChange(s, q)
    <3>1. CASE \E d \in ToSet(s) : d.policy = q
      <4>1. PICK d \in ToSet(s) : d.policy = q
        BY <3>1
      <4>2. d \in ToSet(n)
        BY <2>6
      <4> QED BY <1>1, <2>6, <2>8, <4>1, <4>2, GetOnly
    <3>2. CASE \A d \in ToSet(s) : d.policy # q
      <4>1. \A d \in ToSet(n) : d.policy # q
        BY <2>4, <2>6, <2>13, <3>2
      <4> QED BY <1>1, <2>6, <2>8, <3>2, <4>1, GetOnly
    <3> QED BY <3>1, <3>2
  <2> QED BY <2>4, <2>9, <2>11, <2>12, <2>13
<1> QED BY <1>2, <1>3

\* RemoveTrapAnnotations takes the entry out of the change of the policy, and drops the
\* change if nothing is left of it.
LEMMA RemoveEffect ==
    ASSUME NEW s, GoodList(s), NEW p, NEW t, NEW cs \in ContainerLists,
           NEW r, r = RemoveTrapAnnotations(s, p, t, cs)
    PROVE  /\ r = None \/ r \in Seq(ChangeAnnotation)
           /\ GoodList(Parsed(r))
           /\ Keep(Parsed(r), Others(Parsed(r), p)) = Keep(s, Others(s, p))
           /\ \A q : GetAnnotationChange(r, q) =
                 IF q = p THEN Without(GetAnnotationChange(s, p), t, cs)
                 ELSE GetAnnotationChange(s, q)
<1>1. /\ s \in Seq(ChangeAnnotation) /\ Distinct(s, PolicyOf) /\ Parsed(s) = s
      /\ DOMAIN s = 1..Len(s) /\ Len(s) \in Nat
      /\ \A i \in 1..Len(s) : s[i] \in ToSet(s) /\ s[i] \in ChangeAnnotation
      /\ \A c \in ToSet(s) : c \in ChangeAnnotation /\ \E i \in 1..Len(s) : c = s[i]
  BY ParsedList, Members DEF GoodList
<1>2. PICK m : m = [i \in DOMAIN s |-> IF s[i].policy = p
                                      THEN [s[i] EXCEPT !.traps = Without(@, t, cs)] ELSE s[i]]
  OBVIOUS
<1>3. PICK left : left = Keep(m, {change \in ToSet(m) : change.traps # <<>>})
  OBVIOUS
<1>4. r = IF left = <<>> THEN None ELSE left
  BY <1>1, <1>2, <1>3 DEF RemoveTrapAnnotations, Written
<1>5. ASSUME NEW i \in 1..Len(s)
      PROVE  /\ m[i] \in ChangeAnnotation
             /\ m[i].policy = s[i].policy /\ (s[i].policy # p => m[i] = s[i])
             /\ s[i].policy = p => m[i].traps = Without(s[i].traps, t, cs)
             /\ s[i].policy # p => m[i].traps # <<>>
             /\ GoodTraps(m[i].traps)
  <2>1. s[i] \in ChangeAnnotation /\ s[i].traps # <<>> /\ GoodTraps(s[i].traps)
    BY <1>1 DEF GoodList
  <2>2. m[i] = IF s[i].policy = p THEN [s[i] EXCEPT !.traps = Without(s[i].traps, t, cs)] ELSE s[i]
    BY <1>1, <1>2
  <2>3. CASE s[i].policy # p
    BY <2>1, <2>2, <2>3
  <2>4. CASE s[i].policy = p
    <3>1. PICK w : w = Without(s[i].traps, t, cs)
      OBVIOUS
    <3>2. GoodTraps(w)
      BY <2>1, <3>1, WithoutIsRemove
    <3>3. m[i] = [s[i] EXCEPT !.traps = w]
      BY <2>2, <2>4, <3>1
    <3>4. m[i] \in ChangeAnnotation /\ m[i].policy = s[i].policy /\ m[i].traps = w
      BY <2>1, <3>2, <3>3 DEF ChangeAnnotation, GoodTraps
    <3> QED BY <2>4, <3>1, <3>2, <3>4
  <2> QED BY <2>3, <2>4
<1>6. m \in Seq(ChangeAnnotation) /\ Len(m) = Len(s)
  BY <1>1, <1>2, <1>5
<1>7. Touched(s, m, p)
  BY <1>5, <1>6 DEF Touched
<1>8. /\ \A c \in ToSet(m) : c \in ChangeAnnotation /\ GoodTraps(c.traps)
      /\ \A c \in ToSet(m) : c.policy # p => c.traps # <<>>
      /\ Distinct(m, PolicyOf)
  <2>1. \A c \in ToSet(m) : \E i \in 1..Len(s) : c = m[i]
    BY <1>6, Members
  <2> QED BY <1>1, <1>5, <1>7, <2>1, TouchedDistinct
<1>9. left \in Seq(ChangeAnnotation) /\ ToSet(left) = {c \in ToSet(m) : c.traps # <<>>}
  <2>1. left \in Seq(ChangeAnnotation)
        /\ ToSet(left) = ToSet(m) \cap {c \in ToSet(m) : c.traps # <<>>}
    BY <1>3, <1>6, KeepRange
  <2> QED BY <2>1
<1>10. Distinct(left, PolicyOf)
  BY <1>3, <1>6, <1>8, KeepDistinct
<1>11. GoodList(left)
  <2>1. \A c \in ToSet(left) : c \in ToSet(m) /\ c.traps # <<>>
    BY <1>9
  <2>2. \A c \in ToSet(left) : c.traps # <<>> /\ GoodTraps(c.traps)
    BY <1>8, <2>1
  <2> QED BY <1>9, <1>10, <2>2 DEF GoodList
<1>12. Parsed(r) = left /\ (r = None \/ r \in Seq(ChangeAnnotation))
  <2>1. CASE left = <<>>
    BY <1>4, <2>1 DEF Parsed
  <2>2. CASE left # <<>>
    BY <1>4, <1>9, <2>2, ParsedList
  <2> QED BY <2>1, <2>2
<1>13. Keep(left, Others(left, p)) = Keep(s, Others(s, p))
  <2>1. PICK v : v = {c \in ToSet(m) : c.traps # <<>>}
    OBVIOUS
  <2>2. v \cap Others(left, p) = Others(m, p)
    <3>1. \A c : c \in ToSet(left) <=> c \in ToSet(m) /\ c.traps # <<>>
      BY <1>9
    <3>2. \A c : c \in Others(left, p) <=> c \in ToSet(left) /\ c.policy # p
      BY DEF Others
    <3>3. \A c : c \in Others(m, p) <=> c \in ToSet(m) /\ c.policy # p
      BY DEF Others
    <3>4. \A c \in ToSet(m) : c.policy # p => c.traps # <<>>
      BY <1>8
    <3> QED BY <2>1, <3>1, <3>2, <3>3, <3>4
  <2>3. Keep(left, Others(left, p)) = Keep(m, v \cap Others(left, p))
    BY <1>3, <1>6, <2>1, KeepKeep
  <2>4. Keep(m, Others(m, p)) = Keep(s, Others(s, p))
    BY <1>1, <1>7, TouchedKeepsOthers
  <2> QED BY <2>2, <2>3, <2>4
<1>14. ASSUME NEW q PROVE GetAnnotationChange(r, q) = GetAnnotationChange(m, q)
  <2>1. GetAnnotationChange(r, q) = GetAnnotationChange(left, q)
    BY <1>12, GetParsed
  <2>2. CASE \E c \in ToSet(left) : c.policy = q
    <3>1. PICK c \in ToSet(left) : c.policy = q
      BY <2>2
    <3>2. c \in ToSet(m)
      BY <1>9
    <3> QED BY <1>6, <1>8, <1>9, <1>10, <2>1, <3>1, <3>2, GetOnly
  <2>3. CASE \A c \in ToSet(left) : c.policy # q
    <3>1. GetAnnotationChange(left, q) = <<>>
      BY <1>9, <1>10, <2>3, GetOnly
    <3>2. \A c \in ToSet(m) : c.policy = q => c.traps = <<>>
      BY <1>9, <2>3
    <3>3. GetAnnotationChange(m, q) = <<>>
      BY <1>6, <1>8, <3>2, GetOnly
    <3> QED BY <2>1, <3>1, <3>3
  <2> QED BY <2>2, <2>3
<1>15. GetAnnotationChange(m, p) = Without(GetAnnotationChange(s, p), t, cs)
  <2>1. CASE \E i \in 1..Len(s) : s[i].policy = p
    <3>1. PICK i \in 1..Len(s) : s[i].policy = p
      BY <2>1
    <3>2. GetAnnotationChange(m, p) = m[i].traps /\ GetAnnotationChange(s, p) = s[i].traps
      BY <1>1, <1>7, <3>1, TouchedDistinct
    <3> QED BY <1>5, <3>1, <3>2
  <2>2. CASE \A c \in ToSet(s) : c.policy # p
    <3>1. GetAnnotationChange(m, p) = <<>> /\ GetAnnotationChange(s, p) = <<>>
      BY <1>1, <1>7, <2>2, TouchedDistinct
    <3> QED BY <3>1, KeepEmpty DEF Without
  <2> QED BY <1>1, <2>1, <2>2
<1> QED BY <1>1, <1>7, <1>11, <1>12, <1>13, <1>14, <1>15, TouchedDistinct

-----------------------------------------------------------------------------
(* The invariant: at any time the annotation is missing or a good list.    *)

ListInv ==
    /\ changes = None \/ changes \in Seq(ChangeAnnotation)
    /\ GoodList(Parsed(changes))
    /\ seen \in Seen \cup {None}

\* A resource without the annotation satisfies the invariant.
LEMMA InitList == ASSUME Init PROVE ListInv
<1>1. Parsed(changes) = <<>> /\ <<>> \in Seq(ChangeAnnotation)
  BY DEF Init, Parsed
<1>2. GoodList(<<>>)
  BY <1>1, EmptySet DEF GoodList, Distinct
<1> QED BY <1>1, <1>2 DEF Init, ListInv

\* Whatever the arguments, a list that an operation leaves is good, and has the changes
\* of the other policies as they were.
LEMMA OperationsKeep ==
    ASSUME NEW list, list = None \/ list \in Seq(ChangeAnnotation), GoodList(Parsed(list)),
           NEW p \in Policies, NEW t \in Traps, NEW cs \in ContainerLists,
           NEW new, \/ new = AddTrapToAnnotations(list, p, t, cs)
                    \/ new = UpdateContainersInAnnotations(list, p, t, cs)
                    \/ new = RemoveTrapAnnotations(list, p, t, cs)
    PROVE  /\ new = None \/ new \in Seq(ChangeAnnotation)
           /\ GoodList(Parsed(new))
           /\ OthersOf(new, p) = OthersOf(list, p)
<1>1. PICK s : s = Parsed(list)
  OBVIOUS
<1>2. s \in Seq(ChangeAnnotation) /\ Parsed(s) = s /\ GoodList(s)
  BY <1>1, GetParsed, ParsedList
<1>3. OthersOf(list, p) = Keep(s, Others(s, p))
      /\ OthersOf(new, p) = Keep(Parsed(new), Others(Parsed(new), p))
  BY <1>1 DEF OthersOf, Others
<1>4. CASE new = AddTrapToAnnotations(list, p, t, cs)
  <2>1. new = AddTrapToAnnotations(s, p, t, cs)
    BY <1>1, <1>2, <1>4 DEF AddTrapToAnnotations
  <2>2. GoodList(new) /\ Keep(new, Others(new, p)) = Keep(s, Others(s, p))
    BY <1>2, <2>1, AddEffect
  <2>3. new \in Seq(ChangeAnnotation)
    BY <2>2 DEF GoodList
  <2> QED BY <1>3, <2>2, <2>3, ParsedList
<1>5. CASE new = UpdateContainersInAnnotations(list, p, t, cs)
  <2>1. new = UpdateContainersInAnnotations(s, p, t, cs)
    BY <1>1, <1>2, <1>5 DEF UpdateContainersInAnnotations
  <2>2. GoodList(new) /\ Touched(s, new, p)
    BY <1>2, <2>1, UpdateEffect
  <2>3. new \in Seq(ChangeAnnotation)
    BY <2>2 DEF GoodList
  <2> QED BY <1>2, <1>3, <2>2, <2>3, ParsedList, TouchedKeepsOthers
<1>6. CASE new = RemoveTrapAnnotations(list, p, t, cs)
  <2>1. new = RemoveTrapAnnotations(s, p, t, cs)
    BY <1>1, <1>2, <1>6 DEF RemoveTrapAnnotations
  <2> QED BY <1>2, <1>3, <2>1, RemoveEffect
<1> QED BY <1>4, <1>5, <1>6

\* A step keeps the list good, and for some policy the changes of all others.
LEMMA NextList ==
    ASSUME ListInv, [Next]_vars
    PROVE  /\ ListInv'
           /\ \/ changes' = changes
              \/ \E p \in Policies : OthersOf(changes', p) = OthersOf(changes, p)
<1>1. CASE UNCHANGED vars
  BY <1>1 DEF vars, ListInv, Parsed
<1>2. ASSUME NEW p \in Policies, NEW t \in Traps, NEW cs \in ContainerLists, DeployDecoy(p, t, cs)
      PROVE  ListInv' /\ OthersOf(changes', p) = OthersOf(changes, p)
  <2>1. changes' = AddTrapToAnnotations(changes, p, t, cs) /\ seen' = seen
    BY <1>2 DEF DeployDecoy
  <2>2. (changes = None \/ changes \in Seq(ChangeAnnotation)) /\ GoodList(Parsed(changes))
    BY DEF ListInv
  <2>3. /\ changes' = None \/ changes' \in Seq(ChangeAnnotation)
        /\ GoodList(Parsed(changes'))
        /\ OthersOf(changes', p) = OthersOf(changes, p)
    BY <2>1, <2>2, OperationsKeep
  <2> QED BY <2>1, <2>3 DEF ListInv, Parsed
<1>3. ASSUME NEW p \in Policies, NEW i \in 1..Cardinality(Traps), StartRemoveDecoy(p, i)
      PROVE  ListInv' /\ changes' = changes
  <2>1. changes' = changes
    BY <1>3 DEF StartRemoveDecoy
  <2>2. seen' \in Seen
    <3>1. PICK traps : traps = GetAnnotationChange(changes, p)
      OBVIOUS
    <3>2. GoodTraps(traps)
      BY <3>1, GetParsed, GetGood DEF ListInv
    <3>3. i \in DOMAIN traps
          /\ seen' = [policy |-> p, trap |-> traps[i].trap, containers |-> traps[i].containers]
      BY <1>3, <3>1 DEF StartRemoveDecoy
    <3>4. traps[i] \in TrapAnnotation
      BY <3>2, <3>3 DEF GoodTraps
    <3> QED BY <3>3, <3>4 DEF TrapAnnotation, Seen
  <2> QED BY <2>1, <2>2 DEF ListInv, Parsed
<1>4. ASSUME NEW failed \in SUBSET Containers, FinishRemoveDecoy(failed)
      PROVE  ListInv' /\ \E p \in Policies : OthersOf(changes', p) = OthersOf(changes, p)
  <2>1. seen \in Seen /\ seen' = None /\ failed \subseteq ToSet(seen.containers)
    BY <1>4 DEF FinishRemoveDecoy, ListInv
  <2>2. seen.policy \in Policies /\ seen.trap \in Traps /\ seen.containers \in ContainerLists
    BY <2>1 DEF Seen
  <2>3. PICK cs : cs = Keep(seen.containers, failed)
    OBVIOUS
  <2>4. failed # {} => cs \in ContainerLists
    <3> SUFFICES ASSUME failed # {} PROVE cs \in ContainerLists
      OBVIOUS
    <3>1. seen.containers \in Seq(Containers)
      BY <2>2, ListsOfContainers
    <3>2. ToSet(cs) = ToSet(seen.containers) \cap failed
      BY <2>3, <3>1, KeepRange
    <3>3. cs # <<>>
      BY <2>1, <3>2, EmptySet
    <3> QED BY <2>2, <2>3, <3>3, ListsOfContainers
  <2>5. \/ changes' = RemoveTrapAnnotations(changes, seen.policy, seen.trap, seen.containers)
        \/ /\ cs \in ContainerLists
           /\ changes' = UpdateContainersInAnnotations(changes, seen.policy, seen.trap, cs)
    BY <1>4, <2>3, <2>4 DEF FinishRemoveDecoy
  <2>6. /\ changes' = None \/ changes' \in Seq(ChangeAnnotation)
        /\ GoodList(Parsed(changes'))
        /\ OthersOf(changes', seen.policy) = OthersOf(changes, seen.policy)
    <3>1. (changes = None \/ changes \in Seq(ChangeAnnotation)) /\ GoodList(Parsed(changes))
      BY DEF ListInv
    <3> QED BY <2>2, <2>5, <3>1, OperationsKeep
  <2> QED BY <2>1, <2>2, <2>6 DEF ListInv, Parsed
<1> QED BY <1>1, <1>2, <1>3, <1>4 DEF Next, vars

\* The invariant says that the list is well formed.
LEMMA GoodIsWellFormed == ListInv => WellFormed
<1> SUFFICES ASSUME ListInv PROVE WellFormed
  OBVIOUS
<1>1. PICK s : s = Parsed(changes)
  OBVIOUS
<1>2. GoodList(s) /\ s \in Seq(ChangeAnnotation) /\ DOMAIN s = 1..Len(s)
  BY <1>1 DEF ListInv, GoodList
<1>3. \A i \in 1..Len(s) : s[i] \in ChangeAnnotation /\ s[i] \in ToSet(s)
  BY <1>2, Members
<1>4. IsInjective([i \in DOMAIN s |-> s[i].policy])
  BY <1>2, <1>3 DEF GoodList, Distinct, PolicyOf, IsInjective
<1>5. ASSUME NEW i \in 1..Len(s)
      PROVE  /\ s[i].traps # <<>>
             /\ \A j \in DOMAIN s[i].traps : s[i].traps[j] \in TrapAnnotation
             /\ IsInjective([j \in DOMAIN s[i].traps |-> s[i].traps[j].trap])
  <2>1. PICK traps : traps = s[i].traps
    OBVIOUS
  <2>2. traps # <<>> /\ GoodTraps(traps)
    BY <1>2, <1>3, <2>1 DEF GoodList
  <2>3. /\ traps \in Seq(TrapAnnotation) /\ DOMAIN traps = 1..Len(traps)
        /\ \A j \in 1..Len(traps) : traps[j] \in TrapAnnotation
    BY <2>2 DEF GoodTraps
  <2>4. IsInjective([j \in DOMAIN traps |-> traps[j].trap])
    BY <2>2, <2>3 DEF GoodTraps, Distinct, TrapOf, IsInjective
  <2> QED BY <2>1, <2>2, <2>3, <2>4
<1> QED BY <1>1, <1>2, <1>4, <1>5 DEF WellFormed, ListInv

-----------------------------------------------------------------------------
(* The list seen as a function.                                            *)

\* AsFunction is what the change of a policy says of each trap.
LEMMA AsFunctionOf ==
    ASSUME NEW list
    PROVE  AsFunction(list) =
             [q \in Policies |-> [u \in Traps |-> Of(GetAnnotationChange(list, q), u)]]
BY DEF AsFunction, Of

\* A policy is annotated when it has a change, which is never empty.
LEMMA AnnotatedIsChanged ==
    ASSUME NEW s, GoodList(s), NEW p \in Policies
    PROVE  IsAnnotated(AsFunction(s), p) <=> GetAnnotationChange(s, p) # <<>>
<1>1. PICK traps : traps = GetAnnotationChange(s, p)
  OBVIOUS
<1>2. GoodTraps(traps)
  BY <1>1, GetGood
<1>3. IsAnnotated(AsFunction(s), p) <=> \E u \in Traps : Of(traps, u) # {}
  BY <1>1, AsFunctionOf DEF IsAnnotated
<1>4. CASE traps = <<>>
  <2>1. \A u \in Traps : Of(traps, u) = {}
    BY <1>4, EmptySet, OfAbsent
  <2> QED BY <1>1, <1>3, <1>4, <2>1
<1>5. CASE traps # <<>>
  <2>1. traps \in Seq(TrapAnnotation) /\ 1 \in 1..Len(traps)
    BY <1>2, <1>5 DEF GoodTraps
  <2>2. PICK e : e = traps[1]
    OBVIOUS
  <2>3. e \in ToSet(traps) /\ e \in TrapAnnotation
    BY <2>1, <2>2, Members
  <2>4. e.trap \in Traps /\ e.containers \in ContainerLists
    BY <2>3 DEF TrapAnnotation
  <2>5. Of(traps, e.trap) # {}
    BY <1>2, <2>3, <2>4, OfEntry, ListsOfContainers
  <2> QED BY <1>1, <1>3, <1>5, <2>4, <2>5
<1> QED BY <1>4, <1>5

\* Two annotations are the same when they say the same of every trap.
LEMMA SameAnnotation ==
    ASSUME NEW list, NEW ann, ann = [q \in Policies |-> [u \in Traps |-> ann[q][u]]],
           \A q \in Policies, u \in Traps : Of(GetAnnotationChange(list, q), u) = ann[q][u]
    PROVE  AsFunction(list) = ann
BY AsFunctionOf

\* On a good list the operations are those of module Annotations.
LEMMA OperationsAreThose ==
    ASSUME NEW s, GoodList(s), NEW p \in Policies, NEW t \in Traps, NEW cs \in ContainerLists,
           NEW ann, ann = AsFunction(s)
    PROVE  /\ AsFunction(AddTrapToAnnotations(s, p, t, cs)) = AddTrap(ann, p, t, ToSet(cs))
           /\ AsFunction(UpdateContainersInAnnotations(s, p, t, cs))
                = UpdateContainers(ann, p, t, ToSet(cs))
           /\ AsFunction(RemoveTrapAnnotations(s, p, t, cs))
                = IF Reordered(s, p, t, cs) THEN ann ELSE RemoveTrap(ann, p, t, ToSet(cs))
<1>1. /\ ann = [q \in Policies |-> [u \in Traps |-> ann[q][u]]]
      /\ \A q \in Policies, u \in Traps : Of(GetAnnotationChange(s, q), u) = ann[q][u]
  BY AsFunctionOf
<1>2. PICK put : put = [ann EXCEPT ![p][t] = ToSet(cs)]
  OBVIOUS
<1>3. /\ put = [q \in Policies |-> [u \in Traps |-> put[q][u]]]
      /\ \A q \in Policies, u \in Traps :
            put[q][u] = IF q = p /\ u = t THEN ToSet(cs) ELSE ann[q][u]
  BY <1>1, <1>2
<1>4. PICK traps : traps = GetAnnotationChange(s, p)
  OBVIOUS
<1>5. GoodTraps(traps) /\ \A u \in Traps : Of(traps, u) = ann[p][u]
  BY <1>1, <1>4, GetGood
<1>6. \A u : Of(Put(traps, t, cs), u) = IF u = t THEN ToSet(cs) ELSE Of(traps, u)
  BY <1>5, PutIsSet
<1>7. AsFunction(AddTrapToAnnotations(s, p, t, cs)) = AddTrap(ann, p, t, ToSet(cs))
  <2>1. PICK n : n = AddTrapToAnnotations(s, p, t, cs)
    OBVIOUS
  <2>2. \A q : GetAnnotationChange(n, q) =
              IF q = p THEN Put(traps, t, cs) ELSE GetAnnotationChange(s, q)
    BY <1>4, <2>1, AddEffect
  <2>3. \A q \in Policies, u \in Traps : Of(GetAnnotationChange(n, q), u) = put[q][u]
    BY <1>1, <1>3, <1>5, <1>6, <2>2
  <2>4. AsFunction(n) = put
    BY <1>3, <2>3, SameAnnotation
  <2> QED BY <1>2, <2>1, <2>4 DEF AddTrap
<1>8. AsFunction(UpdateContainersInAnnotations(s, p, t, cs))
         = UpdateContainers(ann, p, t, ToSet(cs))
  <2>1. PICK n : n = UpdateContainersInAnnotations(s, p, t, cs)
    OBVIOUS
  <2>2. \A q : GetAnnotationChange(n, q) =
              IF q = p /\ traps # <<>> THEN Put(traps, t, cs) ELSE GetAnnotationChange(s, q)
    BY <1>4, <2>1, UpdateEffect
  <2>3. IsAnnotated(ann, p) <=> traps # <<>>
    BY <1>4, AnnotatedIsChanged
  <2>4. CASE traps # <<>>
    <3>1. \A q \in Policies, u \in Traps : Of(GetAnnotationChange(n, q), u) = put[q][u]
      BY <1>1, <1>3, <1>5, <1>6, <2>2, <2>4
    <3>2. AsFunction(n) = put
      BY <1>3, <3>1, SameAnnotation
    <3> QED BY <1>2, <2>1, <2>3, <2>4, <3>2 DEF UpdateContainers
  <2>5. CASE traps = <<>>
    <3>1. \A q \in Policies, u \in Traps : Of(GetAnnotationChange(n, q), u) = ann[q][u]
      BY <1>1, <2>2, <2>5
    <3>2. AsFunction(n) = ann
      BY <1>1, <3>1, SameAnnotation
    <3> QED BY <2>1, <2>3, <2>5, <3>2 DEF UpdateContainers
  <2> QED BY <2>4, <2>5
<1>9. AsFunction(RemoveTrapAnnotations(s, p, t, cs))
         = IF Reordered(s, p, t, cs) THEN ann ELSE RemoveTrap(ann, p, t, ToSet(cs))
  <2>1. PICK n : n = RemoveTrapAnnotations(s, p, t, cs)
    OBVIOUS
  <2>2. \A q : GetAnnotationChange(n, q) =
              IF q = p THEN Without(traps, t, cs) ELSE GetAnnotationChange(s, q)
    BY <1>4, <2>1, RemoveEffect
  <2>3. \A u : Of(Without(traps, t, cs), u) =
              IF u = t /\ ~Other(traps, t, cs) THEN {} ELSE Of(traps, u)
    BY <1>5, WithoutIsRemove
  <2>4. Other(traps, t, cs)
           <=> \/ Of(traps, t) # {} /\ Of(traps, t) # ToSet(cs)
               \/ Reordered(s, p, t, cs)
    BY <1>4, <1>5, OtherTells DEF Reordered
  <2>5. CASE Reordered(s, p, t, cs)
    <3>1. \A q \in Policies, u \in Traps : Of(GetAnnotationChange(n, q), u) = ann[q][u]
      BY <1>1, <1>5, <2>2, <2>3, <2>4, <2>5
    <3>2. AsFunction(n) = ann
      BY <1>1, <3>1, SameAnnotation
    <3> QED BY <2>1, <2>5, <3>2
  <2>6. CASE ~Reordered(s, p, t, cs)
    <3>1. PICK r : r = RemoveTrap(ann, p, t, ToSet(cs))
      OBVIOUS
    <3>2. /\ r = [q \in Policies |-> [u \in Traps |-> r[q][u]]]
          /\ \A q \in Policies, u \in Traps :
                r[q][u] = IF q = p /\ u = t /\ ann[p][t] = ToSet(cs) THEN {} ELSE ann[q][u]
      BY <1>1, <3>1 DEF RemoveTrap
    <3>3. ASSUME NEW q \in Policies, NEW u \in Traps
          PROVE  Of(GetAnnotationChange(n, q), u) = r[q][u]
      <4>1. CASE q # p
        BY <1>1, <2>2, <3>2, <4>1
      <4>2. CASE q = p
        BY <1>5, <2>2, <2>3, <2>4, <2>6, <3>2, <4>2
      <4> QED BY <4>1, <4>2
    <3>4. AsFunction(n) = r
      BY <3>2, <3>3, SameAnnotation
    <3> QED BY <2>1, <2>6, <3>1, <3>4
  <2> QED BY <2>5, <2>6
<1> QED BY <1>7, <1>8, <1>9

\* The invariant says that the operations agree.
LEMMA GoodAgrees == ListInv => OperationsAgree
<1> SUFFICES ASSUME ListInv, NEW p \in Policies, NEW t \in Traps, NEW cs \in ContainerLists
             PROVE  /\ AsFunction(AddTrapToAnnotations(changes, p, t, cs))
                          = AddTrap(AsFunction(changes), p, t, ToSet(cs))
                    /\ AsFunction(UpdateContainersInAnnotations(changes, p, t, cs))
                          = UpdateContainers(AsFunction(changes), p, t, ToSet(cs))
                    /\ AsFunction(RemoveTrapAnnotations(changes, p, t, cs))
                          = IF Reordered(changes, p, t, cs) THEN AsFunction(changes)
                            ELSE RemoveTrap(AsFunction(changes), p, t, ToSet(cs))
  BY DEF OperationsAgree
<1>1. PICK s : s = Parsed(changes)
  OBVIOUS
<1>2. GoodList(s) /\ s \in Seq(ChangeAnnotation) /\ Parsed(s) = s
  BY <1>1, ParsedList DEF ListInv, GoodList
<1>3. AsFunction(changes) = AsFunction(s)
  BY <1>1, GetParsed, AsFunctionOf DEF ListInv
<1>4. /\ AddTrapToAnnotations(changes, p, t, cs) = AddTrapToAnnotations(s, p, t, cs)
      /\ UpdateContainersInAnnotations(changes, p, t, cs)
            = UpdateContainersInAnnotations(s, p, t, cs)
      /\ RemoveTrapAnnotations(changes, p, t, cs) = RemoveTrapAnnotations(s, p, t, cs)
  BY <1>1, <1>2 DEF AddTrapToAnnotations, UpdateContainersInAnnotations, RemoveTrapAnnotations
<1>5. Reordered(changes, p, t, cs) <=> Reordered(s, p, t, cs)
  BY <1>1, GetParsed DEF Reordered, ListInv
<1> QED BY <1>2, <1>3, <1>4, <1>5, OperationsAreThose

\* What the models of the reconciler take a removal for.
RemovalAgrees ==
    \A p \in Policies, t \in Traps, cs \in ContainerLists :
       AsFunction(RemoveTrapAnnotations(changes, p, t, cs))
          = RemoveTrap(AsFunction(changes), p, t, ToSet(cs))

\* With one order there is no other one.
LEMMA OneOrderAgrees == OneOrder /\ ListInv => RemovalAgrees
<1> SUFFICES ASSUME OneOrder, ListInv, NEW p \in Policies, NEW t \in Traps,
                    NEW cs \in ContainerLists
             PROVE  ~Reordered(changes, p, t, cs)
  BY GoodAgrees DEF OperationsAgree, RemovalAgrees
<1>1. PICK traps : traps = GetAnnotationChange(changes, p)
  OBVIOUS
<1>2. GoodTraps(traps)
  BY <1>1, GetParsed, GetGood DEF ListInv
<1>3. ASSUME NEW e \in ToSet(traps), ToSet(e.containers) = ToSet(cs) PROVE e.containers = cs
  <2>1. e \in TrapAnnotation
    BY <1>2, Members DEF GoodTraps
  <2>2. e.containers \in ContainerLists
    BY <2>1 DEF TrapAnnotation
  <2> QED BY <1>3, <2>2, ListsInOneOrder
<1> QED BY <1>1, <1>3 DEF Reordered

-----------------------------------------------------------------------------
(* The theorems.                                                           *)

\* Whatever the order in which decoys are put and removed, also by steps that read the
\* annotation before it changed, the list of changes is either missing or well formed.
THEOREM ListInvariant == Spec => []ListInv
<1>1. Init => ListInv
  BY InitList
<1>2. ASSUME ListInv, [Next]_vars PROVE ListInv'
  BY <1>2, NextList
<1> QED BY <1>1, <1>2, PTL DEF Spec

\* The list never has two changes of a policy, two entries of a trap or a change without
\* traps: AddTrapToAnnotations and GetAnnotationChange, which stop at the first match,
\* overlook nothing.
THEOREM ListIsWellFormed == Spec => []WellFormed
BY ListInvariant, GoodIsWellFormed, PTL

\* On every such list, for any orders in which containers are recorded, the operations of
\* the annotations package do what the operators of module Annotations say, but a trap
\* stays when its containers were recorded in another order than the caller has read.
THEOREM ListActsAsFunction == Spec => []OperationsAgree
BY ListInvariant, GoodAgrees, PTL

\* Where containers have one order, as in a pod, the operations do exactly what those
\* operators say, with which the models of the reconciler are built.
THEOREM OneOrderActsAsFunction ==
    ASSUME OneOrder
    PROVE  Spec => [](OperationsAgree /\ RemovalAgrees)
<1>1. ListInv => OperationsAgree /\ RemovalAgrees
  BY GoodAgrees, OneOrderAgrees
<1> QED BY <1>1, ListInvariant, PTL

\* A step for one policy leaves the changes of all others, and their order.
THEOREM OthersAlwaysKept == Spec => OthersKept
<1>1. ListInv /\ [Next]_vars
        => [\E p \in Policies : OthersOf(changes', p) = OthersOf(changes, p)]_vars
  <2> SUFFICES ASSUME ListInv, [Next]_vars, ~UNCHANGED vars
               PROVE  \E p \in Policies : OthersOf(changes', p) = OthersOf(changes, p)
    OBVIOUS
  <2>1. CASE changes' = changes
    <3>1. PICK p \in Policies : TRUE
      BY DEF Next, FinishRemoveDecoy, ListInv, Seen
    <3> QED BY <2>1, <3>1
  <2>2. CASE changes' # changes
    BY <2>2, NextList
  <2> QED BY <2>1, <2>2
<1> QED BY <1>1, ListInvariant, PTL DEF Spec, OthersKept
=============================================================================
