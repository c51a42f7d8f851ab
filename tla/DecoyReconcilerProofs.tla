----------------------- MODULE DecoyReconcilerProofs -----------------------
(***************************************************************************)
(* Proofs about the decoy reconciler, for every set of policies, pods,     *)
(* containers, traps and specs, any budget, and, where it is not said      *)
(* otherwise, every behaviour of the environment, stale caches included.   *)
(***************************************************************************)
EXTENDS DecoyProperties, FiniteSetTheorems, TLAPS

-----------------------------------------------------------------------------
(* The operators on annotations.                                           *)

\* What the reconciler records is an annotation again.
LEMMA AnnotationOps ==
    ASSUME NEW ann \in Annotation, NEW p \in Policies, NEW t \in Traps,
           NEW cs \in SUBSET Containers
    PROVE  /\ AddTrap(ann, p, t, cs) \in Annotation
           /\ UpdateContainers(ann, p, t, cs) \in Annotation
           /\ RemoveTrap(ann, p, t, cs) \in Annotation
BY DEF Annotation, AddTrap, UpdateContainers, RemoveTrap

\* It differs from the old one at most in the entry of the policy.
LEMMA AnnotationFrame ==
    ASSUME NEW ann \in Annotation, NEW p \in Policies, NEW q \in Policies, p # q,
           NEW t \in Traps, NEW cs \in SUBSET Containers
    PROVE  /\ AddTrap(ann, p, t, cs)[q] = ann[q]
           /\ UpdateContainers(ann, p, t, cs)[q] = ann[q]
           /\ RemoveTrap(ann, p, t, cs)[q] = ann[q]
BY DEF Annotation, AddTrap, UpdateContainers, RemoveTrap

-----------------------------------------------------------------------------
(* Types.                                                                  *)

\* The condition that the worker writes has natural numbers in its message.
LEMMA StatusType == TypeOK => NewStatus \in Status
<1> SUFFICES ASSUME TypeOK PROVE NewStatus \in Status
  OBVIOUS
<1>1. \A r : With(r) \in Nat
  <2> TAKE r
  <2>1. IsFiniteSet({t \in Traps : res[t] = r})
    BY TrapsAssumption, FS_Subset, Zenon
  <2> QED BY <2>1, FS_CardinalityType DEF With
<1>2. With("ok") \in Nat /\ With("ok") + With("fail") \in Nat
  BY <1>1
<1>3. ValidReason \in Validity
  BY DEF ValidReason, Validity
<1>4. DecoysReason \in Reasons
  BY DEF DecoysReason, Reasons
<1> QED BY <1>2, <1>3, <1>4 DEF NewStatus, Status

\* What is stored under an unused name is an object too.
LEMMA EmptyObjects == NoPolicy \in PolicyObject /\ NoPod \in PodObject
BY DEF NoPolicy, NoPod, PolicyObject, PodObject, NoAnnotation, Annotation

\* The initial state is well typed.
LEMMA InitType == Init => TypeOK
<1> SUFFICES ASSUME Init PROVE TypeOK
  OBVIOUS
<1>1. ObjectTypes
  BY EmptyObjects DEF Init, ObjectTypes
<1>2. FileTypes
  BY DEF Init, FileTypes
<1>3. RequestTypes
  BY EmptyObjects DEF Init, RequestTypes, ErrorKinds, Results
<1>4. QueueTypes /\ ItemTypes /\ BudgetTypes
  BY DEF Init, QueueTypes, ItemTypes, BudgetTypes
<1> QED BY <1>1, <1>2, <1>3, <1>4 DEF TypeOK

\* What a step leaves to itself keeps its types.
LEMMA TypesStable ==
    /\ ObjectTypes /\ UNCHANGED <<apiVars, cacheVars, freshVars>> => ObjectTypes'
    /\ FileTypes /\ UNCHANGED file => FileTypes'
    /\ QueueTypes /\ UNCHANGED queueVars => QueueTypes'
    /\ RequestTypes /\ ItemTypes /\ UNCHANGED localVars => RequestTypes' /\ ItemTypes'
    /\ BudgetTypes /\ UNCHANGED budgets => BudgetTypes'
BY DEF ObjectTypes, FileTypes, QueueTypes, RequestTypes, ItemTypes, BudgetTypes,
       apiVars, cacheVars, freshVars, queueVars, localVars, budgets

\* Writes to the API server.
LEMMA WritePolicyTypes ==
    ASSUME ObjectTypes, NEW p, NEW o \in PolicyObject, NEW e \in BOOLEAN,
           WritePolicy(p, o, e), UNCHANGED <<pod, podFresh, cacheVars>>
    PROVE  ObjectTypes'
BY DEF ObjectTypes, WritePolicy, cacheVars

\* So does a write of a pod.
LEMMA WritePodTypes ==
    ASSUME ObjectTypes, NEW d, NEW o \in PodObject,
           WritePod(d, o), UNCHANGED <<policy, polEvent, polFresh, cacheVars>>
    PROVE  ObjectTypes'
BY DEF ObjectTypes, WritePod, cacheVars

\* The end of a request.
LEMMA ForgetTypes == ForgetRequest => RequestTypes' /\ ItemTypes'
BY EmptyObjects DEF ForgetRequest, RequestTypes, ItemTypes, ErrorKinds, Results

\* The end of Reconcile leaves the worker and the queues well typed.
LEMMA ReturnTypes ==
    ASSUME QueueTypes, RequestTypes, pc # "idle", NEW again,
           Return(again), queue' = queue
    PROVE  RequestTypes' /\ ItemTypes' /\ QueueTypes'
BY ForgetTypes DEF Return, RequestTypes, QueueTypes

-----------------------------------------------------------------------------
(* Type correctness of a step.                                             *)

\* Users change one policy or one pod and nothing else.
LEMMA UserTypes == TypeOK /\ UserStep => TypeOK'
<1> SUFFICES ASSUME TypeOK, UserStep PROVE TypeOK'
  OBVIOUS
<1> USE DEF TypeOK
<1>1. ASSUME NEW p \in Policies, NEW s \in Specs, EditPolicy(p, s) PROVE TypeOK'
  <2> DEFINE o == [policy[p] EXCEPT !.spec = s]
  <2>1. o \in PolicyObject
    BY <1>1, EmptyObjects DEF ObjectTypes, PolicyObject, EditPolicy
  <2>2. ObjectTypes'
    BY <1>1, <2>1, WritePolicyTypes DEF EditPolicy
  <2>3. BudgetTypes'
    BY <1>1 DEF EditPolicy, Edit, BudgetTypes
  <2> QED BY <1>1, <2>2, <2>3, TypesStable DEF EditPolicy
<1>2. ASSUME NEW p \in Policies, NEW s \in Specs, NEW canon \in BOOLEAN, CreatePolicy(p, s, canon) PROVE TypeOK'
  <2> DEFINE o == [phase |-> "live", fin |-> FALSE, spec |-> s, canon |-> canon,
                  old |-> {d \in Pods : pod[d].phase # "unborn"}, status |-> None]
  <2>1. o \in PolicyObject
    BY <1>2, EmptyObjects DEF ObjectTypes, PolicyObject, CreatePolicy
  <2>2. ObjectTypes'
    BY <1>2, <2>1, WritePolicyTypes DEF CreatePolicy
  <2>3. BudgetTypes'
    BY <1>2 DEF CreatePolicy, Edit, BudgetTypes
  <2> QED BY <1>2, <2>2, <2>3, TypesStable DEF CreatePolicy
<1>3. ASSUME NEW p \in Policies, DeletePolicy(p) PROVE TypeOK'
  <2> DEFINE o == IF policy[p].fin THEN [policy[p] EXCEPT !.phase = "deleting"] ELSE NoPolicy
  <2>1. o \in PolicyObject
    BY <1>3, EmptyObjects DEF ObjectTypes, PolicyObject, DeletePolicy
  <2>2. ObjectTypes'
    BY <1>3, <2>1, WritePolicyTypes DEF DeletePolicy
  <2>3. BudgetTypes'
    BY <1>3 DEF DeletePolicy, Edit, BudgetTypes
  <2> QED BY <1>3, <2>2, <2>3, TypesStable DEF DeletePolicy
<1>4. ASSUME NEW d \in Pods, NEW labelled \in BOOLEAN, CreatePod(d, labelled) PROVE TypeOK'
  <2> DEFINE o == [NoPod EXCEPT !.phase = "live", !.labelled = labelled]
  <2>1. o \in PodObject
    BY <1>4, EmptyObjects DEF ObjectTypes, PodObject, CreatePod
  <2>2. ObjectTypes'
    BY <1>4, <2>1, WritePodTypes DEF CreatePod
  <2>3. BudgetTypes'
    BY <1>4 DEF CreatePod, Edit, BudgetTypes
  <2> QED BY <1>4, <2>2, <2>3, TypesStable DEF CreatePod
<1>5. ASSUME NEW d \in Pods, LabelPod(d) PROVE TypeOK'
  <2> DEFINE o == [pod[d] EXCEPT !.labelled = ~@]
  <2>1. o \in PodObject
    BY <1>5, EmptyObjects DEF ObjectTypes, PodObject, LabelPod
  <2>2. ObjectTypes'
    BY <1>5, <2>1, WritePodTypes DEF LabelPod
  <2>3. BudgetTypes'
    BY <1>5 DEF LabelPod, Edit, BudgetTypes
  <2> QED BY <1>5, <2>2, <2>3, TypesStable DEF LabelPod
<1>6. ASSUME NEW d \in Pods, DeletePod(d) PROVE TypeOK'
  <2> DEFINE o == [NoPod EXCEPT !.phase = "gone"]
  <2>1. o \in PodObject
    BY <1>6, EmptyObjects DEF ObjectTypes, PodObject, DeletePod
  <2>2. ObjectTypes'
    BY <1>6, <2>1, WritePodTypes DEF DeletePod
  <2>3. BudgetTypes'
    BY <1>6 DEF DeletePod, Edit, BudgetTypes
  <2>4. FileTypes'
    BY <1>6 DEF DeletePod, FileTypes
  <2> QED BY <1>6, <2>2, <2>3, <2>4, TypesStable DEF DeletePod
<1> QED BY <1>1, <1>2, <1>3, <1>4, <1>5, <1>6 DEF UserStep

\* The kubelet and the faults of containers.
LEMMA ContainerTypes ==
    ASSUME TypeOK, NEW d \in Pods, NEW c \in Containers,
           Start(d, c) \/ Unready(d, c) \/ RestartContainer(d, c)
    PROVE  TypeOK'
<1> USE DEF TypeOK
<1>1. \A s \in {"down", "up", "ready"} : [pod[d] EXCEPT !.run[c] = s] \in PodObject
  BY DEF ObjectTypes, PodObject
<1>2. CASE Start(d, c)
  <2>1. ObjectTypes'
    BY <1>1, <1>2, WritePodTypes DEF Start
  <2> QED BY <1>2, <2>1, TypesStable DEF Start
<1>3. CASE Unready(d, c)
  <2>1. ObjectTypes'
    BY <1>1, <1>3, WritePodTypes DEF Unready
  <2>2. BudgetTypes'
    BY <1>3 DEF Unready, Fault, BudgetTypes
  <2> QED BY <1>3, <2>1, <2>2, TypesStable DEF Unready
<1>4. CASE RestartContainer(d, c)
  <2>1. ObjectTypes'
    BY <1>1, <1>4, WritePodTypes DEF RestartContainer
  <2>2. BudgetTypes' /\ FileTypes'
    BY <1>4 DEF RestartContainer, Fault, BudgetTypes, FileTypes
  <2> QED BY <1>4, <2>1, <2>2, TypesStable DEF RestartContainer
<1> QED BY <1>2, <1>3, <1>4

\* Informers, timers and the start of a request.
LEMMA ControllerTypes ==
    ASSUME TypeOK, InformerStep \/ (\E p \in Policies : FireTimer(p) \/ Fetch(p))
    PROVE  TypeOK'
<1> USE DEF TypeOK
<1>1. ASSUME NEW p \in Policies, SyncPolicy(p) PROVE TypeOK'
  <2>1. ObjectTypes' /\ QueueTypes'
    BY <1>1 DEF SyncPolicy, ObjectTypes, QueueTypes
  <2> QED BY <1>1, <2>1, TypesStable DEF SyncPolicy
<1>2. ASSUME NEW d \in Pods, SyncPod(d) PROVE TypeOK'
  <2>1. ObjectTypes' /\ QueueTypes'
    BY <1>2 DEF SyncPod, ObjectTypes, QueueTypes, apiVars
  <2> QED BY <1>2, <2>1, TypesStable DEF SyncPod
<1>3. ASSUME NEW p \in Policies, FireTimer(p) PROVE TypeOK'
  <2>1. QueueTypes'
    BY <1>3 DEF FireTimer, QueueTypes
  <2> QED BY <1>3, <2>1, TypesStable DEF FireTimer
<1>4. ASSUME NEW p \in Policies, Fetch(p) PROVE TypeOK'
  <2>1. QueueTypes'
    BY <1>4 DEF Fetch, QueueTypes
  <2>2. RequestTypes' /\ ItemTypes'
    <3>1. CASE UNCHANGED localVars
      BY <3>1, TypesStable
    <3>2. CASE ~UNCHANGED localVars
      <4>1. /\ cur' = p /\ goal' = cpolicy[p] /\ finalizing' \in BOOLEAN
            /\ pc' \in {"list", "adopt"}
            /\ UNCHANGED <<todo, work, item, left, acc, err, res>>
        BY <1>4, <3>2 DEF Fetch
      <4>2. cpolicy[p] \in PolicyObject /\ p # None
        BY NoneAssumption DEF ObjectTypes
      <4>3. item = None
        BY <1>4 DEF Fetch, ItemTypes
      <4> QED BY <4>1, <4>2, <4>3 DEF RequestTypes, ItemTypes
    <3> QED BY <3>1, <3>2
  <2> QED BY <1>4, <2>1, <2>2, TypesStable DEF Fetch
<1> QED BY <1>1, <1>2, <1>3, <1>4 DEF InformerStep

\* The item in progress, and what the worker writes into the annotation for it.
LEMMA ItemType ==
    ASSUME TypeOK, item # None
    PROVE  /\ item \in WorkItem /\ item \in work /\ pc \in {"remove", "deploy"}
           /\ cur \in Policies
           /\ \A ann \in Annotation : Recorded(ann) \in Annotation
<1>1. item \in WorkItem /\ item \in work /\ pc \in {"remove", "deploy"} /\ cur \in Policies
  BY DEF TypeOK, ItemTypes, RequestTypes
<1>2. /\ item.pod \in Pods /\ item.trap \in Traps /\ item.conts \in SUBSET Containers
      /\ acc \in SUBSET Containers /\ item.conts \ acc \in SUBSET Containers
  BY <1>1 DEF WorkItem, TypeOK, ItemTypes
<1>3. \A ann \in Annotation : Recorded(ann) \in Annotation
  BY <1>1, <1>2, AnnotationOps DEF Recorded
<1> QED BY <1>1, <1>3

\* Steps that only move the worker: the program counter, the traps and decoys
\* to do, and the results.
LEMMA RaiseTypes ==
    ASSUME TypeOK, item # None, NEW kind \in ErrorKinds, Raise(kind)
    PROVE  err' \in ErrorKinds /\ res' \in [Traps -> Results]
<1>1. item.trap \in Traps
  BY ItemType DEF WorkItem
<1> QED BY <1>1 DEF Raise, JoinErr, ErrorKinds, Results, TypeOK, RequestTypes

\* The commands and the records of one item.
LEMMA ExecTypes ==
    ASSUME TypeOK, NEW c \in Containers,
           ExecOk(c) \/ ExecUnreachable(c) \/ ExecFails(c) \/ ExecHalfDone(c)
    PROVE  TypeOK'
<1> USE DEF TypeOK
<1>1. item # None /\ c \in left /\ left' = left \ {c}
  BY DEF ExecOk, ExecUnreachable, ExecFails, ExecHalfDone
<1>2. item \in WorkItem
  BY <1>1, ItemType
<1>3. Effect(c) => FileTypes'
  <2> DEFINE v == IF pc = "remove" THEN None ELSE item.trap
             x == PathOf[item.trap]
  <2>1. v \in Traps \cup {None}
    BY <1>2 DEF WorkItem
  <2>2. ASSUME FileTypes, NEW d, file' = [file EXCEPT ![d][c][x] = v] PROVE FileTypes'
    <3> HIDE DEF v, x
    <3>1. \A r \in [Containers -> [Paths -> Traps \cup {None}]] :
             [r EXCEPT ![c][x] = v] \in [Containers -> [Paths -> Traps \cup {None}]]
      BY <2>1
    <3> QED BY <2>2, <3>1 DEF FileTypes
  <2> QED BY <2>2 DEF Effect
<1>4. Fault => BudgetTypes'
  BY DEF Fault, BudgetTypes
<1>5. "plain" \in ErrorKinds /\ "notfound" \in ErrorKinds
  BY DEF ErrorKinds
<1>6. UNCHANGED <<pc, cur, goal, finalizing, todo, work, item>>
  BY DEF ExecOk, ExecUnreachable, ExecFails, ExecHalfDone
<1>7. ASSUME err' \in ErrorKinds, res' \in [Traps -> Results], acc' \subseteq Containers
      PROVE  RequestTypes' /\ ItemTypes'
  BY <1>1, <1>6, <1>7 DEF RequestTypes, ItemTypes
<1>8. CASE ExecOk(c)
  <2>1. RequestTypes' /\ ItemTypes'
    BY <1>7, <1>8 DEF ExecOk, RequestTypes, ItemTypes
  <2> QED BY <1>3, <1>8, <2>1, TypesStable DEF ExecOk
<1>9. CASE ExecUnreachable(c)
  <2>1. RequestTypes' /\ ItemTypes'
    <3>1. err' \in ErrorKinds /\ res' \in [Traps -> Results]
      BY <1>1, <1>5, <1>9, RaiseTypes DEF ExecUnreachable
    <3> QED BY <1>7, <1>9, <3>1 DEF ExecUnreachable, ItemTypes
  <2> QED BY <1>9, <2>1, TypesStable DEF ExecUnreachable
<1>10. CASE ExecFails(c)
  <2>1. RequestTypes' /\ ItemTypes'
    <3>1. err' \in ErrorKinds /\ res' \in [Traps -> Results]
      BY <1>1, <1>5, <1>10, RaiseTypes DEF ExecFails
    <3> QED BY <1>7, <1>10, <3>1 DEF ExecFails, ItemTypes
  <2> QED BY <1>4, <1>10, <2>1, TypesStable DEF ExecFails
<1>11. CASE ExecHalfDone(c)
  <2>1. RequestTypes' /\ ItemTypes'
    <3>1. err' \in ErrorKinds /\ res' \in [Traps -> Results]
      BY <1>1, <1>5, <1>11, RaiseTypes DEF ExecHalfDone
    <3> QED BY <1>7, <1>11, <3>1 DEF ExecHalfDone, ItemTypes
  <2> QED BY <1>3, <1>4, <1>11, <2>1, TypesStable DEF ExecHalfDone
<1> QED BY <1>8, <1>9, <1>10, <1>11

\* The steps that end an item.
LEMMA RecordTypes == TypeOK /\ (SkipRecord \/ Annotate \/ AnnotateFails) => TypeOK'
<1> SUFFICES ASSUME TypeOK, SkipRecord \/ Annotate \/ AnnotateFails PROVE TypeOK'
  OBVIOUS
<1> USE DEF TypeOK
<1>1. item # None /\ NextItem /\ UNCHANGED <<pc, cur, goal, finalizing, todo>>
  BY DEF SkipRecord, Annotate, AnnotateFails, MustRecord
<1>2. ItemTypes'
  BY <1>1 DEF NextItem, ItemTypes
<1>3. ASSUME err' \in ErrorKinds, res' \in [Traps -> Results] PROVE RequestTypes'
  BY <1>1, <1>3 DEF RequestTypes
<1>4. CASE SkipRecord
  BY <1>2, <1>3, <1>4, TypesStable DEF SkipRecord, RequestTypes
<1>5. CASE Annotate
  <2> DEFINE o == [cpod[item.pod] EXCEPT !.ann = Recorded(@)]
  <2>1. o \in PodObject
    <3>1. cpod[item.pod] \in PodObject
      BY <1>1, ItemType DEF WorkItem, ObjectTypes
    <3>2. Recorded(cpod[item.pod].ann) \in Annotation
      BY <1>1, <3>1, ItemType DEF PodObject
    <3> QED BY <3>1, <3>2 DEF PodObject
  <2>2. ObjectTypes'
    BY <1>5, <2>1, WritePodTypes DEF Annotate
  <2> QED BY <1>2, <1>3, <1>5, <2>2, TypesStable DEF Annotate, RequestTypes
<1>6. CASE AnnotateFails
  <2>1. err' \in ErrorKinds /\ res' \in [Traps -> Results]
    BY <1>1, <1>6, RaiseTypes DEF AnnotateFails, ErrorKinds
  <2> QED BY <1>2, <1>3, <1>6, <2>1, TypesStable DEF AnnotateFails
<1> QED BY <1>4, <1>5, <1>6

\* The steps that choose what to do next.
LEMMA PlanTypes ==
    ASSUME TypeOK, \/ ListAnnotated \/ (\E w \in work : StartItem(w))
                   \/ FinishRemoval \/ (\E t \in Traps : MatchTrap(t)) \/ FinishDeploy
    PROVE  TypeOK'
<1> USE DEF TypeOK
<1>1. CASE ListAnnotated
  <2>1. RequestTypes' /\ ItemTypes'
    <3>1. item = None /\ item' = None
      BY <1>1 DEF ListAnnotated, ItemTypes
    <3> QED BY <1>1, <3>1 DEF ListAnnotated, RequestTypes, ItemTypes
  <2> QED BY <1>1, <2>1, TypesStable DEF ListAnnotated
<1>2. ASSUME NEW w \in work, StartItem(w) PROVE TypeOK'
  <2>1. w \in WorkItem
    BY DEF ItemTypes
  <2>2. RequestTypes' /\ ItemTypes'
    BY <1>2, <2>1 DEF StartItem, RequestTypes, ItemTypes, WorkItem
  <2> QED BY <1>2, <2>2, TypesStable DEF StartItem
<1>3. CASE FinishRemoval
  <2>1. pc' \in {"release", "status", "deploy"} /\ todo' \subseteq Traps
    BY <1>3, TrapsAssumption DEF FinishRemoval, RequestTypes
  <2>2. UNCHANGED <<cur, goal, finalizing, work, item, left, acc, err, res>> /\ item = None
    BY <1>3 DEF FinishRemoval
  <2>3. cur # None
    BY <1>3 DEF FinishRemoval, RequestTypes
  <2>4. RequestTypes' /\ ItemTypes'
    BY <2>1, <2>2, <2>3 DEF RequestTypes, ItemTypes
  <2> QED BY <1>3, <2>4, TypesStable DEF FinishRemoval
<1>4. ASSUME NEW t \in Traps, MatchTrap(t) PROVE TypeOK'
  <2>1. Outcome(t) \in Results
    BY DEF Outcome, Results
  <2>2. item = None
    BY <1>4 DEF MatchTrap, ItemTypes
  <2>3. RequestTypes'
    BY <1>4, <2>1 DEF MatchTrap, RequestTypes
  <2>4. ItemTypes'
    BY <1>4, <2>2 DEF MatchTrap, ItemTypes
  <2> QED BY <1>4, <2>3, <2>4, TypesStable DEF MatchTrap
<1>5. CASE FinishDeploy
  <2>1. RequestTypes' /\ ItemTypes'
    BY <1>5 DEF FinishDeploy, RequestTypes, ItemTypes
  <2> QED BY <1>5, <2>1, TypesStable DEF FinishDeploy
<1> QED BY <1>1, <1>2, <1>3, <1>4, <1>5

\* The steps that write the policy or end the request.
LEMMA ReturnStepTypes ==
    ASSUME TypeOK, \/ PutFinalizer \/ PutFinalizerFails \/ AbortRemoval
                   \/ ReleasePolicy \/ ReleaseConflict
                   \/ UpdateStatus \/ UpdateStatusFails
    PROVE  TypeOK'
<1> USE DEF TypeOK
<1>1. pc # "idle" => cur \in Policies
  BY DEF RequestTypes
<1>2. CASE PutFinalizer
  <2> DEFINE o == [cpolicy[cur] EXCEPT !.fin = TRUE, !.canon = TRUE]
  <2>1. o \in PolicyObject
    BY <1>1, <1>2 DEF PutFinalizer, ObjectTypes, PolicyObject
  <2>2. ObjectTypes'
    <3> DEFINE e == ~cpolicy[cur].canon
    <3>1. CASE UNCHANGED <<policy, polEvent, polFresh>>
      BY <1>2, <3>1, TypesStable DEF PutFinalizer, apiVars, freshVars
    <3>2. CASE WritePolicy(cur, o, e)
      <4>1. WritePolicy(cur, o, e) /\ UNCHANGED <<pod, podFresh, cacheVars>>
        BY <1>2, <3>2 DEF PutFinalizer
      <4>2. e \in BOOLEAN
        OBVIOUS
      <4> HIDE DEF o, e
      <4> QED BY <2>1, <4>1, <4>2, WritePolicyTypes
    <3> QED BY <1>2, <3>1, <3>2 DEF PutFinalizer
  <2>3. RequestTypes' /\ ItemTypes' /\ QueueTypes'
    BY <1>2, ReturnTypes DEF PutFinalizer
  <2> QED BY <1>2, <2>2, <2>3, TypesStable DEF PutFinalizer
<1>3. CASE PutFinalizerFails \/ ReleaseConflict \/ UpdateStatusFails
  <2>1. RequestTypes' /\ ItemTypes' /\ QueueTypes'
    BY <1>3, ReturnTypes DEF PutFinalizerFails, ReleaseConflict, UpdateStatusFails
  <2> QED BY <1>3, <2>1, TypesStable DEF PutFinalizerFails, ReleaseConflict, UpdateStatusFails
<1>4. CASE AbortRemoval
  <2>1. RequestTypes' /\ ItemTypes' /\ QueueTypes'
    <3>1. CASE finalizing
      BY <1>4, <3>1, ReturnTypes DEF AbortRemoval
    <3>2. CASE ~finalizing
      BY <1>4, <3>2 DEF AbortRemoval, RequestTypes, ItemTypes, QueueTypes
    <3> QED BY <3>1, <3>2
  <2> QED BY <1>4, <2>1, TypesStable DEF AbortRemoval
<1>5. CASE ReleasePolicy
  <2>1. WithoutFinalizer(cpolicy[cur]) \in PolicyObject
    BY <1>1, <1>5, EmptyObjects DEF ReleasePolicy, WithoutFinalizer, ObjectTypes, PolicyObject
  <2>2. ObjectTypes'
    <3>1. CASE UNCHANGED <<policy, polEvent, polFresh>>
      BY <1>5, <3>1, TypesStable DEF ReleasePolicy, apiVars, freshVars
    <3>2. CASE WritePolicy(cur, WithoutFinalizer(cpolicy[cur]), TRUE)
      BY <1>5, <2>1, <3>2, WritePolicyTypes DEF ReleasePolicy
    <3> QED BY <1>5, <3>1, <3>2 DEF ReleasePolicy
  <2>3. RequestTypes' /\ ItemTypes' /\ QueueTypes'
    BY <1>5, ReturnTypes DEF ReleasePolicy
  <2> QED BY <1>5, <2>2, <2>3, TypesStable DEF ReleasePolicy
<1>6. CASE UpdateStatus
  <2> DEFINE o == [cpolicy[cur] EXCEPT !.status = NewStatus]
  <2>1. o \in PolicyObject
    BY <1>1, <1>6, StatusType DEF UpdateStatus, ObjectTypes, PolicyObject
  <2>2. ObjectTypes'
    <3>1. CASE UNCHANGED <<policy, polEvent, polFresh>>
      BY <1>6, <3>1, TypesStable DEF UpdateStatus, apiVars, freshVars
    <3>2. CASE WritePolicy(cur, o, FALSE)
      BY <1>6, <2>1, <3>2, WritePolicyTypes DEF UpdateStatus
    <3> QED BY <1>6, <3>1, <3>2 DEF UpdateStatus
  <2>3. RequestTypes' /\ ItemTypes' /\ QueueTypes'
    BY <1>6, ReturnTypes DEF UpdateStatus
  <2> QED BY <1>6, <2>2, <2>3, TypesStable DEF UpdateStatus
<1> QED BY <1>2, <1>3, <1>4, <1>5, <1>6

\* A restart of the controller.
LEMMA CrashTypes == TypeOK /\ Crash => TypeOK'
<1> SUFFICES ASSUME TypeOK, Crash PROVE TypeOK'
  OBVIOUS
<1> USE DEF TypeOK
<1>1. ObjectTypes'
  BY DEF Crash, ObjectTypes
<1>2. QueueTypes' /\ BudgetTypes'
  BY DEF Crash, QueueTypes, BudgetTypes, Fault
<1>3. RequestTypes' /\ ItemTypes'
  BY ForgetTypes DEF Crash
<1> QED BY <1>1, <1>2, <1>3, TypesStable DEF Crash

\* All steps together.
LEMMA StepTypes == TypeOK /\ [Next]_vars => TypeOK'
<1> SUFFICES ASSUME TypeOK, [Next]_vars PROVE TypeOK'
  OBVIOUS
<1>1. CASE UNCHANGED vars
  BY <1>1, TypesStable DEF TypeOK, vars
<1>2. CASE FaultStep \/ KubeletStep
  BY <1>2, ContainerTypes, ExecTypes, CrashTypes DEF FaultStep, KubeletStep
<1>3. CASE WorkerStep
  BY <1>3, ReturnStepTypes, PlanTypes, ExecTypes, RecordTypes DEF WorkerStep
<1> QED BY <1>1, <1>2, <1>3, UserTypes, ControllerTypes DEF Next

\* Every variable keeps its type, whatever the environment does.
THEOREM TypeCorrect == Spec => []TypeOK
BY InitType, StepTypes, PTL DEF Spec

-----------------------------------------------------------------------------
(* The writes of the worker: optimistic concurrency protects what others    *)
(* wrote to the same objects, for every environment, stale caches included. *)

-----------------------------------------------------------------------------
(* Coherence: a copy that is not stale is equal to the object.             *)

Coherent ==
    /\ \A p \in Policies : polFresh[p] => cpolicy[p] = policy[p]
    /\ \A d \in Pods : podFresh[d] => cpod[d] = pod[d]

\* A write of a policy, of a pod, and a step that writes neither, keep the caches
\* coherent.
LEMMA CoherentWritePolicy ==
    ASSUME TypeOK, Coherent, NEW p, NEW o, NEW e,
           WritePolicy(p, o, e), UNCHANGED <<pod, podFresh, cacheVars>>
    PROVE  Coherent'
BY DEF TypeOK, ObjectTypes, Coherent, WritePolicy, cacheVars

\* The same for a write of a pod.
LEMMA CoherentWritePod ==
    ASSUME TypeOK, Coherent, NEW d, NEW o,
           WritePod(d, o), UNCHANGED <<policy, polEvent, polFresh, cacheVars>>
    PROVE  Coherent'
BY DEF TypeOK, ObjectTypes, Coherent, WritePod, cacheVars

\* The same for a step that writes nothing.
LEMMA CoherentStable ==
    ASSUME Coherent, UNCHANGED <<apiVars, cacheVars, freshVars>>
    PROVE  Coherent'
BY DEF Coherent, apiVars, cacheVars, freshVars

\* Every step writes one policy, writes one pod, refreshes a copy, or leaves
\* objects and copies alone.
LEMMA CoherentStep == TypeOK /\ Coherent /\ [Next]_vars => Coherent'
<1> SUFFICES ASSUME TypeOK, Coherent, [Next]_vars PROVE Coherent'
  OBVIOUS
<1>1. CASE UserStep
  BY <1>1, CoherentWritePolicy, CoherentWritePod
     DEF UserStep, CreatePolicy, EditPolicy, DeletePolicy, CreatePod, LabelPod, DeletePod
<1>2. ASSUME NEW d \in Pods, NEW c \in Containers,
             Start(d, c) \/ Unready(d, c) \/ RestartContainer(d, c)
      PROVE  Coherent'
  BY <1>2, CoherentWritePod DEF Start, Unready, RestartContainer
<1>3. CASE InformerStep
  BY <1>3 DEF InformerStep, SyncPolicy, SyncPod, Coherent, TypeOK, ObjectTypes, apiVars
<1>4. CASE Crash
  BY <1>4 DEF Crash, Coherent
<1>5. ASSUME NEW p \in Policies, FireTimer(p) \/ Fetch(p) PROVE Coherent'
  BY <1>5, CoherentStable DEF FireTimer, Fetch
<1>6. ASSUME NEW c \in Containers,
             ExecOk(c) \/ ExecUnreachable(c) \/ ExecFails(c) \/ ExecHalfDone(c)
      PROVE  Coherent'
  BY <1>6, CoherentStable DEF ExecOk, ExecUnreachable, ExecFails, ExecHalfDone
<1>7. CASE PutFinalizer \/ ReleasePolicy \/ UpdateStatus
  <2>1. \/ UNCHANGED <<apiVars, cacheVars, freshVars>>
        \/ /\ \E o, e : WritePolicy(cur, o, e)
           /\ UNCHANGED <<pod, podFresh, cacheVars>>
    BY <1>7 DEF PutFinalizer, ReleasePolicy, UpdateStatus, apiVars, freshVars
  <2> QED BY <2>1, CoherentWritePolicy, CoherentStable
<1>8. CASE Annotate
  BY <1>8, CoherentWritePod DEF Annotate
<1>9. CASE \/ PutFinalizerFails \/ ListAnnotated \/ \E w \in work : StartItem(w)
           \/ SkipRecord \/ AnnotateFails \/ AbortRemoval \/ FinishRemoval \/ ReleaseConflict
           \/ (\E t \in Traps : MatchTrap(t)) \/ FinishDeploy \/ UpdateStatusFails
  BY <1>9, CoherentStable
     DEF PutFinalizerFails, ListAnnotated, StartItem, SkipRecord, AnnotateFails,
         AbortRemoval, FinishRemoval, ReleaseConflict, MatchTrap, FinishDeploy,
         UpdateStatusFails
<1>10. CASE UNCHANGED vars
  BY <1>10, CoherentStable DEF vars
<1> QED BY <1>1, <1>2, <1>3, <1>4, <1>5, <1>6, <1>7, <1>8, <1>9, <1>10
        DEF Next, FaultStep, KubeletStep, WorkerStep

\* Empty caches of an empty cluster are coherent.
LEMMA CoherentInit == Init => Coherent
BY DEF Init, Coherent

\* A cached copy that counts as current equals the object in the API server, so
\* that a write which the API server accepts starts from what is stored there
\* (the informer caches behind r.Get, and Update with a resourceVersion).
THEOREM CachesCohere == Spec => []Coherent
BY CoherentInit, CoherentStep, TypeCorrect, PTL DEF Spec

-----------------------------------------------------------------------------
(* Who writes what.                                                        *)

\* Besides users only three actions write policies.
LEMMA PolicyWriters ==
    ASSUME TypeOK, Next
    PROVE  \/ edits' # edits \/ UNCHANGED policy
           \/ PutFinalizer \/ ReleasePolicy \/ UpdateStatus
<1>1. Edit => edits' # edits
  BY DEF Edit, TypeOK, BudgetTypes
<1>2. UserStep => Edit
  BY DEF UserStep, EditPolicy, CreatePolicy, DeletePolicy, CreatePod, LabelPod, DeletePod
<1>3. FaultStep \/ KubeletStep \/ InformerStep => UNCHANGED policy
  BY DEF FaultStep, KubeletStep, InformerStep, Unready, RestartContainer, ExecFails,
         ExecHalfDone, Crash, Start, SyncPolicy, SyncPod, apiVars
<1>4. (\E p \in Policies : FireTimer(p) \/ Fetch(p)) => UNCHANGED policy
  BY DEF FireTimer, Fetch, apiVars
<1>5. WorkerStep => UNCHANGED policy \/ PutFinalizer \/ ReleasePolicy \/ UpdateStatus
  BY DEF WorkerStep, PutFinalizerFails, ListAnnotated, StartItem, ExecOk, ExecUnreachable,
         SkipRecord, Annotate, AnnotateFails, AbortRemoval, FinishRemoval, ReleaseConflict,
         MatchTrap, FinishDeploy, UpdateStatusFails, apiVars
<1> QED BY <1>1, <1>2, <1>3, <1>4, <1>5 DEF Next

\* Besides users and the kubelet only one action writes pods.
KubeletWrite(d) ==
    \E c \in Containers : Start(d, c) \/ Unready(d, c) \/ RestartContainer(d, c)

\* The steps that change pods.
LEMMA PodWriters ==
    ASSUME Next
    PROVE  \/ UNCHANGED pod \/ Annotate
           \/ \E d \in Pods : \/ (\E b \in BOOLEAN : CreatePod(d, b)) \/ LabelPod(d)
                              \/ DeletePod(d) \/ KubeletWrite(d)
<1>1. UserStep => \/ UNCHANGED pod
                  \/ \E d \in Pods : \/ (\E b \in BOOLEAN : CreatePod(d, b))
                                     \/ LabelPod(d) \/ DeletePod(d)
  BY DEF UserStep, EditPolicy, CreatePolicy, DeletePolicy
<1>2. FaultStep \/ KubeletStep => UNCHANGED pod \/ \E d \in Pods : KubeletWrite(d)
  BY DEF FaultStep, KubeletStep, KubeletWrite, ExecFails, ExecHalfDone, Crash, apiVars
<1>3. InformerStep \/ (\E p \in Policies : FireTimer(p) \/ Fetch(p)) => UNCHANGED pod
  BY DEF InformerStep, SyncPolicy, SyncPod, FireTimer, Fetch, apiVars
<1>4. WorkerStep => UNCHANGED pod \/ Annotate
  BY DEF WorkerStep, PutFinalizer, PutFinalizerFails, ListAnnotated, StartItem, ExecOk,
         ExecUnreachable, SkipRecord, AnnotateFails, AbortRemoval, FinishRemoval,
         ReleasePolicy, ReleaseConflict, MatchTrap, FinishDeploy, UpdateStatus,
         UpdateStatusFails, apiVars
<1> QED BY <1>1, <1>2, <1>3, <1>4 DEF Next

-----------------------------------------------------------------------------
(* Theorems.                                                               *)

\* The annotation write of Annotate starts from the current pod and changes one
\* entry of it.
LEMMA AnnotateFrame ==
    ASSUME TypeOK, Coherent, Annotate
    PROVE  /\ item.pod \in Pods /\ OnlyItsEntry(item.pod)
           /\ \A d \in Pods : d # item.pod => pod'[d] = pod[d]
<1> DEFINE e == item.pod
<1>1. /\ item # None /\ pod' = [pod EXCEPT ![e] = [cpod[e] EXCEPT !.ann = Recorded(@)]]
      /\ podFresh[e]
  BY DEF Annotate, MustRecord, WritePod
<1>2. item \in WorkItem /\ e \in Pods /\ cur \in Policies
  BY <1>1, ItemType DEF WorkItem
<1>3. cpod[e] = pod[e] /\ pod[e] \in PodObject /\ pod \in [Pods -> PodObject]
  BY <1>1, <1>2 DEF Coherent, TypeOK, ObjectTypes
<1>4. pod'[e] = [pod[e] EXCEPT !.ann = Recorded(pod[e].ann)]
  BY <1>1, <1>2, <1>3
<1>5. pod'[e].ann = Recorded(pod[e].ann)
  BY <1>3, <1>4 DEF PodObject
<1>6. \A p \in Policies : p # cur => Recorded(pod[e].ann)[p] = pod[e].ann[p]
  <2>1. item.trap \in Traps /\ item.conts \in SUBSET Containers /\ acc \in SUBSET Containers
    BY <1>2 DEF WorkItem, TypeOK, ItemTypes
  <2>2. item.conts \ acc \in SUBSET Containers /\ pod[e].ann \in Annotation
    BY <1>3, <2>1 DEF PodObject
  <2> QED BY <1>2, <2>1, <2>2, AnnotationFrame DEF Recorded
<1>7. OnlyItsEntry(e)
  BY <1>4, <1>5, <1>6 DEF OnlyItsEntry
<1>8. \A d \in Pods : d # e => pod'[d] = pod[d]
  BY <1>1, <1>3
<1> QED BY <1>2, <1>7, <1>8

\* No annotation write of the reconciler, not even one prepared from a stale
\* cache, undoes a change of a label, of the state of a container or of the
\* entry of another policy.
THEOREM NoUpdateIsLost == Spec => NoLostUpdate
<1>1. TypeOK /\ Coherent /\ [Next]_vars
        => [\A d \in Pods :
              Live(d) /\ pod'[d].phase = "live" /\ pod'[d].ann # pod[d].ann
                 => OnlyItsEntry(d)]_vars
  <2> SUFFICES ASSUME TypeOK, Coherent, Next, NEW d \in Pods,
                      Live(d), pod'[d].phase = "live", pod'[d].ann # pod[d].ann
               PROVE  OnlyItsEntry(d)
    OBVIOUS
  <2>1. CASE Annotate
    BY <2>1, AnnotateFrame
  <2>2. ASSUME NEW e \in Pods,
               \/ \E b \in BOOLEAN : CreatePod(e, b)
               \/ LabelPod(e) \/ DeletePod(e) \/ KubeletWrite(e)
        PROVE  FALSE
    <3>1. pod \in [Pods -> PodObject]
      BY DEF TypeOK, ObjectTypes
    <3>2. \A o : WritePod(e, o) => pod'[d] = IF d = e THEN o ELSE pod[d]
      BY <3>1 DEF WritePod
    <3>3. CASE \E b \in BOOLEAN : CreatePod(e, b)
      BY <3>2, <3>3 DEF CreatePod, Live
    <3>4. CASE LabelPod(e)
      BY <3>1, <3>2, <3>4 DEF LabelPod, PodObject
    <3>5. CASE DeletePod(e)
      BY <3>2, <3>5 DEF DeletePod, NoPod
    <3>6. CASE KubeletWrite(e)
      <4>1. PICK c \in Containers : Start(e, c) \/ Unready(e, c) \/ RestartContainer(e, c)
        BY <3>6 DEF KubeletWrite
      <4>2. \A s : [pod[e] EXCEPT !.run[c] = s].ann = pod[e].ann
        BY <3>1 DEF PodObject
      <4>3. \E s : pod' = [pod EXCEPT ![e] = [pod[e] EXCEPT !.run[c] = s]]
        BY <4>1 DEF Start, Unready, RestartContainer, WritePod
      <4> QED BY <3>1, <4>2, <4>3
    <3> QED BY <2>2, <3>3, <3>4, <3>5, <3>6
  <2> QED BY <2>1, <2>2, PodWriters
<1> QED BY <1>1, TypeCorrect, CachesCohere, PTL DEF Spec, NoLostUpdate

\* The finalizer and the status that the worker writes never bring back an old
\* spec, never revive a deleted policy and never remove one that is wanted.
THEOREM UsersWin == Spec => UserWins
<1>1. TypeOK /\ Coherent /\ [Next]_vars
        => [edits' = edits => \A p \in Policies : KeepsTheUsersWord(p)]_vars
  <2> SUFFICES ASSUME TypeOK, Coherent, Next, edits' = edits, NEW p \in Policies
               PROVE  KeepsTheUsersWord(p)
    OBVIOUS
  <2>1. policy \in [Policies -> PolicyObject] /\ (pc # "idle" => cur \in Policies)
    BY DEF TypeOK, ObjectTypes, RequestTypes
  <2>2. \A o, e : WritePolicy(cur, o, e) => policy'[p] = IF p = cur THEN o ELSE policy[p]
    BY <2>1 DEF WritePolicy
  <2>3. CASE UNCHANGED policy
    BY <2>3 DEF KeepsTheUsersWord
  <2>4. CASE PutFinalizer
    <3> DEFINE e == ~cpolicy[cur].canon
    <3>1. CASE /\ polFresh[cur]
               /\ WritePolicy(cur, [cpolicy[cur] EXCEPT !.fin = TRUE, !.canon = TRUE], e)
      <4>1. cur \in Policies /\ cpolicy[cur] = policy[cur]
        BY <2>1, <2>4, <3>1 DEF PutFinalizer, Coherent
      <4> DEFINE o == [policy[cur] EXCEPT !.fin = TRUE, !.canon = TRUE]
      <4>2. o.spec = policy[cur].spec /\ o.phase = policy[cur].phase
        BY <2>1, <4>1 DEF PolicyObject
      <4>3. WritePolicy(cur, o, e)
        BY <3>1, <4>1
      <4> HIDE DEF o
      <4> QED BY <2>2, <4>2, <4>3 DEF KeepsTheUsersWord
    <3> QED BY <2>3, <2>4, <3>1 DEF PutFinalizer
  <2>5. CASE ReleasePolicy
    <3>1. CASE WritePolicy(cur, WithoutFinalizer(cpolicy[cur]), TRUE) /\ polFresh[cur]
      <4>1. cur \in Policies /\ cpolicy[cur] = policy[cur]
        BY <2>1, <2>5, <3>1 DEF ReleasePolicy, Coherent
      <4> DEFINE o == WithoutFinalizer(policy[cur])
      <4>2. \/ o.spec = policy[cur].spec /\ o.phase = policy[cur].phase
            \/ policy[cur].phase = "deleting" /\ o.phase = "absent"
        BY <2>1, <4>1 DEF PolicyObject, WithoutFinalizer, NoPolicy
      <4>3. WritePolicy(cur, o, TRUE)
        BY <3>1, <4>1
      <4> HIDE DEF o
      <4> QED BY <2>2, <4>2, <4>3 DEF KeepsTheUsersWord
    <3> QED BY <2>3, <2>5, <3>1 DEF ReleasePolicy
  <2>6. CASE UpdateStatus
    <3>1. CASE polFresh[cur] /\ WritePolicy(cur, [cpolicy[cur] EXCEPT !.status = NewStatus], FALSE)
      <4>1. cur \in Policies /\ cpolicy[cur] = policy[cur]
        BY <2>1, <2>6, <3>1 DEF UpdateStatus, Coherent
      <4> DEFINE o == [policy[cur] EXCEPT !.status = NewStatus]
      <4>2. o.spec = policy[cur].spec /\ o.phase = policy[cur].phase
        BY <2>1, <4>1 DEF PolicyObject
      <4>3. WritePolicy(cur, o, FALSE)
        BY <3>1, <4>1
      <4> HIDE DEF o
      <4> QED BY <2>2, <4>2, <4>3 DEF KeepsTheUsersWord
    <3> QED BY <2>3, <2>6, <3>1 DEF UpdateStatus
  <2> QED BY <2>3, <2>4, <2>5, <2>6, PolicyWriters
<1> QED BY <1>1, TypeCorrect, CachesCohere, PTL DEF Spec, UserWins

-----------------------------------------------------------------------------
(* The finalizer guards the decoys, in every instance whose worker reads   *)
(* caches that are current, over crashes, failing commands, vanishing pods *)
(* and everything else that the environment may do.  (With stale caches it *)
(* is false, as a run shows.)  From the same invariant: a rotation never   *)
(* leaves two versions of a decoy recorded, and the reconciler implements  *)
(* the ledger.                                                             *)

(* FinalizerGuards is not inductive.  The step that could break it is the  *)
(* removal of the finalizer, which is right because no decoy of the policy *)
(* is recorded any more, because every recorded one was in the list of the *)
(* clean-up and left that list only after it had left the annotation.      *)

\* A worker that is past putFinalizer works for a policy with the finalizer.
WorksUnderGuard == pc \notin {"idle", "adopt"} => Guarded(cur)

\* The list of decoys to remove agrees with the annotations.
ListAgrees ==
    pc = "remove" => \A w \in work :
        /\ w.already = {} /\ pod[w.pod].phase # "unborn"
        /\ Live(w.pod) => OnPod(w.pod, cur)[w.trap] = w.conts

\* As long as there was no error, rm has run in every container but the ones
\* that are left.
NoneSkipped == pc = "remove" /\ item # None /\ err = "none" => left \cup acc = item.conts

\* As long as there was no error, the list of a clean-up is complete.
Listed(d, t) == \E w \in work : w.pod = d /\ w.trap = t
ListComplete ==
    pc \in {"remove", "release"} /\ err = "none"
       => \A d \in Pods, t \in Traps :
             Live(d) /\ OnPod(d, cur)[t] # {} /\ Unwanted(t) => Listed(d, t)

\* The finalizer is removed after the list has been worked off.
ReleaseAtTheEnd == pc = "release" => finalizing /\ work = {} /\ err = "none"

GuardInv == /\ FinalizerGuards /\ WorksUnderGuard /\ ListAgrees
            /\ NoneSkipped /\ ListComplete /\ ReleaseAtTheEnd

-----------------------------------------------------------------------------
(* What steps do to guards and to recorded decoys.                         *)

\* Only ReleasePolicy lifts a guard.
LEMMA GuardsStay ==
    ASSUME TypeOK, Coherent, [Next]_vars, ~ReleasePolicy, NEW p \in Policies, Guarded(p)
    PROVE  Guarded(p)'
<1>1. policy \in [Policies -> PolicyObject] /\ (pc # "idle" => cur \in Policies)
  BY DEF TypeOK, ObjectTypes, RequestTypes
<1>2. \A q, o, e : WritePolicy(q, o, e) => policy'[p] = IF p = q THEN o ELSE policy[p]
  BY <1>1 DEF WritePolicy
<1>3. CASE UNCHANGED policy
  BY <1>3 DEF Guarded
<1>4. CASE UserStep
  <2>1. ASSUME NEW q \in Policies, NEW s \in Specs, EditPolicy(q, s) PROVE Guarded(p)'
    <3> DEFINE o == [policy[q] EXCEPT !.spec = s]
    <3>1. o.phase = policy[q].phase /\ o.fin = policy[q].fin
      BY <1>1 DEF PolicyObject
    <3>2. WritePolicy(q, o, TRUE)
      BY <2>1 DEF EditPolicy
    <3>3. policy'[p] = IF p = q THEN o ELSE policy[p]
      BY <1>2, <3>2
    <3> HIDE DEF o
    <3> QED BY <3>1, <3>3 DEF Guarded
  <2>2. ASSUME NEW q \in Policies, NEW s \in Specs, NEW b \in BOOLEAN, CreatePolicy(q, s, b)
        PROVE  Guarded(p)'
    <3>1. p # q /\ policy' = [policy EXCEPT ![q] = policy'[q]]
      BY <1>1, <2>2 DEF CreatePolicy, WritePolicy, Guarded
    <3> QED BY <1>1, <3>1 DEF Guarded
  <2>3. ASSUME NEW q \in Policies, DeletePolicy(q) PROVE Guarded(p)'
    <3>1. CASE p = q
      <4> DEFINE o == [policy[q] EXCEPT !.phase = "deleting"]
      <4>1. o.phase = "deleting" /\ o.fin
        BY <1>1, <3>1 DEF PolicyObject, Guarded
      <4>2. WritePolicy(q, o, TRUE)
        BY <2>3, <3>1 DEF DeletePolicy, Guarded
      <4> HIDE DEF o
      <4> QED BY <1>2, <3>1, <4>1, <4>2 DEF Guarded
    <3>2. CASE p # q
      BY <1>1, <2>3, <3>2 DEF DeletePolicy, WritePolicy, Guarded
    <3> QED BY <3>1, <3>2
  <2>4. (\E d \in Pods : LabelPod(d) \/ DeletePod(d) \/ \E b \in BOOLEAN : CreatePod(d, b))
          => UNCHANGED policy
    BY DEF CreatePod, LabelPod, DeletePod
  <2> QED BY <1>3, <1>4, <2>1, <2>2, <2>3, <2>4 DEF UserStep
<1>5. CASE PutFinalizer
  <2> DEFINE e == ~cpolicy[cur].canon
  <2>1. CASE /\ polFresh[cur]
             /\ WritePolicy(cur, [cpolicy[cur] EXCEPT !.fin = TRUE, !.canon = TRUE], e)
    <3>1. cur \in Policies /\ cpolicy[cur] = policy[cur]
      BY <1>1, <1>5, <2>1 DEF PutFinalizer, Coherent
    <3> DEFINE o == [policy[cur] EXCEPT !.fin = TRUE, !.canon = TRUE]
    <3>2. o.phase = policy[cur].phase /\ o.fin
      BY <1>1, <3>1 DEF PolicyObject
    <3>3. WritePolicy(cur, o, e)
      BY <2>1, <3>1
    <3> HIDE DEF o
    <3> QED BY <1>2, <3>2, <3>3 DEF Guarded
  <2> QED BY <1>3, <1>5, <2>1 DEF PutFinalizer
<1>6. CASE UpdateStatus
  <2>1. CASE polFresh[cur] /\ WritePolicy(cur, [cpolicy[cur] EXCEPT !.status = NewStatus], FALSE)
    <3>1. cur \in Policies /\ cpolicy[cur] = policy[cur]
      BY <1>1, <1>6, <2>1 DEF UpdateStatus, Coherent
    <3> DEFINE o == [policy[cur] EXCEPT !.status = NewStatus]
    <3>2. o.phase = policy[cur].phase /\ o.fin = policy[cur].fin
      BY <1>1, <3>1 DEF PolicyObject
    <3>3. WritePolicy(cur, o, FALSE)
      BY <2>1, <3>1
    <3>4. policy'[p] = IF p = cur THEN o ELSE policy[p]
      BY <1>2, <3>3
    <3> HIDE DEF o
    <3> QED BY <3>2, <3>4 DEF Guarded
  <2> QED BY <1>3, <1>6, <2>1 DEF UpdateStatus
<1>7. CASE UNCHANGED vars
  BY <1>3, <1>7 DEF vars, apiVars
<1>8. CASE ~UserStep /\ Next
  <2>1. edits' # edits => UserStep
    BY <1>8 DEF Next, FaultStep, KubeletStep, InformerStep, WorkerStep, Unready, RestartContainer,
       ExecFails, ExecHalfDone, Crash, Start, SyncPolicy, SyncPod, FireTimer, Fetch,
       PutFinalizer, PutFinalizerFails, ListAnnotated, StartItem, ExecOk, ExecUnreachable,
       SkipRecord, Annotate, AnnotateFails, AbortRemoval, FinishRemoval, ReleasePolicy,
       ReleaseConflict, MatchTrap, FinishDeploy, UpdateStatus, UpdateStatusFails, budgets, Fault
  <2> QED BY <1>3, <1>5, <1>6, <1>8, <2>1, PolicyWriters
<1> QED BY <1>4, <1>7, <1>8

\* Only Annotate records anything: in any other step a running pod keeps its
\* annotation, and a new pod has none.
Kept(d) == \/ Live(d) /\ pod'[d].ann = pod[d].ann
           \/ pod[d].phase = "unborn" /\ pod'[d].ann = NoAnnotation

\* Of all steps only Annotate adds an entry to the annotation of a running pod.
LEMMA RecordsStay ==
    ASSUME TypeOK, [Next]_vars, ~Annotate, NEW d \in Pods
    PROVE  /\ pod[d].phase # "unborn" => pod'[d].phase # "unborn"
           /\ Live(d)' => Kept(d)
<1>1. pod \in [Pods -> PodObject]
  BY DEF TypeOK, ObjectTypes
<1>2. CASE UNCHANGED pod
  BY <1>2 DEF Live, Kept
<1>3. ASSUME NEW e \in Pods,
             \/ \E b \in BOOLEAN : CreatePod(e, b)
             \/ LabelPod(e) \/ DeletePod(e) \/ KubeletWrite(e)
      PROVE  /\ pod[d].phase # "unborn" => pod'[d].phase # "unborn"
             /\ Live(d)' => Kept(d)
  <2>1. \A o : WritePod(e, o) => pod'[d] = IF d = e THEN o ELSE pod[d]
    BY <1>1 DEF WritePod
  <2>2. CASE \E b \in BOOLEAN : CreatePod(e, b)
    <3>1. PICK b \in BOOLEAN : CreatePod(e, b)
      BY <2>2
    <3> DEFINE o == [NoPod EXCEPT !.phase = "live", !.labelled = b]
    <3>2. o.phase = "live" /\ o.ann = NoAnnotation /\ pod[e].phase = "unborn"
      BY <3>1 DEF NoPod, CreatePod
    <3>3. WritePod(e, o)
      BY <3>1 DEF CreatePod
    <3> HIDE DEF o
    <3> QED BY <2>1, <3>2, <3>3 DEF Live, Kept
  <2>3. CASE LabelPod(e)
    <3> DEFINE o == [pod[e] EXCEPT !.labelled = ~@]
    <3>1. o.ann = pod[e].ann /\ o.phase = pod[e].phase
      BY <1>1 DEF PodObject
    <3>2. WritePod(e, o)
      BY <2>3 DEF LabelPod
    <3> HIDE DEF o
    <3> QED BY <2>1, <3>1, <3>2 DEF Live, Kept
  <2>4. CASE DeletePod(e)
    BY <2>1, <2>4 DEF DeletePod, NoPod, Live, Kept
  <2>5. CASE KubeletWrite(e)
    <3>1. PICK c \in Containers : Start(e, c) \/ Unready(e, c) \/ RestartContainer(e, c)
      BY <2>5 DEF KubeletWrite
    <3>2. \A s : /\ [pod[e] EXCEPT !.run[c] = s].ann = pod[e].ann
                /\ [pod[e] EXCEPT !.run[c] = s].phase = pod[e].phase
      BY <1>1 DEF PodObject
    <3>3. \E s : pod' = [pod EXCEPT ![e] = [pod[e] EXCEPT !.run[c] = s]]
      BY <3>1 DEF Start, Unready, RestartContainer, WritePod
    <3> QED BY <1>1, <3>2, <3>3 DEF Live, Kept
  <2> QED BY <1>3, <2>2, <2>3, <2>4, <2>5
<1>4. UNCHANGED vars => UNCHANGED pod
  BY DEF vars, apiVars
<1> QED BY <1>2, <1>3, <1>4, PodWriters

-----------------------------------------------------------------------------
(* The invariant holds.                                                    *)

\* Nothing is recorded and nothing runs in the beginning.
LEMMA GuardInit == Init => GuardInv
<1> SUFFICES ASSUME Init PROVE GuardInv
  OBVIOUS
<1>1. pc = "idle" /\ \A d \in Pods : ~Live(d)
  BY DEF Init, NoPod, Live
<1> QED BY <1>1 DEF GuardInv, FinalizerGuards, WorksUnderGuard, ListAgrees, NoneSkipped,
                    ListComplete, ReleaseAtTheEnd

\* FinalizerGuards survives a step that lifts no guard and records nothing.
LEMMA GuardedStay ==
    ASSUME TypeOK, Coherent, GuardInv, [Next]_vars, ~ReleasePolicy, ~Annotate
    PROVE  FinalizerGuards'
<1> SUFFICES ASSUME NEW p \in Policies, NEW d \in Pods, Live(d)', IsAnnotated(pod'[d].ann, p)
             PROVE  Guarded(p)'
  BY DEF FinalizerGuards
<1>1. Kept(d)
  BY RecordsStay
<1>2. ~IsAnnotated(NoAnnotation, p)
  BY DEF IsAnnotated, NoAnnotation
<1>3. Live(d) /\ IsAnnotated(pod[d].ann, p)
  BY <1>1, <1>2 DEF Kept
<1>4. Guarded(p)
  BY <1>3 DEF GuardInv, FinalizerGuards
<1> QED BY <1>4, GuardsStay

\* A step that is not the worker's leaves the list of a clean-up as good as it
\* was.
LEMMA GuardEnvironment ==
    ASSUME TypeOK, TypeOK', Coherent, GuardInv, [Next]_vars, ~ReleasePolicy, ~Annotate,
           UNCHANGED localVars
    PROVE  GuardInv'
<1> USE DEF localVars
<1>1. WorksUnderGuard'
  <2>1. pc # "idle" => cur \in Policies
    BY DEF TypeOK, RequestTypes
  <2>2. Guarded(cur) /\ pc # "idle" => Guarded(cur)'
    BY <2>1, GuardsStay DEF Guarded
  <2> QED BY <2>2 DEF WorksUnderGuard, GuardInv, Guarded
<1>2. ListAgrees'
  <2> SUFFICES ASSUME pc = "remove", NEW w \in work
               PROVE  /\ w.already = {} /\ pod'[w.pod].phase # "unborn"
                      /\ Live(w.pod)' => pod'[w.pod].ann[cur][w.trap] = w.conts
    BY DEF ListAgrees, OnPod
  <2>1. w.pod \in Pods
    BY DEF TypeOK, ItemTypes, WorkItem
  <2>2. /\ w.already = {} /\ pod[w.pod].phase # "unborn"
        /\ Live(w.pod) => pod[w.pod].ann[cur][w.trap] = w.conts
    BY DEF GuardInv, ListAgrees, OnPod
  <2> QED BY <2>1, <2>2, RecordsStay DEF Kept
<1>3. ListComplete'
  <2> SUFFICES ASSUME pc \in {"remove", "release"}, err = "none", NEW d \in Pods,
                      NEW t \in Traps, Live(d)', pod'[d].ann[cur][t] # {}, Unwanted(t)
               PROVE  Listed(d, t)
    BY DEF ListComplete, OnPod, Listed, Unwanted
  <2>1. cur \in Policies
    BY DEF TypeOK, RequestTypes
  <2>2. Live(d) /\ pod'[d].ann = pod[d].ann
    BY <2>1, RecordsStay DEF Kept, NoAnnotation
  <2> QED BY <2>2 DEF GuardInv, ListComplete, OnPod
<1>4. NoneSkipped' /\ ReleaseAtTheEnd'
  BY DEF GuardInv, NoneSkipped, ReleaseAtTheEnd
<1> QED BY <1>1, <1>2, <1>3, <1>4, GuardedStay DEF GuardInv

\* Nothing is claimed of an idle worker.
LEMMA GuardIdle ==
    ASSUME FinalizerGuards', pc' \in {"idle", "adopt"}
    PROVE  GuardInv'
BY DEF GuardInv, WorksUnderGuard, ListAgrees, NoneSkipped, ListComplete, ReleaseAtTheEnd

\* The steps of the worker that write neither policies nor pods: enough that
\* the parts about the list hold again.
LEMMA GuardWorker ==
    ASSUME TypeOK, Coherent, GuardInv, [Next]_vars, UNCHANGED apiVars, cur' = cur,
           pc \notin {"idle", "adopt"}, ~ReleasePolicy, ~Annotate,
           ListAgrees', NoneSkipped', ListComplete', ReleaseAtTheEnd'
    PROVE  GuardInv'
<1>1. WorksUnderGuard'
  BY DEF GuardInv, WorksUnderGuard, Guarded, apiVars
<1> QED BY <1>1, GuardedStay DEF GuardInv

\* The list taken from current caches names every decoy of the policy.
LEMMA GuardList ==
    ASSUME "lag" \notin Env, TypeOK, Coherent, GuardInv, ListAnnotated
    PROVE  ListAgrees' /\ NoneSkipped' /\ ListComplete' /\ ReleaseAtTheEnd'
<1>1. /\ \A d \in Pods : cpod[d] = pod[d]
      /\ pod \in [Pods -> PodObject] /\ pod' = pod /\ cur \in Policies
      /\ cur' = cur /\ finalizing' = finalizing /\ goal' = goal /\ pc' = "remove"
  BY DEF ListAnnotated, CanReadPods, Lagging, Coherent, TypeOK, ObjectTypes, RequestTypes, apiVars
<1>2. work' = {w \in WorkItem :
                  /\ pod[w.pod].phase = "live" /\ Unwanted(w.trap)
                  /\ w.conts = pod[w.pod].ann[cur][w.trap]
                  /\ w.conts # {} /\ w.already = {}}
  BY <1>1 DEF ListAnnotated, WorkItem
<1>3. ListAgrees'
  BY <1>1, <1>2 DEF ListAgrees, Live, OnPod
<1>4. item' = None
  BY DEF ListAnnotated, TypeOK, ItemTypes
<1>5. ListComplete'
  <2> SUFFICES ASSUME NEW d \in Pods, NEW t \in Traps,
                      pod[d].phase = "live", pod[d].ann[cur][t] # {}, Unwanted(t)
               PROVE  \E w \in work' : w.pod = d /\ w.trap = t
    BY <1>1 DEF ListComplete, Listed, Live, OnPod, Unwanted
  <2> DEFINE v == [pod |-> d, trap |-> t, conts |-> pod[d].ann[cur][t], already |-> {}]
  <2>1. v \in WorkItem
    BY <1>1 DEF WorkItem, PodObject, Annotation
  <2>2. v \in work'
    BY <1>2, <2>1
  <2> QED BY <2>2
<1> QED BY <1>1, <1>3, <1>4, <1>5 DEF NoneSkipped, ReleaseAtTheEnd

\* Taking an item from the list loses no container of it.
LEMMA GuardStartItem ==
    ASSUME TypeOK, GuardInv, NEW w \in work, StartItem(w)
    PROVE  ListAgrees' /\ NoneSkipped' /\ ListComplete' /\ ReleaseAtTheEnd'
<1>1. UNCHANGED <<pod, pc, cur, goal, finalizing, work, err>>
  BY DEF StartItem, apiVars
<1>2. ListAgrees' /\ ListComplete' /\ ReleaseAtTheEnd'
  BY <1>1 DEF GuardInv, ListAgrees, ListComplete, ReleaseAtTheEnd, Live, OnPod, Listed,
              Unwanted
<1>3. NoneSkipped'
  BY <1>1 DEF StartItem, GuardInv, NoneSkipped, ListAgrees
<1> QED BY <1>2, <1>3

\* A command that succeeds moves its container from left to acc, one that fails
\* raises an error.
LEMMA GuardExec ==
    ASSUME TypeOK, GuardInv, NEW c \in Containers,
           ExecOk(c) \/ ExecUnreachable(c) \/ ExecFails(c) \/ ExecHalfDone(c)
    PROVE  ListAgrees' /\ NoneSkipped' /\ ListComplete' /\ ReleaseAtTheEnd'
<1>1. /\ UNCHANGED <<pod, pc, cur, goal, finalizing, work, item>>
      /\ item # None /\ c \in left /\ left' = left \ {c} /\ pc \in {"remove", "deploy"}
  BY ItemType DEF ExecOk, ExecUnreachable, ExecFails, ExecHalfDone, apiVars
<1>2. /\ err' = "none" => err = "none"
      /\ pc = "remove" /\ err' = "none" => acc' = acc \cup {c}
  BY DEF ExecOk, ExecUnreachable, ExecFails, ExecHalfDone, Raise, JoinErr
<1>3. ListAgrees' /\ ListComplete' /\ ReleaseAtTheEnd'
  BY <1>1, <1>2 DEF GuardInv, ListAgrees, ListComplete, ReleaseAtTheEnd, Live, OnPod, Listed,
                   Unwanted
<1>4. NoneSkipped'
  BY <1>1, <1>2 DEF GuardInv, NoneSkipped
<1> QED BY <1>3, <1>4

\* An item may leave the list before its decoy has left the annotation only
\* with an error.
LEMMA GuardDrop ==
    ASSUME TypeOK, GuardInv, SkipRecord \/ AnnotateFails
    PROVE  ListAgrees' /\ NoneSkipped' /\ ListComplete' /\ ReleaseAtTheEnd'
<1>1. /\ UNCHANGED <<pod, pc, cur, finalizing>>
      /\ item # None /\ NextItem /\ pc \in {"remove", "deploy"}
  BY ItemType DEF SkipRecord, AnnotateFails, MustRecord, apiVars
<1>2. pc = "remove" => err' # "none"
  BY DEF SkipRecord, AnnotateFails, Raise, JoinErr
<1> QED BY <1>1, <1>2
        DEF NextItem, GuardInv, ListAgrees, NoneSkipped, ListComplete, ReleaseAtTheEnd, Live, OnPod

\* The end of the clean-up, and the deployment, about which nothing is claimed.
LEMMA GuardTurn ==
    ASSUME TypeOK, GuardInv,
           \/ FinishRemoval \/ FinishDeploy \/ (\E t \in Traps : MatchTrap(t))
           \/ AbortRemoval /\ ~finalizing
    PROVE  ListAgrees' /\ NoneSkipped' /\ ListComplete' /\ ReleaseAtTheEnd'
<1>1. CASE FinishRemoval /\ finalizing
  <2>1. /\ pc = "remove" /\ pc' = "release" /\ work = {} /\ err = "none"
        /\ UNCHANGED <<pod, cur, goal, finalizing, work, err>>
    BY <1>1 DEF FinishRemoval, apiVars
  <2> QED BY <1>1, <2>1 DEF GuardInv, ListAgrees, NoneSkipped, ListComplete, ReleaseAtTheEnd,
                            Live, OnPod, Listed, Unwanted
<1>2. pc' \in {"status", "deploy"}
        => ListAgrees' /\ NoneSkipped' /\ ListComplete' /\ ReleaseAtTheEnd'
  BY DEF ListAgrees, NoneSkipped, ListComplete, ReleaseAtTheEnd
<1>3. CASE FinishRemoval /\ ~finalizing
  BY <1>2, <1>3 DEF FinishRemoval
<1>4. CASE FinishDeploy
  BY <1>2, <1>4 DEF FinishDeploy
<1>5. ASSUME NEW t \in Traps, MatchTrap(t) PROVE pc' \in {"status", "deploy"}
  BY <1>5 DEF MatchTrap
<1>6. CASE AbortRemoval /\ ~finalizing
  BY <1>2, <1>6 DEF AbortRemoval
<1> QED BY <1>1, <1>2, <1>3, <1>4, <1>5, <1>6

\* A decoy leaves the list of a clean-up without an error only when it leaves
\* the annotation.
LEMMA GuardAnnotate ==
    ASSUME TypeOK, Coherent, GuardInv, Annotate
    PROVE  GuardInv'
<1> DEFINE e == item.pod
           old == pod[e].ann
<1>1. /\ item # None /\ NextItem /\ Live(e) /\ left = {} /\ podFresh[e]
      /\ pod' = [pod EXCEPT ![e] = [cpod[e] EXCEPT !.ann = Recorded(@)]]
      /\ UNCHANGED <<policy, pc, cur, goal, finalizing, err>>
  BY DEF Annotate, MustRecord, WritePod, Live
<1>2. /\ item \in work /\ item \in WorkItem /\ cur \in Policies /\ e \in Pods
      /\ item.trap \in Traps /\ pc \in {"remove", "deploy"} /\ work \subseteq WorkItem
      /\ old \in Annotation /\ Recorded(old) \in Annotation
      /\ pod \in [Pods -> PodObject]
  <2>1. item \in work /\ item \in WorkItem /\ cur \in Policies /\ pc \in {"remove", "deploy"}
    BY <1>1, ItemType
  <2>2. e \in Pods /\ item.trap \in Traps /\ work \subseteq WorkItem
    BY <2>1 DEF WorkItem, TypeOK, ItemTypes
  <2>3. pod \in [Pods -> PodObject] /\ old \in Annotation
    BY <2>2 DEF TypeOK, ObjectTypes, PodObject
  <2> QED BY <1>1, <2>1, <2>2, <2>3, ItemType
<1>3. /\ pod'[e].ann = Recorded(old) /\ pod'[e].phase = "live"
      /\ \A d \in Pods : d # e => pod'[d] = pod[d]
  <2>1. cpod[e] = pod[e] /\ pod[e] \in PodObject
    BY <1>1, <1>2 DEF Coherent
  <2>2. pod'[e] = [pod[e] EXCEPT !.ann = Recorded(old)]
    BY <1>1, <1>2, <2>1
  <2>3. pod'[e].ann = Recorded(old) /\ pod'[e].phase = pod[e].phase
    BY <2>1, <2>2 DEF PodObject
  <2>4. \A d \in Pods : d # e => pod'[d] = pod[d]
    BY <1>1, <1>2
  <2>5. pod'[e].phase = "live"
    BY <1>1, <2>3 DEF Live
  <2> QED BY <2>3, <2>4, <2>5
<1>4. \A p \in Policies : p # cur => pod'[e].ann[p] = old[p]
  <2>1. OnlyItsEntry(e)
    BY AnnotateFrame
  <2> QED BY <2>1 DEF OnlyItsEntry
<1>5. Guarded(cur)
  BY <1>2 DEF GuardInv, WorksUnderGuard
<1>6. FinalizerGuards'
  <2> SUFFICES ASSUME NEW p \in Policies, NEW d \in Pods,
                      Live(d)', IsAnnotated(pod'[d].ann, p), p # cur
               PROVE  Guarded(p)
    BY <1>1, <1>5 DEF FinalizerGuards, Guarded
  <2>1. Live(d) /\ IsAnnotated(pod[d].ann, p)
    BY <1>1, <1>3, <1>4 DEF IsAnnotated, Live
  <2> QED BY <2>1 DEF GuardInv, FinalizerGuards
<1>7. WorksUnderGuard'
  BY <1>1, <1>5 DEF WorksUnderGuard, Guarded
\* Only the entry of the item changes.
<1>8. \A t \in Traps : pc = "remove" /\ t # item.trap => pod'[e].ann[cur][t] = old[cur][t]
  BY <1>2, <1>3 DEF Recorded, UpdateContainers, RemoveTrap, Annotation
<1>9. ListAgrees'
  <2> SUFFICES ASSUME pc = "remove", NEW w \in work, w # item
               PROVE  /\ w.already = {} /\ pod'[w.pod].phase # "unborn"
                      /\ Live(w.pod)' => pod'[w.pod].ann[cur][w.trap] = w.conts
    BY <1>1 DEF ListAgrees, OnPod, NextItem
  <2>1. /\ w.already = {} /\ pod[w.pod].phase # "unborn"
        /\ Live(w.pod) => pod[w.pod].ann[cur][w.trap] = w.conts
        /\ item.already = {} /\ old[cur][item.trap] = item.conts
    BY <1>1, <1>2 DEF GuardInv, ListAgrees, OnPod
  <2>2. w \in WorkItem /\ w.pod \in Pods /\ w.trap \in Traps
    BY <1>2 DEF WorkItem
  <2>3. CASE w.pod # e
    BY <1>3, <2>1, <2>2, <2>3 DEF Live
  <2>4. CASE w.pod = e
    <3>1. w.trap # item.trap
      <4>1. SUFFICES ASSUME w.trap = item.trap PROVE FALSE
        OBVIOUS
      <4>2. w.conts = item.conts
        BY <1>1, <2>1, <2>4, <4>1
      <4> QED BY <1>2, <2>1, <2>2, <2>4, <4>1, <4>2 DEF WorkItem
    <3>2. pod'[e].ann[cur][w.trap] = old[cur][w.trap]
      BY <1>8, <2>2, <3>1
    <3>3. old[cur][w.trap] = w.conts
      BY <1>1, <2>1, <2>4
    <3>4. pod'[e].phase # "unborn"
      BY <1>3 DEF Live
    <3> QED BY <2>1, <2>4, <3>2, <3>3, <3>4
  <2> QED BY <2>3, <2>4
<1>10. ListComplete'
  <2> SUFFICES ASSUME pc = "remove", err = "none", NEW d \in Pods, NEW t \in Traps,
                      Live(d)', pod'[d].ann[cur][t] # {}, Unwanted(t)
               PROVE  \E w \in work : w # item /\ w.pod = d /\ w.trap = t
    BY <1>1, <1>2 DEF ListComplete, OnPod, Listed, NextItem, Unwanted
  <2>1. acc = item.conts
    BY <1>1 DEF GuardInv, NoneSkipped
  <2>2. old[cur][item.trap] = item.conts
    BY <1>1, <1>2 DEF GuardInv, ListAgrees, OnPod
  <2>3. Recorded(old)[cur][item.trap] = {}
    BY <1>2, <2>1, <2>2 DEF Recorded, RemoveTrap, Annotation
  <2>4. d # e \/ t # item.trap
    BY <1>3, <2>3
  <2>5. Live(d) /\ pod[d].ann[cur][t] # {}
    BY <1>1, <1>3, <1>8, <2>4 DEF Live
  <2>6. PICK w \in work : w.pod = d /\ w.trap = t
    BY <2>5 DEF GuardInv, ListComplete, OnPod, Listed
  <2> QED BY <2>4, <2>6
<1>11. NoneSkipped' /\ ReleaseAtTheEnd'
  BY <1>1, <1>2 DEF NextItem, NoneSkipped, ReleaseAtTheEnd
<1> QED BY <1>6, <1>7, <1>9, <1>10, <1>11 DEF GuardInv

\* The finalizer goes when no running pod records decoys of the policy.
LEMMA GuardRelease ==
    ASSUME TypeOK, Coherent, GuardInv, ReleasePolicy
    PROVE  GuardInv'
<1>1. policy \in [Policies -> PolicyObject] /\ cur \in Policies
  BY DEF TypeOK, ObjectTypes, RequestTypes, ReleasePolicy
<1>2. pc' = "idle" /\ pod' = pod /\ \A p \in Policies : p # cur => policy'[p] = policy[p]
  BY <1>1 DEF ReleasePolicy, Return, ForgetRequest, WritePolicy
<1>3. \A d \in Pods : Live(d) => ~IsAnnotated(pod[d].ann, cur)
  BY DEF ReleasePolicy, GuardInv, ReleaseAtTheEnd, ListComplete, Listed, OnPod, IsAnnotated,
         Unwanted
<1>4. FinalizerGuards'
  BY <1>2, <1>3 DEF GuardInv, FinalizerGuards, Guarded, Live
<1> QED BY <1>2, <1>4, GuardIdle

\* A request starts past putFinalizer only if a current cache showed the finalizer.
LEMMA GuardFetch ==
    ASSUME "lag" \notin Env, TypeOK, Coherent, GuardInv, NEW p \in Policies, Fetch(p),
           FinalizerGuards', ~UNCHANGED localVars
    PROVE  GuardInv'
<1>1. /\ cpolicy[p] = policy[p] /\ UNCHANGED policy /\ cur' = p
      /\ cpolicy[p].phase # "absent" /\ pc' = IF cpolicy[p].fin THEN "list" ELSE "adopt"
  BY DEF Fetch, CanReadPolicy, Lagging, Coherent, apiVars
<1>2. pc' = "list" => Guarded(cur)'
  BY <1>1 DEF Guarded
<1> QED BY <1>1, <1>2 DEF GuardInv, WorksUnderGuard, ListAgrees, NoneSkipped, ListComplete,
                          ReleaseAtTheEnd

\* The two steps that matter have lemmas of their own; the others leave guards
\* and records alone.
LEMMA GuardStep ==
    ASSUME "lag" \notin Env, TypeOK, TypeOK', Coherent, GuardInv, [Next]_vars
    PROVE  GuardInv'
<1>1. CASE Annotate
  BY <1>1, GuardAnnotate
<1>2. CASE ReleasePolicy
  BY <1>2, GuardRelease
<1> SUFFICES ASSUME ~Annotate, ~ReleasePolicy PROVE GuardInv'
  BY <1>1, <1>2
<1>3. FinalizerGuards'
  BY GuardedStay
<1>4. CASE UNCHANGED localVars
  BY <1>4, GuardEnvironment
<1>5. CASE \/ PutFinalizer \/ PutFinalizerFails \/ ReleaseConflict \/ UpdateStatus
           \/ UpdateStatusFails \/ Crash \/ (AbortRemoval /\ finalizing)
  <2>1. pc' = "idle"
    BY <1>5 DEF PutFinalizer, PutFinalizerFails, ReleaseConflict, UpdateStatus,
                UpdateStatusFails, Crash, AbortRemoval, Return, ForgetRequest
  <2> QED BY <1>3, <2>1, GuardIdle
<1>6. ASSUME NEW p \in Policies, Fetch(p), ~UNCHANGED localVars PROVE GuardInv'
  BY <1>3, <1>6, GuardFetch
<1>7. CASE \/ ListAnnotated \/ (\E w \in work : StartItem(w))
           \/ SkipRecord \/ AnnotateFails \/ FinishRemoval \/ FinishDeploy
           \/ (\E t \in Traps : MatchTrap(t)) \/ (AbortRemoval /\ ~finalizing)
  <2>1. ListAgrees' /\ NoneSkipped' /\ ListComplete' /\ ReleaseAtTheEnd'
    BY <1>7, GuardList, GuardStartItem, GuardDrop, GuardTurn
  <2>2. UNCHANGED apiVars /\ cur' = cur /\ pc \notin {"idle", "adopt"}
    BY <1>7 DEF ListAnnotated, StartItem, SkipRecord, MustRecord, AnnotateFails, FinishRemoval,
       FinishDeploy, MatchTrap, AbortRemoval, TypeOK, ItemTypes
  <2> QED BY <2>1, <2>2, GuardWorker
<1>8. ASSUME NEW c \in Containers,
             ExecOk(c) \/ ExecUnreachable(c) \/ ExecFails(c) \/ ExecHalfDone(c)
      PROVE  GuardInv'
  <2>1. ListAgrees' /\ NoneSkipped' /\ ListComplete' /\ ReleaseAtTheEnd'
    BY <1>8, GuardExec
  <2>2. UNCHANGED apiVars /\ cur' = cur /\ pc \notin {"idle", "adopt"}
    BY <1>8, ItemType DEF ExecOk, ExecUnreachable, ExecFails, ExecHalfDone
  <2> QED BY <2>1, <2>2, GuardWorker
<1>9. \/ UserStep \/ KubeletStep \/ InformerStep \/ UNCHANGED vars
      \/ (\E p \in Policies : FireTimer(p))
      \/ (\E d \in Pods, c \in Containers : Unready(d, c) \/ RestartContainer(d, c))
      => UNCHANGED localVars
  BY DEF UserStep, EditPolicy, CreatePolicy, DeletePolicy, CreatePod, LabelPod, DeletePod,
         KubeletStep, Start, InformerStep, SyncPolicy, SyncPod, FireTimer, Unready,
         RestartContainer, vars
<1> QED BY <1>4, <1>5, <1>6, <1>7, <1>8, <1>9 DEF Next, FaultStep, WorkerStep

\* As long as the worker's caches are current, no crash, failing command or
\* vanishing pod makes the controller remove the finalizer of a policy while
\* the annotation of a running pod still records decoys of it.
THEOREM FinalizerAlwaysGuards == "lag" \notin Env /\ Spec => []FinalizerGuards
<1> SUFFICES ASSUME "lag" \notin Env PROVE Spec => []FinalizerGuards
  OBVIOUS
<1>1. TypeOK /\ TypeOK' /\ Coherent /\ GuardInv /\ [Next]_vars => GuardInv'
  BY GuardStep
<1>2. GuardInv => FinalizerGuards
  BY DEF GuardInv
<1> QED BY <1>1, <1>2, GuardInit, TypeCorrect, CachesCohere, PTL DEF Spec

-----------------------------------------------------------------------------
(* Rotation.  When decoys are deployed, the records of the policy are of    *)
(* traps that the policy wants: the clean-up has removed all others, or the *)
(* request has ended with its error.                                        *)

\* No spec that users apply puts two decoys at the same path.
DistinctPaths == \A s \in Specs : \A t, u \in s.traps : PathOf[t] = PathOf[u] => t = u

\* Policies, and requests, have specs that users apply.
SpecsAreUsers ==
    /\ \A p \in Policies : policy[p].phase # "absent" => policy[p].spec \in Specs
    /\ pc # "idle" => goal.spec \in Specs

OnlyWanted ==
    pc = "deploy" =>
       /\ \A d \in Pods, t \in Traps :
             Live(d) /\ OnPod(d, cur)[t] # {} => t \in goal.spec.traps
       /\ todo \subseteq goal.spec.traps /\ \A w \in work : w.trap \in goal.spec.traps

WantedInv == SpecsAreUsers /\ OnlyWanted

\* Whoever writes a policy, writes a spec of a user or none.
LEMMA SpecsStep ==
    ASSUME "lag" \notin Env, TypeOK, Coherent, SpecsAreUsers, [Next]_vars
    PROVE  SpecsAreUsers'
<1>1. /\ policy \in [Policies -> PolicyObject] /\ (pc # "idle" => cur \in Policies)
      /\ NoPolicy.phase = "absent"
  BY DEF TypeOK, ObjectTypes, RequestTypes, NoPolicy
<1> DEFINE Fine(o) == o.phase # "absent" => o.spec \in Specs
           AllFine == \A p \in Policies : Fine(policy'[p])
<1>2. ASSUME NEW p \in Policies, NEW o, NEW e, WritePolicy(p, o, e), Fine(o) PROVE AllFine
  BY <1>1, <1>2 DEF WritePolicy, SpecsAreUsers
<1>3. UNCHANGED policy => AllFine
  BY DEF SpecsAreUsers
<1>4. \A p \in Policies : Fine(policy[p])
  BY DEF SpecsAreUsers
<1>5. CASE UserStep
  <2>1. ASSUME NEW p \in Policies, NEW s \in Specs, EditPolicy(p, s) PROVE AllFine
    <3>1. Fine([policy[p] EXCEPT !.spec = s])
      BY <1>1 DEF PolicyObject
    <3> HIDE DEF Fine
    <3> QED BY <1>2, <2>1, <3>1 DEF EditPolicy
  <2>2. ASSUME NEW p \in Policies, NEW s \in Specs, NEW b \in BOOLEAN, CreatePolicy(p, s, b)
        PROVE  AllFine
    BY <1>2, <2>2 DEF CreatePolicy
  <2>3. ASSUME NEW p \in Policies, DeletePolicy(p) PROVE AllFine
    <3>1. Fine(NoPolicy) /\ Fine([policy[p] EXCEPT !.phase = "deleting"])
      BY <1>1, <1>4, <2>3 DEF PolicyObject, DeletePolicy
    <3> HIDE DEF Fine
    <3> QED BY <1>2, <2>3, <3>1 DEF DeletePolicy
  <2>4. (\E d \in Pods : LabelPod(d) \/ DeletePod(d) \/ \E b \in BOOLEAN : CreatePod(d, b))
          => UNCHANGED policy
    BY DEF CreatePod, LabelPod, DeletePod
  <2>5. UNCHANGED <<pc, goal>>
    BY <1>5 DEF UserStep, EditPolicy, CreatePolicy, DeletePolicy, CreatePod, LabelPod, DeletePod,
                localVars
  <2> QED BY <1>3, <1>5, <2>1, <2>2, <2>3, <2>4, <2>5 DEF UserStep, SpecsAreUsers
<1>6. CASE PutFinalizer \/ ReleasePolicy \/ UpdateStatus
  <2>1. cur \in Policies /\ cpolicy[cur] = policy[cur] /\ pc' = "idle"
    BY <1>1, <1>6 DEF PutFinalizer, ReleasePolicy, UpdateStatus, CanReadPolicy, Lagging, Coherent,
                      Return, ForgetRequest
  <2>2. /\ Fine([policy[cur] EXCEPT !.fin = TRUE, !.canon = TRUE])
        /\ Fine([policy[cur] EXCEPT !.status = NewStatus])
        /\ Fine(WithoutFinalizer(policy[cur]))
    BY <1>1, <1>4, <2>1 DEF PolicyObject, WithoutFinalizer
  <2>3. AllFine
    <3> HIDE DEF Fine
    <3> QED BY <1>2, <1>3, <1>6, <2>1, <2>2 DEF PutFinalizer, ReleasePolicy, UpdateStatus
  <2> QED BY <2>1, <2>3 DEF SpecsAreUsers
<1>7. ASSUME NEW p \in Policies, Fetch(p) PROVE SpecsAreUsers'
  <2>1. UNCHANGED policy /\ cpolicy[p] = policy[p]
    BY <1>7 DEF Fetch, CanReadPolicy, Lagging, Coherent, apiVars
  <2> QED BY <1>4, <1>7, <2>1 DEF Fetch, SpecsAreUsers, localVars
<1>8. CASE UNCHANGED policy /\ (pc' = "idle" \/ (pc # "idle" /\ UNCHANGED goal) \/ UNCHANGED <<pc, goal>>)
  BY <1>8 DEF SpecsAreUsers
<1>9. CASE FaultStep \/ KubeletStep \/ InformerStep \/ (\E p \in Policies : FireTimer(p)) \/ UNCHANGED vars
  BY <1>8, <1>9 DEF FaultStep, KubeletStep, InformerStep, Unready, RestartContainer, ExecFails,
     ExecHalfDone, Crash, ForgetRequest, Start, SyncPolicy, SyncPod, FireTimer, apiVars, localVars, vars
<1>10. CASE \/ PutFinalizerFails \/ ReleaseConflict \/ UpdateStatusFails
            \/ AbortRemoval /\ finalizing
  BY <1>8, <1>10 DEF PutFinalizerFails, ReleaseConflict, UpdateStatusFails, AbortRemoval, Return,
     ForgetRequest, apiVars
<1>11. CASE \/ ListAnnotated \/ (\E w \in work : StartItem(w))
            \/ SkipRecord \/ Annotate \/ AnnotateFails \/ FinishRemoval
            \/ (\E t \in Traps : MatchTrap(t)) \/ FinishDeploy \/ (AbortRemoval /\ ~finalizing)
            \/ \E c \in Containers : ExecOk(c) \/ ExecUnreachable(c)
  <2>1. UNCHANGED <<policy, goal>>
    BY <1>11 DEF ListAnnotated, StartItem, SkipRecord, Annotate, AnnotateFails, FinishRemoval,
       MatchTrap, FinishDeploy, AbortRemoval, ExecOk, ExecUnreachable, apiVars
  <2>2. pc # "idle"
    BY <1>11, ItemType DEF ListAnnotated, StartItem, SkipRecord, Annotate, AnnotateFails, MustRecord,
       FinishRemoval, MatchTrap, FinishDeploy, AbortRemoval, ExecOk, ExecUnreachable
  <2> QED BY <1>8, <2>1, <2>2
<1> QED BY <1>5, <1>6, <1>7, <1>9, <1>10, <1>11 DEF Next, WorkerStep

\* A step that records nothing adds no trap to what is recorded.
LEMMA WantedStay ==
    ASSUME TypeOK, [Next]_vars, ~Annotate
    PROVE  /\ OnePerPath => OnePerPath'
           /\ pc \in {"deploy", "remove"} =>
                 \A d \in Pods, t \in Traps :
                    Live(d)' /\ pod'[d].ann[cur][t] # {} => Live(d) /\ pod[d].ann[cur][t] # {}
<1>1. \A d \in Pods : Live(d)' => Kept(d)
  BY RecordsStay
<1>2. \A p \in Policies, t \in Traps : NoAnnotation[p][t] = {}
  BY DEF NoAnnotation
<1>3. OnePerPath => OnePerPath'
  BY <1>1, <1>2 DEF OnePerPath, Kept, OnPod
<1>4. pc # "idle" => cur \in Policies
  BY DEF TypeOK, RequestTypes
<1> QED BY <1>1, <1>2, <1>3, <1>4 DEF Kept

\* The deployment starts when the list of the clean-up is empty, and works on traps
\* of the policy.
LEMMA OnlyWantedStep ==
    ASSUME TypeOK, GuardInv, WantedInv, [Next]_vars, ~Annotate
    PROVE  OnlyWanted'
<1>1. pc \in {"deploy", "remove"} =>
         \A d \in Pods, t \in Traps :
            Live(d)' /\ pod'[d].ann[cur][t] # {} => Live(d) /\ pod[d].ann[cur][t] # {}
  BY WantedStay
<1>2. ASSUME pc = "deploy", UNCHANGED <<cur, goal>>, todo' \subseteq todo,
             \A w \in work' : w \in work \/ w.trap \in todo
      PROVE  OnlyWanted'
  BY <1>1, <1>2 DEF WantedInv, OnlyWanted, OnPod
<1>3. pc' # "deploy" => OnlyWanted'
  BY DEF OnlyWanted
<1>4. CASE UNCHANGED localVars
  BY <1>2, <1>3, <1>4 DEF localVars
<1>5. CASE FinishRemoval
  <2>1. /\ pc = "remove" /\ work = {} /\ err = "none" /\ UNCHANGED <<cur, goal, work>>
        /\ pc' = "deploy" => ~finalizing /\ todo' \subseteq goal.spec.traps
    BY <1>5 DEF FinishRemoval
  <2>2. \A d \in Pods, t \in Traps : Live(d) /\ pod[d].ann[cur][t] # {} => ~Unwanted(t)
    BY <2>1 DEF GuardInv, ListComplete, Listed, OnPod
  <2> QED BY <1>1, <2>1, <2>2 DEF OnlyWanted, Unwanted, OnPod
<1>6. CASE \/ (\E w \in work : StartItem(w)) \/ SkipRecord \/ AnnotateFails
           \/ \E c \in Containers : ExecOk(c) \/ ExecUnreachable(c) \/ ExecFails(c) \/ ExecHalfDone(c)
  <2>1. UNCHANGED <<pc, cur, goal, todo>> /\ work' \subseteq work
    BY <1>6 DEF StartItem, SkipRecord, AnnotateFails, NextItem, ExecOk, ExecUnreachable,
       ExecFails, ExecHalfDone
  <2> QED BY <1>2, <1>3, <2>1
<1>7. ASSUME NEW t \in Traps, MatchTrap(t) PROVE OnlyWanted'
  <2>1. /\ pc = "deploy" /\ t \in todo /\ UNCHANGED <<cur, goal>> /\ todo' \subseteq todo
        /\ \A w \in work' : w.trap = t
    BY <1>7 DEF MatchTrap
  <2> QED BY <1>2, <2>1
<1>8. CASE \/ PutFinalizer \/ PutFinalizerFails \/ ReleaseConflict \/ ReleasePolicy \/ UpdateStatus
           \/ UpdateStatusFails \/ Crash \/ AbortRemoval \/ FinishDeploy \/ ListAnnotated
  <2>1. pc' \in {"idle", "status", "remove"}
    BY <1>8 DEF PutFinalizer, PutFinalizerFails, ReleaseConflict, ReleasePolicy, UpdateStatus,
       UpdateStatusFails, Crash, AbortRemoval, FinishDeploy, ListAnnotated, Return, ForgetRequest
  <2> QED BY <1>3, <2>1
<1>9. ASSUME NEW p \in Policies, Fetch(p) PROVE OnlyWanted'
  BY <1>3, <1>4, <1>9 DEF Fetch
<1>10. \/ UserStep \/ KubeletStep \/ InformerStep \/ UNCHANGED vars
       \/ (\E p \in Policies : FireTimer(p))
       \/ (\E d \in Pods, c \in Containers : Unready(d, c) \/ RestartContainer(d, c))
       => UNCHANGED localVars
  BY DEF UserStep, EditPolicy, CreatePolicy, DeletePolicy, CreatePod, LabelPod, DeletePod,
         KubeletStep, Start, InformerStep, SyncPolicy, SyncPod, FireTimer, Unready,
         RestartContainer, vars
<1> QED BY <1>4, <1>5, <1>6, <1>7, <1>8, <1>9, <1>10 DEF Next, FaultStep, WorkerStep

\* What the update of an annotation does.
LEMMA AnnotateEffect ==
    ASSUME TypeOK, Coherent, Annotate
    PROVE  /\ item \in work /\ item.pod \in Pods /\ item.trap \in Traps
           /\ item.conts \subseteq Containers /\ acc \subseteq Containers
           /\ cur \in Policies /\ pc \in {"remove", "deploy"} /\ left = {}
           /\ item # None /\ item' = None /\ work' = work \ {item}
           /\ UNCHANGED <<pc, cur, goal, finalizing, todo, file>>
           /\ pod[item.pod].ann \in Annotation /\ Live(item.pod)
           /\ pod'[item.pod].phase = "live"
           /\ pod'[item.pod].ann = Recorded(pod[item.pod].ann)
           /\ pod'[item.pod].run = pod[item.pod].run
           /\ \A d \in Pods : d # item.pod => pod'[d] = pod[d]
<1> DEFINE e == item.pod
           new == Recorded(pod[e].ann)
<1>1. /\ item # None /\ podFresh[e] /\ pod[e].phase = "live" /\ left = {}
      /\ item' = None /\ work' = work \ {item}
      /\ pod' = [pod EXCEPT ![e] = [cpod[e] EXCEPT !.ann = Recorded(@)]]
      /\ UNCHANGED <<pc, cur, goal, finalizing, todo, file>>
  BY DEF Annotate, MustRecord, WritePod, NextItem
<1>2. item \in work /\ item \in WorkItem /\ cur \in Policies /\ pc \in {"remove", "deploy"}
  BY <1>1, ItemType
<1>3. /\ e \in Pods /\ item.trap \in Traps /\ item.conts \subseteq Containers
      /\ pod \in [Pods -> PodObject] /\ acc \subseteq Containers
  BY <1>2 DEF WorkItem, TypeOK, ObjectTypes, ItemTypes
<1>4. cpod[e] = pod[e] /\ pod[e] \in PodObject /\ pod[e].ann \in Annotation
  BY <1>1, <1>3 DEF Coherent, PodObject
<1>5. pod'[e] = [pod[e] EXCEPT !.ann = new]
  BY <1>1, <1>3, <1>4
<1>6. pod'[e].ann = new /\ pod'[e].phase = pod[e].phase /\ pod'[e].run = pod[e].run
  BY <1>4, <1>5 DEF PodObject
<1>7. \A d \in Pods : d # e => pod'[d] = pod[d]
  BY <1>1, <1>3
<1> HIDE DEF new
<1> QED BY <1>1, <1>2, <1>3, <1>4, <1>6, <1>7 DEF Live, new

\* A clean-up leaves no more in the annotation than there was, a deployment changes
\* the entry of its trap.
LEMMA RecordedParts ==
    ASSUME TypeOK, Coherent, GuardInv, Annotate
    PROVE  /\ \A p \in Policies, t \in Traps :
                 p # cur \/ t # item.trap => pod'[item.pod].ann[p][t] = pod[item.pod].ann[p][t]
           /\ pc = "deploy" => pod'[item.pod].ann[cur][item.trap] = acc
           /\ pc = "remove" => /\ pod[item.pod].ann[cur][item.trap] = item.conts
                               /\ pod'[item.pod].ann[cur][item.trap] = item.conts \ acc
<1> DEFINE old == pod[item.pod].ann
           new == Recorded(old)
<1>1. /\ item \in work /\ item.trap \in Traps /\ cur \in Policies /\ old \in Annotation
      /\ Live(item.pod) /\ pc \in {"remove", "deploy"} /\ pod'[item.pod].ann = new
      /\ item.conts \subseteq Containers /\ acc \subseteq Containers
  BY AnnotateEffect
<1>2. pc = "remove" => old[cur][item.trap] = item.conts
  BY <1>1 DEF GuardInv, ListAgrees, OnPod
<1> DEFINE Parts == /\ \A p \in Policies, t \in Traps :
                          p # cur \/ t # item.trap => new[p][t] = old[p][t]
                    /\ new[cur][item.trap] = IF pc = "deploy" THEN acc ELSE item.conts \ acc
<1>3. ASSUME pc = "deploy" PROVE Parts
  <2>1. new = AddTrap(old, cur, item.trap, acc)
    BY <1>3 DEF Recorded
  <2> HIDE DEF new, old
  <2> QED BY <1>1, <1>3, <2>1 DEF AddTrap, Annotation
<1>4. ASSUME pc = "remove", acc = item.conts PROVE Parts
  <2>1. new = RemoveTrap(old, cur, item.trap, item.conts)
    BY <1>4 DEF Recorded
  <2> HIDE DEF new, old
  <2> QED BY <1>1, <1>2, <1>4, <2>1 DEF RemoveTrap, Annotation
<1>5. ASSUME pc = "remove", acc # item.conts PROVE Parts
  <2>1. new = UpdateContainers(old, cur, item.trap, item.conts \ acc)
    BY <1>5 DEF Recorded
  <2>2. ~IsAnnotated(old, cur) => item.conts = {}
    BY <1>1, <1>2, <1>5 DEF IsAnnotated
  <2> HIDE DEF new, old
  <2> QED BY <1>1, <1>2, <1>5, <2>1, <2>2 DEF UpdateContainers, Annotation
<1>6. Parts
  BY <1>1, <1>3, <1>4, <1>5
<1> HIDE DEF new
<1> QED BY <1>1, <1>2, <1>6

\* A deployment records a wanted trap.
LEMMA WantedAnnotate ==
    ASSUME TypeOK, Coherent, GuardInv, WantedInv, Annotate
    PROVE  OnlyWanted'
<1> SUFFICES ASSUME pc = "deploy" PROVE OnlyWanted'
  BY AnnotateEffect DEF OnlyWanted
<1>1. item.trap \in goal.spec.traps /\ todo' \subseteq goal'.spec.traps
      /\ \A w \in work' : w.trap \in goal'.spec.traps
  BY AnnotateEffect DEF WantedInv, OnlyWanted
<1>2. ASSUME NEW d \in Pods, NEW t \in Traps, Live(d)', pod'[d].ann[cur][t] # {}, t # item.trap
      PROVE  Live(d) /\ pod[d].ann[cur][t] # {}
  BY <1>2, AnnotateEffect, RecordedParts DEF Live
<1>3. ASSUME NEW d \in Pods, NEW t \in Traps, Live(d)', pod'[d].ann[cur][t] # {}
      PROVE  t \in goal.spec.traps
  BY <1>1, <1>2, <1>3 DEF WantedInv, OnlyWanted, OnPod
<1> QED BY <1>1, <1>3, AnnotateEffect DEF OnlyWanted, OnPod

\* A deployment records its trap beside wanted traps, which are at other paths;
\* a clean-up records at most what was there.
LEMMA RotationAnnotate ==
    ASSUME DistinctPaths, TypeOK, Coherent, GuardInv, WantedInv, OnePerPath, Annotate
    PROVE  OnePerPath'
<1> SUFFICES ASSUME NEW p \in Policies, NEW d \in Pods, NEW t \in Traps, NEW u \in Traps,
                    Live(d)', t # u, PathOf[t] = PathOf[u]
             PROVE  pod'[d].ann[p][t] \cap pod'[d].ann[p][u] = {}
  BY DEF OnePerPath, OnPod
<1>1. \A e \in Pods : Live(e)' => Live(e)
  BY AnnotateEffect DEF Live
<1>2. Live(d) /\ pod[d].ann[p][t] \cap pod[d].ann[p][u] = {}
  BY <1>1 DEF OnePerPath, OnPod
<1>3. CASE d # item.pod \/ p # cur
  BY <1>2, <1>3, AnnotateEffect, RecordedParts
<1>4. CASE d = item.pod /\ p = cur /\ pc = "remove"
  BY <1>2, <1>4, AnnotateEffect, RecordedParts
<1>5. CASE d = item.pod /\ p = cur /\ pc = "deploy"
  <2>1. OnlyWanted' /\ goal' = goal /\ cur' = cur /\ pc' = "deploy" /\ goal.spec \in Specs
    BY <1>5, WantedAnnotate, AnnotateEffect DEF WantedInv, SpecsAreUsers
  <2>2. ~(t \in goal.spec.traps /\ u \in goal.spec.traps)
    BY <2>1 DEF DistinctPaths
  <2> QED BY <1>5, <2>1, <2>2 DEF OnlyWanted, OnPod
<1> QED BY <1>3, <1>4, <1>5, AnnotateEffect

\* Requests and what they deploy are of specs of users, over all steps.
LEMMA WantedInit == Init => WantedInv /\ OnePerPath
<1> SUFFICES ASSUME Init PROVE WantedInv /\ OnePerPath
  OBVIOUS
<1>1. pc = "idle" /\ (\A d \in Pods : ~Live(d)) /\ \A p \in Policies : policy[p].phase = "absent"
  BY DEF Init, NoPod, NoPolicy, Live
<1> QED BY <1>1 DEF WantedInv, SpecsAreUsers, OnlyWanted, OnePerPath

\* The same for the steps.
LEMMA WantedStep ==
    ASSUME "lag" \notin Env, TypeOK, Coherent, GuardInv, WantedInv, [Next]_vars
    PROVE  WantedInv'
BY SpecsStep, WantedAnnotate, OnlyWantedStep DEF WantedInv

\* Unless caches lag, a rotation of a decoy never leaves two versions of it recorded in
\* a container, if no spec puts two decoys at the same path; whatever commands fail,
\* pods vanish and controllers restart (cleanupRemovedTraps before reconcileDecoys).
THEOREM RotationIsClean == "lag" \notin Env /\ DistinctPaths /\ Spec => []OnePerPath
<1> SUFFICES ASSUME "lag" \notin Env, DistinctPaths PROVE Spec => []OnePerPath
  OBVIOUS
<1>1. TypeOK /\ Coherent /\ GuardInv /\ WantedInv /\ [Next]_vars => WantedInv'
  BY WantedStep
<1>2. TypeOK /\ Coherent /\ GuardInv /\ WantedInv /\ OnePerPath /\ [Next]_vars => OnePerPath'
  BY RotationAnnotate, WantedStay
<1>3. TypeOK /\ TypeOK' /\ Coherent /\ GuardInv /\ [Next]_vars => GuardInv'
  BY GuardStep
<1> QED BY <1>1, <1>2, <1>3, WantedInit, GuardInit, TypeCorrect, CachesCohere, PTL DEF Spec

-----------------------------------------------------------------------------
(* Refinement.  The reconciler implements the ledger: each of its steps     *)
(* records one decoy, erases one, loses those of a pod, adopts or releases  *)
(* a policy, or leaves guard and ledger alone.                              *)

Entry(p, d, t) == Live(d) /\ OnPod(d, p)[t] # {}

\* The refinement mapping.
GuardNow == {p \in Policies : Guarded(p)}
LedgerNow == {e \in Policies \X Pods \X Traps : Live(e[2]) /\ OnPod(e[2], e[1])[e[3]] # {}}

\* The mapped ledger, before and after a step, is the set of the entries.
LEMMA LedgerIsEntries ==
    /\ LedgerNow = {e \in Policies \X Pods \X Traps : Entry(e[1], e[2], e[3])}
    /\ LedgerNow' = {e \in Policies \X Pods \X Traps : Entry(e[1], e[2], e[3])'}
BY DEF LedgerNow, Entry, Live, OnPod

-----------------------------------------------------------------------------
(* What single steps do.                                                   *)

\* Only PutFinalizer puts a policy under guard.
LEMMA GuardsGrow ==
    ASSUME TypeOK, Coherent, [Next]_vars, ~PutFinalizer, NEW p \in Policies, Guarded(p)'
    PROVE  Guarded(p)
<1>1. policy \in [Policies -> PolicyObject] /\ (pc # "idle" => cur \in Policies)
  BY DEF TypeOK, ObjectTypes, RequestTypes
<1>2. \A q, o, e : WritePolicy(q, o, e) => policy'[p] = IF p = q THEN o ELSE policy[p]
  BY <1>1 DEF WritePolicy
<1>3. CASE UNCHANGED policy
  BY <1>3 DEF Guarded
<1>4. CASE UserStep
  <2>1. ASSUME NEW q \in Policies, NEW s \in Specs, EditPolicy(q, s) PROVE Guarded(p)
    <3> DEFINE o == [policy[q] EXCEPT !.spec = s]
    <3>1. o.phase = policy[q].phase /\ o.fin = policy[q].fin
      BY <1>1 DEF PolicyObject
    <3>2. WritePolicy(q, o, TRUE)
      BY <2>1 DEF EditPolicy
    <3> HIDE DEF o
    <3>3. policy'[p] = IF p = q THEN o ELSE policy[p]
      BY <1>2, <3>2
    <3> QED BY <3>1, <3>3 DEF Guarded
  <2>2. ASSUME NEW q \in Policies, NEW s \in Specs, NEW b \in BOOLEAN, CreatePolicy(q, s, b)
        PROVE  Guarded(p)
    <3> DEFINE o == [phase |-> "live", fin |-> FALSE, spec |-> s, canon |-> b,
                     old |-> {d \in Pods : pod[d].phase # "unborn"}, status |-> None]
    <3>1. ~o.fin /\ WritePolicy(q, o, TRUE)
      BY <2>2 DEF CreatePolicy
    <3>2. policy'[p] = IF p = q THEN o ELSE policy[p]
      BY <1>2, <3>1
    <3> HIDE DEF o
    <3> QED BY <3>1, <3>2 DEF Guarded
  <2>3. ASSUME NEW q \in Policies, DeletePolicy(q) PROVE Guarded(p)
    <3> DEFINE o == IF policy[q].fin THEN [policy[q] EXCEPT !.phase = "deleting"] ELSE NoPolicy
    <3>1. policy[q].phase = "live" /\ (o.fin => policy[q].fin)
      BY <1>1, <2>3 DEF PolicyObject, NoPolicy, DeletePolicy
    <3>2. WritePolicy(q, o, TRUE)
      BY <2>3 DEF DeletePolicy
    <3> HIDE DEF o
    <3>3. policy'[p] = IF p = q THEN o ELSE policy[p]
      BY <1>2, <3>2
    <3> QED BY <3>1, <3>3 DEF Guarded
  <2>4. (\E d \in Pods : LabelPod(d) \/ DeletePod(d) \/ \E b \in BOOLEAN : CreatePod(d, b))
          => UNCHANGED policy
    BY DEF CreatePod, LabelPod, DeletePod
  <2> QED BY <1>3, <1>4, <2>1, <2>2, <2>3, <2>4 DEF UserStep
<1>5. CASE ReleasePolicy
  <2>1. CASE cpolicy[cur].fin /\ polFresh[cur]
             /\ WritePolicy(cur, WithoutFinalizer(cpolicy[cur]), TRUE)
    <3>1. cur \in Policies /\ cpolicy[cur] \in PolicyObject
      BY <1>1, <1>5 DEF ReleasePolicy, TypeOK, ObjectTypes
    <3> DEFINE o == WithoutFinalizer(cpolicy[cur])
    <3>2. ~o.fin
      BY <3>1 DEF WithoutFinalizer, NoPolicy, PolicyObject
    <3>3. policy'[p] = IF p = cur THEN o ELSE policy[p]
      BY <1>2, <2>1
    <3> HIDE DEF o
    <3> QED BY <3>2, <3>3 DEF Guarded
  <2> QED BY <1>3, <1>5, <2>1 DEF ReleasePolicy
<1>6. CASE UpdateStatus
  <2>1. CASE polFresh[cur] /\ WritePolicy(cur, [cpolicy[cur] EXCEPT !.status = NewStatus], FALSE)
    <3>1. cur \in Policies /\ cpolicy[cur] = policy[cur]
      BY <1>1, <1>6, <2>1 DEF UpdateStatus, Coherent
    <3> DEFINE o == [policy[cur] EXCEPT !.status = NewStatus]
    <3>2. o.phase = policy[cur].phase /\ o.fin = policy[cur].fin
      BY <1>1, <3>1 DEF PolicyObject
    <3>3. policy'[p] = IF p = cur THEN o ELSE policy[p]
      BY <1>2, <2>1, <3>1
    <3> HIDE DEF o
    <3> QED BY <3>2, <3>3 DEF Guarded
  <2> QED BY <1>3, <1>6, <2>1 DEF UpdateStatus
<1>7. CASE UNCHANGED vars
  BY <1>3, <1>7 DEF vars, apiVars
<1>8. CASE ~UserStep /\ Next
  <2>1. edits' # edits => UserStep
    BY <1>8 DEF Next, FaultStep, KubeletStep, InformerStep, WorkerStep, Unready, RestartContainer,
       ExecFails, ExecHalfDone, Crash, Start, SyncPolicy, SyncPod, FireTimer, Fetch,
       PutFinalizer, PutFinalizerFails, ListAnnotated, StartItem, ExecOk, ExecUnreachable,
       SkipRecord, Annotate, AnnotateFails, AbortRemoval, FinishRemoval, ReleasePolicy,
       ReleaseConflict, MatchTrap, FinishDeploy, UpdateStatus, UpdateStatusFails, budgets, Fault
  <2> QED BY <1>3, <1>5, <1>6, <1>8, <2>1, PolicyWriters
<1> QED BY <1>4, <1>7, <1>8

\* A running pod only goes when a user deletes it.
LEMMA PodsStay ==
    ASSUME TypeOK, Coherent, [Next]_vars, NEW d \in Pods, Live(d), ~DeletePod(d)
    PROVE  Live(d)'
<1>1. pod \in [Pods -> PodObject]
  BY DEF TypeOK, ObjectTypes
<1>2. CASE UNCHANGED pod
  BY <1>2 DEF Live
<1>3. ASSUME NEW e \in Pods,
             \/ \E b \in BOOLEAN : CreatePod(e, b)
             \/ LabelPod(e) \/ DeletePod(e) \/ KubeletWrite(e)
      PROVE  Live(d)'
  <2>1. CASE d = e
    <3>1. ~\E b \in BOOLEAN : CreatePod(e, b)
      BY <2>1 DEF CreatePod, Live
    <3>2. CASE LabelPod(e)
      BY <1>1, <2>1, <3>2 DEF LabelPod, WritePod, Live, PodObject
    <3>3. CASE KubeletWrite(e)
      <4>1. PICK c \in Containers, s \in {"down", "up", "ready"} : pod' = [pod EXCEPT ![e] = [pod[e] EXCEPT !.run[c] = s]]
        BY <3>3 DEF KubeletWrite, Start, Unready, RestartContainer, WritePod
      <4>2. [pod[e] EXCEPT !.run[c] = s].phase = pod[e].phase
        BY <1>1 DEF PodObject
      <4> QED BY <1>1, <2>1, <4>1, <4>2 DEF Live
    <3> QED BY <1>3, <2>1, <3>1, <3>2, <3>3
  <2>2. CASE d # e
    <3>1. \E o : WritePod(e, o)
      BY <1>3 DEF CreatePod, LabelPod, DeletePod, KubeletWrite, Start, Unready, RestartContainer
    <3> QED BY <1>1, <2>2, <3>1 DEF WritePod, Live
  <2> QED BY <2>1, <2>2
<1>4. CASE Annotate
  <2>1. pod' = [pod EXCEPT ![item.pod] = [cpod[item.pod] EXCEPT !.ann = Recorded(@)]]
        /\ podFresh[item.pod] /\ pod[item.pod].phase = "live"
    BY <1>4 DEF Annotate, WritePod
  <2>2. CASE d = item.pod
    <3>1. cpod[d] = pod[d] /\ pod[d] \in PodObject
      BY <1>1, <2>1, <2>2 DEF Coherent
    <3>2. pod'[d] = [pod[d] EXCEPT !.ann = Recorded(@)]
      BY <1>1, <2>1, <2>2, <3>1
    <3>3. pod'[d].phase = pod[d].phase
      BY <3>1, <3>2 DEF PodObject
    <3> QED BY <3>3 DEF Live
  <2>3. CASE d # item.pod
    BY <1>1, <2>1, <2>3 DEF Live
  <2> QED BY <2>2, <2>3
<1>5. UNCHANGED vars => UNCHANGED pod
  BY DEF vars, apiVars
<1> QED BY <1>2, <1>3, <1>4, <1>5, PodWriters

\* Annotate changes one entry of a policy under guard.
LEMMA AnnotateEntry ==
    ASSUME TypeOK, Coherent, GuardInv, Annotate
    PROVE  /\ cur \in Policies /\ Guarded(cur) /\ item.pod \in Pods /\ item.trap \in Traps
           /\ \A p \in Policies, d \in Pods, t \in Traps :
                 p # cur \/ d # item.pod \/ t # item.trap => (Entry(p, d, t)' <=> Entry(p, d, t))
<1> DEFINE e == item.pod
           old == pod[e].ann
<1>1. item # None /\ item \in WorkItem /\ cur \in Policies /\ pc \in {"remove", "deploy"}
  BY ItemType DEF Annotate, MustRecord
<1>2. e \in Pods /\ item.trap \in Traps /\ acc \in SUBSET Containers
      /\ item.conts \in SUBSET Containers
  BY <1>1 DEF WorkItem, TypeOK, ItemTypes
<1>3. pod \in [Pods -> PodObject] /\ cpod[e] = pod[e] /\ pod[e] \in PodObject /\ old \in Annotation
  BY <1>2 DEF Annotate, Coherent, TypeOK, ObjectTypes, PodObject
<1>4. pod'[e] = [pod[e] EXCEPT !.ann = Recorded(old)]
  BY <1>2, <1>3 DEF Annotate, WritePod
<1>5. pod'[e].ann = Recorded(old) /\ pod'[e].phase = pod[e].phase
  BY <1>3, <1>4 DEF PodObject
<1>6. \A d \in Pods : d # e => pod'[d] = pod[d]
  BY AnnotateFrame
<1>7. \A p \in Policies, t \in Traps : p # cur \/ t # item.trap => Recorded(old)[p][t] = old[p][t]
  BY <1>1, <1>2, <1>3 DEF Recorded, AddTrap, UpdateContainers, RemoveTrap, Annotation
<1>8. ASSUME NEW p \in Policies, NEW d \in Pods, NEW t \in Traps,
             p # cur \/ d # e \/ t # item.trap
      PROVE  Entry(p, d, t)' <=> Entry(p, d, t)
  <2>1. CASE d # e
    BY <1>6, <2>1 DEF Entry, Live, OnPod
  <2>2. CASE d = e
    BY <1>5, <1>7, <1>8, <2>2 DEF Entry, Live, OnPod
  <2> QED BY <2>1, <2>2
<1>9. Guarded(cur)
  BY <1>1 DEF GuardInv, WorksUnderGuard
<1> QED BY <1>1, <1>2, <1>8, <1>9

\* Any other step keeps the entries of pods that are not deleted.
LEMMA EntriesStay ==
    ASSUME TypeOK, Coherent, [Next]_vars, ~Annotate, NEW d \in Pods, ~DeletePod(d),
           NEW p \in Policies, NEW t \in Traps
    PROVE  Entry(p, d, t)' <=> Entry(p, d, t)
<1>1. CASE Live(d)
  <2>1. Live(d)' /\ pod'[d].ann = pod[d].ann
    BY <1>1, PodsStay, RecordsStay DEF Kept, Live
  <2> QED BY <1>1, <2>1 DEF Entry, OnPod
<1>2. CASE ~Live(d)
  <2>1. Live(d)' => pod'[d].ann = NoAnnotation
    BY <1>2, RecordsStay DEF Kept
  <2>2. Live(d)' => pod'[d].ann[p][t] = {}
    BY <2>1 DEF NoAnnotation
  <2> QED BY <1>2, <2>2 DEF Entry, OnPod
<1> QED BY <1>1, <1>2

-----------------------------------------------------------------------------
(* The steps of the ledger, in terms of the mapping.                       *)

\* What changes guard or ledger in one of these ways is a step of the ledger.
LEMMA LedgerActions ==
    ASSUME NEW p \in Policies, NEW d \in Pods, NEW t \in Traps
    PROVE  /\ p \notin GuardNow /\ GuardNow' = GuardNow \cup {p} /\ UNCHANGED LedgerNow
                => Ledger!Next
           /\ p \in GuardNow /\ LedgerNow' = LedgerNow \cup {<<p, d, t>>} /\ UNCHANGED GuardNow
                => Ledger!Next
           /\ p \in GuardNow /\ LedgerNow' = LedgerNow \ {<<p, d, t>>} /\ UNCHANGED GuardNow
                => Ledger!Next
           /\ LedgerNow' = {e \in LedgerNow : e[2] # d} /\ UNCHANGED GuardNow
                => Ledger!Next
<1>1. p \notin GuardNow /\ GuardNow' = GuardNow \cup {p} /\ UNCHANGED LedgerNow => Ledger!Adopt(p)
  BY DEF Ledger!Adopt, GuardNow, LedgerNow
<1>2. p \in GuardNow /\ LedgerNow' = LedgerNow \cup {<<p, d, t>>} /\ UNCHANGED GuardNow
        => Ledger!Record(p, d, t)
  BY DEF Ledger!Record, GuardNow, LedgerNow
<1>3. p \in GuardNow /\ LedgerNow' = LedgerNow \ {<<p, d, t>>} /\ UNCHANGED GuardNow
        => Ledger!Erase(p, d, t)
  BY DEF Ledger!Erase, GuardNow, LedgerNow
<1>4. LedgerNow' = {e \in LedgerNow : e[2] # d} /\ UNCHANGED GuardNow => Ledger!Vanish(d)
  BY DEF Ledger!Vanish, GuardNow, LedgerNow
<1> QED BY <1>1, <1>2, <1>3, <1>4 DEF Ledger!Next

\* A guard goes only when the policy has no entry left.
LEMMA LedgerRelease ==
    ASSUME NEW p \in Policies, p \in GuardNow, \A e \in LedgerNow : e[1] # p,
           GuardNow' = GuardNow \ {p}, UNCHANGED LedgerNow
    PROVE  Ledger!Next
<1>1. Ledger!Release(p)
  BY DEF Ledger!Release, Ledger!Entries, GuardNow, LedgerNow
<1> QED BY <1>1 DEF Ledger!Next

\* The ledger stays when every entry does.
LEMMA SameEntries ==
    ASSUME \A p \in Policies, d \in Pods, t \in Traps : Entry(p, d, t)' <=> Entry(p, d, t)
    PROVE  UNCHANGED LedgerNow
BY LedgerIsEntries

\* The guards stay when every policy keeps its own.
LEMMA SameGuards ==
    ASSUME \A p \in Policies : Guarded(p)' <=> Guarded(p)
    PROVE  UNCHANGED GuardNow
BY DEF GuardNow

-----------------------------------------------------------------------------
(* The refinement.                                                         *)

\* Every step of the reconciler is a step of the ledger or leaves it alone.
LEMMA LedgerStep ==
    ASSUME TypeOK, Coherent, GuardInv, [Next]_vars
    PROVE  Ledger!Next \/ UNCHANGED <<GuardNow, LedgerNow>>
<1>1. CASE Annotate
  <2>1. UNCHANGED GuardNow
    BY <1>1, SameGuards DEF Annotate, Guarded
  <2>2. PICK q \in Policies, b \in Pods, u \in Traps : q = cur /\ b = item.pod /\ u = item.trap
    BY <1>1, AnnotateEntry
  <2>3. q \in GuardNow
    BY <1>1, <2>2, AnnotateEntry DEF GuardNow
  <2>4. \A p \in Policies, d \in Pods, t \in Traps :
           <<p, d, t>> # <<q, b, u>> => (Entry(p, d, t)' <=> Entry(p, d, t))
    BY <1>1, <2>2, AnnotateEntry
  <2>5. CASE Entry(q, b, u)'
    <3>1. LedgerNow' = LedgerNow \cup {<<q, b, u>>}
      BY <2>4, <2>5, LedgerIsEntries
    <3> QED BY <2>1, <2>3, <3>1, LedgerActions
  <2>6. CASE ~Entry(q, b, u)'
    <3>1. LedgerNow' = LedgerNow \ {<<q, b, u>>}
      BY <2>4, <2>6, LedgerIsEntries
    <3> QED BY <2>1, <2>3, <3>1, LedgerActions
  <2> QED BY <2>5, <2>6
<1>2. ASSUME NEW d \in Pods, DeletePod(d) PROVE Ledger!Next \/ UNCHANGED <<GuardNow, LedgerNow>>
  <2>1. UNCHANGED GuardNow
    BY <1>2, SameGuards DEF DeletePod, Guarded
  <2>2. ~Live(d)' /\ \A b \in Pods : b # d => pod'[b] = pod[b]
    BY <1>2 DEF DeletePod, WritePod, NoPod, Live, TypeOK, ObjectTypes
  <2>3. \A p \in Policies, b \in Pods, t \in Traps :
           Entry(p, b, t)' <=> b # d /\ Entry(p, b, t)
    BY <2>2 DEF Entry, Live, OnPod
  <2>4. LedgerNow' = {e \in LedgerNow : e[2] # d}
    BY <2>3, LedgerIsEntries
  <2>5. CASE Policies = {} \/ Traps = {}
    <3>1. UNCHANGED LedgerNow
      BY <2>5, SameEntries
    <3> QED BY <2>1, <3>1
  <2>6. CASE Policies # {} /\ Traps # {}
    BY <2>1, <2>4, <2>6, LedgerActions
  <2> QED BY <2>5, <2>6
<1> SUFFICES ASSUME ~Annotate, \A d \in Pods : ~DeletePod(d)
             PROVE  Ledger!Next \/ UNCHANGED <<GuardNow, LedgerNow>>
  BY <1>1, <1>2
<1>3. UNCHANGED LedgerNow
  BY EntriesStay, SameEntries
<1>4. CASE PutFinalizer
  <2>1. PICK q \in Policies : q = cur
    BY <1>4 DEF PutFinalizer, TypeOK, RequestTypes
  <2>2. \A p \in Policies : p # q => policy'[p] = policy[p]
    BY <1>4, <2>1 DEF PutFinalizer, WritePolicy, TypeOK, ObjectTypes
  <2>3. \A p \in Policies : p # q => (Guarded(p)' <=> Guarded(p))
    BY <2>2 DEF Guarded
  <2>4. ~ReleasePolicy
    BY <1>4 DEF PutFinalizer, ReleasePolicy
  <2>5. Guarded(q) => Guarded(q)'
    BY <2>4, GuardsStay
  <2>6. CASE Guarded(q)' <=> Guarded(q)
    <3>1. UNCHANGED GuardNow
      BY <2>3, <2>6, SameGuards
    <3> QED BY <1>3, <3>1
  <2>7. CASE Guarded(q)' /\ ~Guarded(q)
    <3>1. q \notin GuardNow /\ GuardNow' = GuardNow \cup {q}
      BY <2>3, <2>7 DEF GuardNow
    <3>2. CASE Pods = {} \/ Traps = {}
      BY <1>3, <3>1 DEF Ledger!Next, Ledger!Adopt, GuardNow, LedgerNow
    <3>3. CASE Pods # {} /\ Traps # {}
      BY <1>3, <3>1, <3>3, LedgerActions
    <3> QED BY <3>2, <3>3
  <2> QED BY <2>5, <2>6, <2>7
<1>5. CASE ReleasePolicy
  <2>1. PICK q \in Policies : q = cur
    BY <1>5 DEF ReleasePolicy, TypeOK, RequestTypes
  <2>2. \A p \in Policies : p # q => policy'[p] = policy[p]
    BY <1>5, <2>1 DEF ReleasePolicy, WritePolicy, TypeOK, ObjectTypes
  <2>3. \A p \in Policies : p # q => (Guarded(p)' <=> Guarded(p))
    BY <2>2 DEF Guarded
  <2>4. ~PutFinalizer
    BY <1>5 DEF PutFinalizer, ReleasePolicy
  <2>5. Guarded(q)' => Guarded(q)
    BY <2>4, GuardsGrow
  <2>6. CASE Guarded(q)' <=> Guarded(q)
    <3>1. UNCHANGED GuardNow
      BY <2>3, <2>6, SameGuards
    <3> QED BY <1>3, <3>1
  <2>7. CASE ~Guarded(q)' /\ Guarded(q)
    <3>1. q \in GuardNow /\ GuardNow' = GuardNow \ {q}
      BY <2>3, <2>7 DEF GuardNow
    <3>2. \A d \in Pods, t \in Traps : ~Entry(q, d, t)
      BY <1>5, <2>1 DEF ReleasePolicy, GuardInv, ReleaseAtTheEnd, ListComplete, Listed, Entry,
                     Unwanted
    <3>3. \A e \in LedgerNow : e[1] # q
      BY <3>2, LedgerIsEntries
    <3> QED BY <1>3, <3>1, <3>3, LedgerRelease
  <2> QED BY <2>5, <2>6, <2>7
<1>6. CASE ~PutFinalizer /\ ~ReleasePolicy
  <2>1. UNCHANGED GuardNow
    BY <1>6, GuardsStay, GuardsGrow, SameGuards
  <2> QED BY <1>3, <2>1
<1> QED BY <1>4, <1>5, <1>6

\* At first the ledger is empty.
LEMMA LedgerInit == Init => Ledger!Init
<1> SUFFICES ASSUME Init PROVE Ledger!Init
  OBVIOUS
<1>1. \A p \in Policies : ~Guarded(p)
  BY DEF Init, NoPolicy, Guarded
<1>2. \A d \in Pods : ~Live(d)
  BY DEF Init, NoPod, Live
<1> QED BY <1>1, <1>2 DEF Ledger!Init

\* Unless caches lag, the reconciler implements the ledger: over restarts, failed
\* commands and vanishing pods, decoys enter and leave the records one at a time
\* and under guard, and the guard of a policy is lifted only when nothing of it is
\* recorded (putFinalizer, DeployDecoy, RemoveDecoy, RemoveFinalizer).
THEOREM LedgerIsKept == "lag" \notin Env /\ Spec => KeepsTheLedger
<1> SUFFICES ASSUME "lag" \notin Env PROVE Spec => KeepsTheLedger
  OBVIOUS
<1>1. TypeOK /\ TypeOK' /\ Coherent /\ GuardInv /\ [Next]_vars => GuardInv'
  BY GuardStep
<1>2. TypeOK /\ Coherent /\ GuardInv /\ [Next]_vars
        => [Ledger!Next]_<<{p \in Policies : Guarded(p)},
              {e \in Policies \X Pods \X Traps : Live(e[2]) /\ OnPod(e[2], e[1])[e[3]] # {}}>>
  BY LedgerStep DEF GuardNow, LedgerNow
<1> QED BY <1>1, <1>2, GuardInit, LedgerInit, TypeCorrect, CachesCohere, PTL
        DEF Spec, KeepsTheLedger, Ledger!Spec
=============================================================================
