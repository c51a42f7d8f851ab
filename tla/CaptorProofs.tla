---------------------------- MODULE CaptorProofs ----------------------------
(***************************************************************************)
(* Proofs about the captor deployment, for every set of policies, traps    *)
(* and captors, any budget, and every behaviour of the environment, stale  *)
(* caches and restarts included.                                           *)
(***************************************************************************)
EXTENDS CaptorProperties, TLAPS

-----------------------------------------------------------------------------
(* Types.  They are not inductive by themselves: that the worker finds a    *)
(* spec in what it fetches hangs on every policy that exists having one.    *)

Objects == {o \in PolicyObject : o.phase # "absent" => o.spec # None}

ObjectTypes ==
    /\ policy \in [Policies -> Objects] /\ cpolicy \in [Policies -> Objects]
    /\ polFresh \in [Policies -> BOOLEAN] /\ polEvent \in [Policies -> BOOLEAN]
CaptorTypes ==
    /\ captor \in [Names -> CaptorObject \cup {None}]
    /\ ccaptor \in [Names -> CaptorObject \cup {None}]
    /\ capFresh \in [Names -> BOOLEAN]
RequestTypes ==
    /\ pc \in {"idle", "adopt", "list", "delete", "decoys", "deploy", "status", "release"}
    /\ cur \in Policies \cup {None} /\ (pc # "idle" => cur # None)
    /\ goal \in PolicyObject /\ (pc # "idle" => goal.spec # None)
    /\ kind \in {"tetragon", "kive"}
    /\ surplus \subseteq Names /\ todo \subseteq Traps /\ failed \subseteq Traps
    /\ err \in BOOLEAN
QueueTypes == queue \subseteq Policies /\ delayed \subseteq Policies
HistoryTypes == misread \subseteq Policies
BudgetTypes == edits \in Nat /\ faults \in Nat

Types == /\ ObjectTypes /\ CaptorTypes /\ RequestTypes /\ QueueTypes /\ HistoryTypes
         /\ BudgetTypes

\* This is more than TypeOK asks for.
LEMMA TypesSuffice == Types => TypeOK
BY DEF Types, TypeOK, ObjectTypes, CaptorTypes, RequestTypes, QueueTypes, HistoryTypes,
       BudgetTypes, Objects

\* What is stored under an unused name is an object.
LEMMA EmptyObject == NoPolicy \in Objects /\ NoPolicy \in PolicyObject
BY DEF NoPolicy, Objects, PolicyObject, Reasons

\* So is what remains of a policy.
LEMMA GoneObject == ASSUME NEW o \in Objects PROVE Gone(o) \in Objects
BY DEF Gone, NoPolicy, Objects, PolicyObject, Reasons

\* The initial state is well typed.
LEMMA InitTypes == Init => Types
<1> SUFFICES ASSUME Init PROVE Types
  OBVIOUS
<1>1. ObjectTypes
  BY EmptyObject DEF Init, ObjectTypes
<1>2. CaptorTypes
  BY DEF Init, CaptorTypes
<1>3. RequestTypes
  BY EmptyObject DEF Init, RequestTypes
<1>4. QueueTypes /\ HistoryTypes /\ BudgetTypes
  BY DEF Init, QueueTypes, HistoryTypes, BudgetTypes
<1> QED BY <1>1, <1>2, <1>3, <1>4 DEF Types

\* What a step leaves to itself keeps its types.
LEMMA TypesStable ==
    /\ ObjectTypes /\ UNCHANGED <<policy, polEvent, polFresh, cpolicy>> => ObjectTypes'
    /\ CaptorTypes /\ UNCHANGED <<captor, ccaptor, capFresh>> => CaptorTypes'
    /\ RequestTypes /\ UNCHANGED <<cur, goal, localVars>> => RequestTypes'
    /\ QueueTypes /\ UNCHANGED queueVars => QueueTypes'
    /\ HistoryTypes /\ UNCHANGED misread => HistoryTypes'
    /\ BudgetTypes /\ UNCHANGED budgets => BudgetTypes'
BY DEF ObjectTypes, CaptorTypes, RequestTypes, QueueTypes, HistoryTypes, BudgetTypes,
       localVars, queueVars, budgets

\* Writes to the API server.
LEMMA WritePolicyTypes ==
    ASSUME ObjectTypes, NEW p, NEW o \in Objects, NEW e \in BOOLEAN,
           WritePolicy(p, o, e), UNCHANGED cpolicy
    PROVE  ObjectTypes'
BY DEF ObjectTypes, WritePolicy

\* The same for captors.
LEMMA WriteCaptorTypes ==
    ASSUME CaptorTypes, NEW n, NEW o \in CaptorObject \cup {None},
           WriteCaptor(n, o), UNCHANGED ccaptor
    PROVE  CaptorTypes'
BY DEF CaptorTypes, WriteCaptor

\* Budgets grow.
LEMMA Budgets == BudgetTypes /\ (Edit \/ Fault) => BudgetTypes'
BY DEF BudgetTypes, Edit, Fault

\* Reading captors marks at most the policy in progress.
LEMMA ReadTypes ==
    ASSUME HistoryTypes, RequestTypes, pc # "idle", NEW ns, Read(ns)
    PROVE  HistoryTypes'
BY DEF HistoryTypes, RequestTypes, Read

\* The end of a request.
LEMMA ForgetTypes == ForgetRequest => RequestTypes'
BY EmptyObject DEF ForgetRequest, RequestTypes

\* The end of Reconcile leaves the worker and the queues well typed.
LEMMA ReturnTypes ==
    ASSUME QueueTypes, RequestTypes, pc # "idle", NEW again, Return(again), queue' = queue
    PROVE  RequestTypes' /\ QueueTypes'
BY ForgetTypes DEF Return, RequestTypes, QueueTypes

-----------------------------------------------------------------------------
(* Type correctness of a step.                                             *)

\* Users change one policy, or wake up all.
LEMMA UserTypes == Types /\ UserStep => Types'
<1> SUFFICES ASSUME Types, UserStep PROVE Types'
  OBVIOUS
<1> USE DEF Types
<1>1. ASSUME NEW p \in Policies, NEW s \in SpecsOf[p], CreatePolicy(p, s) PROVE Types'
  <2> DEFINE o == [phase |-> "live", fin |-> FALSE, uid |-> edits + 1, spec |-> s,
                   status |-> "none"]
  <2>1. s \in DeceptionPolicySpec /\ s # None
    BY CaptorSpecsAssumption, CaptorNoneAssumption
  <2>2. o \in Objects
    BY <2>1 DEF Objects, PolicyObject, Reasons, BudgetTypes
  <2>3. ObjectTypes'
    BY <1>1, <2>2, WritePolicyTypes DEF CreatePolicy, cacheVars
  <2> QED BY <1>1, <2>3, Budgets, TypesStable DEF CreatePolicy, cacheVars, reqVars
<1>2. ASSUME NEW p \in Policies, NEW s \in SpecsOf[p], EditPolicy(p, s) PROVE Types'
  <2> DEFINE o == [policy[p] EXCEPT !.spec = s]
  <2>1. s \in DeceptionPolicySpec /\ s # None
    BY CaptorSpecsAssumption, CaptorNoneAssumption
  <2>2. o \in Objects
    BY <2>1 DEF Objects, PolicyObject, ObjectTypes
  <2>3. ObjectTypes'
    BY <1>2, <2>2, WritePolicyTypes DEF EditPolicy, cacheVars
  <2> QED BY <1>2, <2>3, Budgets, TypesStable DEF EditPolicy, cacheVars, reqVars
<1>3. ASSUME NEW p \in Policies, DeletePolicy(p) PROVE Types'
  <2> DEFINE o == IF policy[p].fin THEN [policy[p] EXCEPT !.phase = "deleting"]
                                   ELSE Gone(policy[p])
  <2>1. policy[p] \in Objects /\ policy[p].phase = "live"
    BY <1>3 DEF ObjectTypes, DeletePolicy
  <2>2. [policy[p] EXCEPT !.phase = "deleting"] \in Objects
    BY <2>1 DEF Objects, PolicyObject
  <2>3. o \in Objects
    BY <2>1, <2>2, GoneObject
  <2>4. ObjectTypes'
    BY <1>3, <2>3, WritePolicyTypes DEF DeletePolicy, cacheVars
  <2> QED BY <1>3, <2>4, Budgets, TypesStable DEF DeletePolicy, cacheVars, reqVars
<1>4. CASE WatchEvent
  <2>1. QueueTypes'
    BY <1>4 DEF WatchEvent, QueueTypes
  <2> QED BY <1>4, <2>1, Budgets, TypesStable
          DEF WatchEvent, apiVars, cacheVars, freshVars, reqVars
<1> QED BY <1>1, <1>2, <1>3, <1>4 DEF UserStep

\* Informers, timers, the garbage collector and the beginning of a request.
LEMMA ControllerTypes ==
    ASSUME Types,
           \/ \E p \in Policies : SyncPolicy(p) \/ FireTimer(p) \/ Fetch(p)
           \/ \E n \in Names : SyncCaptor(n) \/ CollectGarbage(n)
    PROVE  Types'
<1> USE DEF Types
<1>1. ASSUME NEW p \in Policies, SyncPolicy(p) PROVE Types'
  <2>1. ObjectTypes' /\ QueueTypes'
    BY <1>1 DEF SyncPolicy, ObjectTypes, QueueTypes
  <2> QED BY <1>1, <2>1, TypesStable DEF SyncPolicy, reqVars
<1>2. ASSUME NEW p \in Policies, FireTimer(p) PROVE Types'
  <2>1. QueueTypes'
    BY <1>2 DEF FireTimer, QueueTypes
  <2> QED BY <1>2, <2>1, TypesStable DEF FireTimer, apiVars, cacheVars, freshVars, reqVars
<1>3. ASSUME NEW p \in Policies, Fetch(p) PROVE Types'
  <2>1. QueueTypes' /\ HistoryTypes'
    BY <1>3 DEF Fetch, QueueTypes, HistoryTypes
  <2>2. RequestTypes'
    <3>1. CASE UNCHANGED <<pc, cur, goal>>
      BY <1>3, <3>1 DEF Fetch, RequestTypes
    <3>2. CASE /\ cpolicy[p].phase # "absent" /\ cur' = p /\ goal' = cpolicy[p]
               /\ pc' \in {"release", "list", "adopt"}
      <4>1. cpolicy[p] \in PolicyObject /\ cpolicy[p].spec # None /\ p # None
        BY <3>2, CaptorNoneAssumption DEF ObjectTypes, Objects
      <4> QED BY <1>3, <3>2, <4>1 DEF Fetch, RequestTypes
    <3> QED BY <1>3, <3>1, <3>2 DEF Fetch
  <2> QED BY <1>3, <2>1, <2>2, TypesStable DEF Fetch, apiVars, cacheVars, freshVars
<1>4. ASSUME NEW n \in Names, SyncCaptor(n) PROVE Types'
  <2>1. CaptorTypes'
    BY <1>4 DEF SyncCaptor, CaptorTypes, apiVars
  <2> QED BY <1>4, <2>1, TypesStable DEF SyncCaptor, apiVars, reqVars
<1>5. ASSUME NEW n \in Names, CollectGarbage(n) PROVE Types'
  <2>1. CaptorTypes'
    BY <1>5, WriteCaptorTypes DEF CollectGarbage, cacheVars
  <2> QED BY <1>5, <2>1, TypesStable DEF CollectGarbage, cacheVars, reqVars
<1> QED BY <1>1, <1>2, <1>3, <1>4, <1>5

\* Steps that end a request.
LEMMA ReturnStepTypes ==
    ASSUME Types,
           PutFinalizer \/ UpdateStatus \/ ReleasePolicy \/ CleanupNotFound \/ WriteFails
    PROVE  Types'
<1> USE DEF Types
<1>1. pc # "idle" /\ cur \in Policies
  BY DEF PutFinalizer, UpdateStatus, ReleasePolicy, CleanupNotFound, WriteFails, RequestTypes
<1>2. cpolicy[cur] \in Objects
  BY <1>1 DEF ObjectTypes
<1>3. RequestTypes' /\ QueueTypes'
  BY <1>1, ReturnTypes
     DEF PutFinalizer, UpdateStatus, ReleasePolicy, CleanupNotFound, WriteFails
<1>4. CASE PutFinalizer
  <2>1. [cpolicy[cur] EXCEPT !.fin = TRUE] \in Objects
    BY <1>2 DEF Objects, PolicyObject
  <2>2. ObjectTypes'
    BY <1>4, <2>1, WritePolicyTypes, TypesStable DEF PutFinalizer, cacheVars
  <2> QED BY <1>3, <1>4, <2>2, TypesStable DEF PutFinalizer, cacheVars
<1>5. CASE UpdateStatus
  <2>1. [cpolicy[cur] EXCEPT !.status = CaptorsReason] \in Objects
    BY <1>2 DEF Objects, PolicyObject, CaptorsReason, Reasons
  <2>2. ObjectTypes'
    BY <1>5, <2>1, WritePolicyTypes, TypesStable DEF UpdateStatus, cacheVars
  <2> QED BY <1>3, <1>5, <2>2, TypesStable DEF UpdateStatus, cacheVars
<1>6. CASE ReleasePolicy
  <2>1. ObjectTypes'
    BY <1>2, <1>6, GoneObject, WritePolicyTypes DEF ReleasePolicy, cacheVars
  <2> QED BY <1>3, <1>6, <2>1, TypesStable DEF ReleasePolicy, cacheVars
<1>7. CASE WriteFails
  BY <1>3, <1>7, Budgets, TypesStable DEF WriteFails, apiVars, cacheVars, freshVars
<1>8. CASE CleanupNotFound
  <2>1. HistoryTypes'
    BY <1>1, <1>8 DEF CleanupNotFound, HistoryTypes
  <2> QED BY <1>3, <1>8, <2>1, Budgets, TypesStable
          DEF CleanupNotFound, apiVars, cacheVars, freshVars
<1> QED BY <1>4, <1>5, <1>6, <1>7, <1>8

\* The clean-up.
LEMMA CleanupTypes ==
    ASSUME Types,
           \/ ListCaptors \/ FinishDelete \/ CleanUpDecoys \/ CleanupFails
           \/ \E n \in Names : DeleteCaptor(n) \/ DeleteNotFound(n)
    PROVE  Types'
<1> USE DEF Types
<1>1. CASE ListCaptors
  <2>1. RequestTypes' /\ HistoryTypes'
    BY <1>1, ReadTypes DEF ListCaptors, RequestTypes
  <2> QED BY <1>1, <2>1, TypesStable DEF ListCaptors, apiVars, cacheVars, freshVars
<1>2. CASE FinishDelete
  <2>1. RequestTypes'
    BY <1>2 DEF FinishDelete, RequestTypes, reqVars
  <2> QED BY <1>2, <2>1, TypesStable DEF FinishDelete, apiVars, cacheVars, freshVars, reqVars
<1>3. CASE CleanUpDecoys
  <2>1. RequestTypes'
    BY <1>3, CaptorTrapsAssumption DEF CleanUpDecoys, RequestTypes, reqVars
  <2> QED BY <1>3, <2>1, TypesStable DEF CleanUpDecoys, apiVars, cacheVars, freshVars, reqVars
<1>4. ASSUME NEW n \in Names, DeleteCaptor(n) PROVE Types'
  <2>1. CaptorTypes'
    BY <1>4, WriteCaptorTypes DEF DeleteCaptor, cacheVars
  <2>2. RequestTypes'
    BY <1>4 DEF DeleteCaptor, RequestTypes, reqVars
  <2> QED BY <1>4, <2>1, <2>2, TypesStable DEF DeleteCaptor, cacheVars, reqVars
<1>5. ASSUME StopCleanup, pc \in {"delete", "decoys"}, BudgetTypes' PROVE Types'
  <2>1. RequestTypes'
    BY <1>5 DEF StopCleanup, RequestTypes, reqVars
  <2> QED BY <1>5, <2>1, TypesStable DEF StopCleanup, apiVars, cacheVars, freshVars, reqVars
<1>6. CASE CleanupFails
  BY <1>5, <1>6, Budgets DEF CleanupFails
<1>7. ASSUME NEW n \in Names, DeleteNotFound(n) PROVE Types'
  BY <1>5, <1>7, TypesStable DEF DeleteNotFound
<1> QED BY <1>1, <1>2, <1>3, <1>4, <1>6, <1>7

\* What the generators make is a captor.
LEMMA GeneratedType == Types /\ pc # "idle" => Generated \in CaptorObject
BY DEF Types, RequestTypes, Generated, CaptorObject, PolicyObject

\* The deployment of the captor of a trap.
LEMMA DeployTypes ==
    ASSUME Types, NEW t \in Traps,
           \/ SkipCaptor(t) \/ KeepTracingPolicy(t) \/ CreateTracingPolicy(t)
           \/ ApplyKivePolicy(t) \/ DeployFails(t)
    PROVE  Types'
<1> USE DEF Types
<1>1. Done(t) /\ pc # "idle"
  BY DEF SkipCaptor, KeepTracingPolicy, CreateTracingPolicy, ApplyKivePolicy, DeployFails, Done
<1>2. failed' \subseteq Traps
  BY DEF SkipCaptor, KeepTracingPolicy, CreateTracingPolicy, ApplyKivePolicy, DeployFails,
         RequestTypes
<1>3. RequestTypes'
  BY <1>1, <1>2 DEF Done, RequestTypes
<1>4. ObjectTypes' /\ QueueTypes'
  BY <1>1, TypesStable DEF Done, cacheVars
<1>5. CaptorTypes'
  <2>1. \/ UNCHANGED <<captor, capFresh>>
        \/ WriteCaptor(NameOf[t], Generated)
    BY DEF SkipCaptor, KeepTracingPolicy, CreateTracingPolicy, ApplyKivePolicy, DeployFails
  <2>2. Generated \in CaptorObject
    BY <1>1, GeneratedType
  <2> QED BY <1>1, <2>1, <2>2, WriteCaptorTypes, TypesStable DEF Done, cacheVars
<1>6. HistoryTypes'
  <2>1. UNCHANGED misread \/ Read({NameOf[t]})
    BY DEF SkipCaptor, KeepTracingPolicy, CreateTracingPolicy, ApplyKivePolicy, DeployFails
  <2> QED BY <1>1, <2>1, ReadTypes, TypesStable
<1>7. BudgetTypes'
  BY Budgets, TypesStable
     DEF SkipCaptor, KeepTracingPolicy, CreateTracingPolicy, ApplyKivePolicy, DeployFails
<1> QED BY <1>3, <1>4, <1>5, <1>6, <1>7

\* The end of the deployment, by itself or by a panic.
LEMMA EndDeployTypes ==
    ASSUME Types, FinishDeploy \/ \E t \in Traps : GeneratePanics(t)
    PROVE  Types'
<1> USE DEF Types
<1>1. CASE FinishDeploy
  <2>1. RequestTypes'
    BY <1>1 DEF FinishDeploy, RequestTypes, reqVars
  <2> QED BY <1>1, <2>1, TypesStable DEF FinishDeploy, apiVars, cacheVars, freshVars, reqVars
<1>2. ASSUME NEW t \in Traps, GeneratePanics(t) PROVE Types'
  <2>1. RequestTypes'
    BY <1>2 DEF GeneratePanics, RequestTypes
  <2>2. HistoryTypes'
    BY <1>2, ReadTypes, TypesStable DEF GeneratePanics
  <2> QED BY <1>2, <2>1, <2>2, TypesStable DEF GeneratePanics, apiVars, cacheVars, freshVars
<1> QED BY <1>1, <1>2

\* A restart of the controller.
LEMMA CrashTypes == Types /\ Crash => Types'
<1> SUFFICES ASSUME Types, Crash PROVE Types'
  OBVIOUS
<1> USE DEF Types
<1>1. ObjectTypes' /\ CaptorTypes'
  BY DEF Crash, ObjectTypes, CaptorTypes
<1>2. QueueTypes' /\ HistoryTypes' /\ BudgetTypes'
  BY Budgets DEF Crash, QueueTypes, HistoryTypes
<1>3. RequestTypes'
  BY ForgetTypes DEF Crash
<1> QED BY <1>1, <1>2, <1>3

\* All steps together.
LEMMA StepTypes == Types /\ [Next]_vars => Types'
<1> SUFFICES ASSUME Types, [Next]_vars PROVE Types'
  OBVIOUS
<1>1. CASE UNCHANGED vars
  BY <1>1, TypesStable DEF Types, vars, apiVars, cacheVars, freshVars, reqVars
<1>2. CASE FaultStep
  BY <1>2, CleanupTypes, ReturnStepTypes, CrashTypes, DeployTypes DEF FaultStep
<1>3. CASE WorkerStep
  BY <1>3, ReturnStepTypes, CleanupTypes, DeployTypes, EndDeployTypes DEF WorkerStep
<1> QED BY <1>1, <1>2, <1>3, UserTypes, ControllerTypes DEF Next

\* The types hold always.
LEMMA AlwaysTyped == Spec => []Types
BY InitTypes, StepTypes, PTL DEF Spec

\* Every variable keeps its type, for all policies, traps, captors and environments.
THEOREM CaptorsAreTyped == Spec => []TypeOK
BY AlwaysTyped, TypesSuffice, PTL

-----------------------------------------------------------------------------
(* Owners.                                                                 *)

\* A cached policy that counts as current equals the stored one.
Coherent == \A p \in Policies : polFresh[p] => cpolicy[p] = policy[p]

\* From its first look at captors to its end, a request works for a policy that
\* exists, under the finalizer that keeps it, and with the uid it has read: only
\* the worker takes the finalizer away.
WorksForTheLiving == pc \notin {"idle", "adopt"} => cur \in Policies /\ OwnerExists(cur)

OwnerInv == Coherent /\ WorksForTheLiving

\* Caches are coherent after a write and after a step that writes no policy.
LEMMA CoherentWrite ==
    ASSUME Types, Coherent, NEW p, NEW o, NEW e, WritePolicy(p, o, e), UNCHANGED cpolicy
    PROVE  Coherent'
BY DEF Types, ObjectTypes, Coherent, WritePolicy

\* The same for steps that leave the policies alone.
LEMMA OwnerStable ==
    ASSUME OwnerInv, UNCHANGED <<policy, polFresh, cpolicy>>,
           \/ pc' \in {"idle", "adopt"}
           \/ pc \notin {"idle", "adopt"} /\ UNCHANGED <<cur, goal>>
    PROVE  OwnerInv'
BY DEF OwnerInv, Coherent, WorksForTheLiving, OwnerExists

\* Users may mark the policy in progress for deletion or change its spec: it
\* exists as before.
LEMMA UserOwner == Types /\ OwnerInv /\ UserStep => OwnerInv'
<1> SUFFICES ASSUME Types, OwnerInv, UserStep PROVE OwnerInv'
  OBVIOUS
<1>1. policy \in [Policies -> Objects] /\ Coherent
  BY DEF Types, ObjectTypes, OwnerInv
<1>2. ASSUME NEW p \in Policies, NEW o, WritePolicy(p, o, TRUE), UNCHANGED <<cpolicy, pc, cur, goal>>,
             policy[p].phase # "absent" /\ policy[p].fin
                => o.phase # "absent" /\ o.fin /\ o.uid = policy[p].uid
      PROVE  OwnerInv'
  <2>1. Coherent'
    BY <1>1, <1>2, CoherentWrite
  <2>2. WorksForTheLiving'
    BY <1>1, <1>2 DEF WritePolicy, OwnerInv, WorksForTheLiving, OwnerExists
  <2> QED BY <2>1, <2>2 DEF OwnerInv
<1>3. ASSUME NEW p \in Policies, NEW s \in SpecsOf[p], CreatePolicy(p, s) PROVE OwnerInv'
  BY <1>2, <1>3 DEF CreatePolicy, cacheVars, reqVars, localVars
<1>4. ASSUME NEW p \in Policies, NEW s \in SpecsOf[p], EditPolicy(p, s) PROVE OwnerInv'
  <2>1. policy[p] \in PolicyObject
    BY <1>1 DEF Objects
  <2>2. /\ [policy[p] EXCEPT !.spec = s].phase = policy[p].phase
        /\ [policy[p] EXCEPT !.spec = s].fin = policy[p].fin
        /\ [policy[p] EXCEPT !.spec = s].uid = policy[p].uid
    BY <2>1 DEF PolicyObject
  <2> QED BY <1>2, <1>4, <2>2 DEF EditPolicy, cacheVars, reqVars, localVars
<1>5. ASSUME NEW p \in Policies, DeletePolicy(p) PROVE OwnerInv'
  <2>1. policy[p] \in PolicyObject
    BY <1>1 DEF Objects
  <2>2. /\ [policy[p] EXCEPT !.phase = "deleting"].phase = "deleting"
        /\ [policy[p] EXCEPT !.phase = "deleting"].fin = policy[p].fin
        /\ [policy[p] EXCEPT !.phase = "deleting"].uid = policy[p].uid
    BY <2>1 DEF PolicyObject
  <2> QED BY <1>2, <1>5, <2>2 DEF DeletePolicy, cacheVars, reqVars, localVars
<1>6. CASE WatchEvent
  BY <1>6, OwnerStable DEF WatchEvent, apiVars, cacheVars, freshVars, reqVars, localVars
<1> QED BY <1>3, <1>4, <1>5, <1>6 DEF UserStep

\* The beginning of a request reads the policy when it is current, and goes on
\* without putFinalizer only if the finalizer is there.
LEMMA FetchOwner == ASSUME Types, OwnerInv, NEW p \in Policies, Fetch(p) PROVE OwnerInv'
<1>1. Coherent'
  BY DEF Fetch, OwnerInv, Coherent, apiVars, cacheVars, freshVars
<1>2. policy[p] = cpolicy[p] /\ policy[p] \in PolicyObject
  BY DEF Fetch, OwnerInv, Coherent, Types, ObjectTypes, Objects
<1>3. CASE UNCHANGED <<pc, cur, goal>>
  BY <1>3, OwnerStable DEF Fetch, apiVars, cacheVars, freshVars
<1>4. CASE pc' = "adopt"
  BY <1>1, <1>4 DEF OwnerInv, WorksForTheLiving
<1>5. CASE /\ cur' = p /\ goal' = cpolicy[p] /\ cpolicy[p].fin
           /\ cpolicy[p].phase \in {"live", "deleting"}
  BY <1>1, <1>2, <1>5 DEF Fetch, OwnerInv, WorksForTheLiving, OwnerExists, apiVars
<1> QED BY <1>2, <1>3, <1>4, <1>5 DEF Fetch, PolicyObject

\* A request that ends owes nothing.
LEMMA ReturnOwner ==
    ASSUME Types, OwnerInv,
           \/ PutFinalizer \/ UpdateStatus \/ ReleasePolicy
           \/ CleanupNotFound \/ WriteFails \/ Crash
    PROVE  OwnerInv'
<1>1. pc' = "idle"
  BY DEF PutFinalizer, UpdateStatus, ReleasePolicy, CleanupNotFound, WriteFails, Crash, Return,
         ForgetRequest
<1>2. Coherent'
  <2>1. CASE Crash
    BY <2>1 DEF Crash, Coherent
  <2>2. CASE UNCHANGED <<policy, polEvent, polFresh, cpolicy>>
    BY <2>2 DEF OwnerInv, Coherent
  <2>3. ASSUME NEW o, NEW e, WritePolicy(cur, o, e), UNCHANGED cpolicy PROVE Coherent'
    BY <2>3, CoherentWrite DEF OwnerInv
  <2> QED BY <2>1, <2>2, <2>3
          DEF PutFinalizer, UpdateStatus, ReleasePolicy, CleanupNotFound, WriteFails, apiVars,
              cacheVars, freshVars
<1> QED BY <1>1, <1>2 DEF OwnerInv, WorksForTheLiving

\* All other steps leave policies and request as they are.
LEMMA OwnerStep == Types /\ OwnerInv /\ [Next]_vars => OwnerInv'
<1> SUFFICES ASSUME Types, OwnerInv, [Next]_vars PROVE OwnerInv'
  OBVIOUS
<1>1. ASSUME NEW p \in Policies, SyncPolicy(p) PROVE OwnerInv'
  BY <1>1 DEF SyncPolicy, OwnerInv, Coherent, WorksForTheLiving, OwnerExists, Types, ObjectTypes,
              reqVars, localVars
<1>2. ASSUME NEW p \in Policies, FireTimer(p) PROVE OwnerInv'
  BY <1>2, OwnerStable DEF FireTimer, apiVars, cacheVars, freshVars, reqVars, localVars
<1>3. ASSUME NEW n \in Names, SyncCaptor(n) \/ CollectGarbage(n) PROVE OwnerInv'
  BY <1>3, OwnerStable DEF SyncCaptor, CollectGarbage, apiVars, cacheVars, reqVars, localVars
<1>4. CASE ListCaptors \/ FinishDelete \/ CleanUpDecoys \/ CleanupFails
  BY <1>4, OwnerStable
     DEF ListCaptors, FinishDelete, CleanUpDecoys, CleanupFails, StopCleanup, apiVars, cacheVars,
         freshVars, reqVars
<1>5. ASSUME NEW n \in Names, DeleteCaptor(n) \/ DeleteNotFound(n) PROVE OwnerInv'
  BY <1>5, OwnerStable
     DEF DeleteCaptor, DeleteNotFound, StopCleanup, apiVars, cacheVars, freshVars, reqVars
<1>6. ASSUME NEW t \in Traps,
             \/ SkipCaptor(t) \/ KeepTracingPolicy(t) \/ CreateTracingPolicy(t)
             \/ ApplyKivePolicy(t) \/ DeployFails(t)
      PROVE  OwnerInv'
  <2>1. Done(t)
    BY <1>6 DEF SkipCaptor, KeepTracingPolicy, CreateTracingPolicy, ApplyKivePolicy, DeployFails
  <2> QED BY <2>1, OwnerStable DEF Done, cacheVars
<1>7. CASE FinishDeploy \/ \E t \in Traps : GeneratePanics(t)
  BY <1>7, OwnerStable DEF FinishDeploy, GeneratePanics, apiVars, cacheVars, freshVars, reqVars
<1>8. CASE UNCHANGED vars
  BY <1>8, OwnerStable DEF vars, apiVars, cacheVars, freshVars, reqVars, localVars
<1> QED BY <1>1, <1>2, <1>3, <1>4, <1>5, <1>6, <1>7, <1>8, UserOwner, FetchOwner, ReturnOwner
        DEF Next, FaultStep, WorkerStep

\* In the beginning nobody works.
LEMMA OwnerInit == Init => OwnerInv
BY DEF Init, OwnerInv, Coherent, WorksForTheLiving

\* Only two actions make a captor, with the label and the uid of the policy in progress.
LEMMA CaptorMakers ==
    ASSUME Types, [Next]_vars, NEW n \in Names, captor'[n] # None, captor'[n] # captor[n]
    PROVE  /\ pc = "deploy" /\ captor'[n] = Generated
           /\ \E t \in Traps : n = NameOf[t] /\ (CreateTracingPolicy(t) \/ ApplyKivePolicy(t))
<1>1. CASE \E t \in Traps : CreateTracingPolicy(t) \/ ApplyKivePolicy(t)
  BY <1>1 DEF CreateTracingPolicy, ApplyKivePolicy, Done, WriteCaptor, Types, CaptorTypes
<1>2. CASE \E k \in Names : CollectGarbage(k) \/ DeleteCaptor(k)
  BY <1>2 DEF CollectGarbage, DeleteCaptor, WriteCaptor, Types, CaptorTypes
<1>3. ~UNCHANGED captor
  OBVIOUS
<1>4. ~(UserStep \/ Crash \/ WriteFails \/ CleanupNotFound \/ UNCHANGED vars)
  BY <1>3 DEF UserStep, CreatePolicy, EditPolicy, DeletePolicy, WatchEvent, Crash, WriteFails,
              CleanupNotFound, vars, apiVars
<1>5. ~\E p \in Policies : SyncPolicy(p) \/ FireTimer(p) \/ Fetch(p)
  BY <1>3 DEF SyncPolicy, FireTimer, Fetch, apiVars
<1>6. ~\E k \in Names : SyncCaptor(k) \/ DeleteNotFound(k)
  BY <1>3 DEF SyncCaptor, DeleteNotFound, StopCleanup, apiVars
<1>7. ~(\/ PutFinalizer \/ ListCaptors \/ FinishDelete \/ CleanUpDecoys \/ CleanupFails
        \/ FinishDeploy \/ UpdateStatus \/ ReleasePolicy)
  BY <1>3 DEF PutFinalizer, ListCaptors, FinishDelete, CleanUpDecoys, CleanupFails, StopCleanup,
              FinishDeploy, UpdateStatus, ReleasePolicy, apiVars
<1>8. ~\E t \in Traps : SkipCaptor(t) \/ KeepTracingPolicy(t) \/ DeployFails(t) \/ GeneratePanics(t)
  BY <1>3 DEF SkipCaptor, KeepTracingPolicy, DeployFails, GeneratePanics, apiVars
<1> QED BY <1>1, <1>2, <1>4, <1>5, <1>6, <1>7, <1>8 DEF Next, FaultStep, WorkerStep

\* A captor is only made for a policy that exists, has its finalizer and is the one
\* that the request has read: whatever users do meanwhile, and however often the
\* name is used again, the garbage collector does not take a new captor away while
\* its request is in progress (putFinalizer; the owner references of the generators).
THEOREM CaptorsAreOwned == Spec => MadeForTheLiving
<1>1. Types /\ OwnerInv /\ [Next]_vars => [\A n \in Names : MadeWell(n)]_vars
  <2> SUFFICES ASSUME Types, OwnerInv, [Next]_vars, NEW n \in Names,
                      captor'[n] # None, captor'[n] # captor[n]
               PROVE  OwnedByTheLiving(captor'[n])
    BY DEF MadeWell
  <2>1. pc = "deploy" /\ captor'[n] = Generated
    BY CaptorMakers
  <2>2. OwnerExists(cur)
    BY <2>1 DEF OwnerInv, WorksForTheLiving
  <2> QED BY <2>1, <2>2 DEF Generated, OwnerExists, OwnedByTheLiving
<1>2. Spec => []OwnerInv
  BY OwnerInit, OwnerStep, AlwaysTyped, PTL DEF Spec
<1> QED BY <1>1, <1>2, AlwaysTyped, PTL DEF Spec, MadeForTheLiving

-----------------------------------------------------------------------------
(* Clean-up.                                                               *)

\* No two policies ask for the same captor.  Tetragon policies are named after
\* traps alone, so that it takes different traps.
Apart == \A p, q \in Policies : p # q =>
            \A s \in SpecsOf[p], r \in SpecsOf[q] : Captors(s.traps) \cap Captors(r.traps) = {}

\* A name that policy p may ask for.
Own(p, n) == \E s \in SpecsOf[p] : n \in Captors(s.traps)

\* Policies have specs that their users apply; captors have the label of a policy
\* that may ask for them.
SpecsAreUsers ==
    /\ \A p \in Policies : /\ policy[p].phase # "absent" => policy[p].spec \in SpecsOf[p]
                           /\ cpolicy[p].phase # "absent" => cpolicy[p].spec \in SpecsOf[p]
    /\ pc # "idle" => goal.spec \in SpecsOf[cur]
LabelsTell ==
    \A n \in Names : /\ captor[n] # None => Own(captor[n].label, n)
                     /\ ccaptor[n] # None => Own(ccaptor[n].label, n)

\* What is deleted may belong to the policy in progress, and the spec as first read
\* does not ask for it.
SurplusIsOurs == pc = "delete" => \A n \in surplus : Own(cur, n) /\ n \notin Wanted

\* If the spec is not the one that the request has read, another request is certain.
NewsComes ==
    pc # "idle" => \/ goal.spec = policy[cur].spec
                   \/ cur \in queue
                   \/ ~polFresh[cur] /\ polEvent[cur]

\* Captors are deployed for traps of the spec as first read.
TodoIsAsked == pc = "deploy" => todo \subseteq goal.spec.traps

CleanupInv == SpecsAreUsers /\ LabelsTell /\ SurplusIsOurs /\ NewsComes /\ TodoIsAsked

\* What each of the five parts depends on.
LEMMA CleanupStable ==
    /\ SpecsAreUsers /\ UNCHANGED <<policy, cpolicy, goal, cur>> /\ (pc = "idle" => pc' = "idle")
          => SpecsAreUsers'
    /\ SpecsAreUsers /\ UNCHANGED <<policy, cpolicy>> /\ pc' = "idle" => SpecsAreUsers'
    /\ LabelsTell /\ UNCHANGED <<captor, ccaptor>> => LabelsTell'
    /\ pc' # "delete" => SurplusIsOurs'
    /\ SurplusIsOurs /\ pc = "delete" /\ surplus' \subseteq surplus /\ UNCHANGED <<cur, goal>>
          => SurplusIsOurs'
    /\ NewsComes /\ UNCHANGED <<policy, polFresh, polEvent, cur, goal>> /\ queue \subseteq queue'
       /\ (pc = "idle" => pc' = "idle") => NewsComes'
    /\ pc' = "idle" => NewsComes'
    /\ pc' # "deploy" => TodoIsAsked'
    /\ TodoIsAsked /\ pc = "deploy" /\ todo' \subseteq todo /\ UNCHANGED goal => TodoIsAsked'
    /\ SurplusIsOurs /\ TodoIsAsked /\ UNCHANGED <<pc, surplus, todo, cur, goal>>
          => SurplusIsOurs' /\ TodoIsAsked'
BY DEF SpecsAreUsers, LabelsTell, Own, SurplusIsOurs, Wanted, NewsComes, TodoIsAsked

\* In the beginning there is nothing.
LEMMA CleanupInit == Init => CleanupInv
BY DEF Init, NoPolicy, CleanupInv, SpecsAreUsers, LabelsTell, SurplusIsOurs, NewsComes,
       TodoIsAsked

\* What users write brings an event.
LEMMA UserCleanup == Types /\ CleanupInv /\ UserStep => CleanupInv'
<1> SUFFICES ASSUME Types, CleanupInv, UserStep PROVE CleanupInv'
  OBVIOUS
<1>1. /\ policy \in [Policies -> Objects] /\ polFresh \in [Policies -> BOOLEAN]
      /\ polEvent \in [Policies -> BOOLEAN] /\ (pc # "idle" => cur \in Policies)
  BY DEF Types, ObjectTypes, RequestTypes
<1>2. ASSUME NEW p \in Policies, NEW o, WritePolicy(p, o, TRUE),
             UNCHANGED <<captor, capFresh, cacheVars, reqVars, localVars, queueVars>>,
             o.phase # "absent" => o.spec \in SpecsOf[p]
      PROVE  CleanupInv'
  <2>1. SpecsAreUsers'
    BY <1>1, <1>2 DEF CleanupInv, SpecsAreUsers, WritePolicy, cacheVars, reqVars, localVars
  <2>2. NewsComes'
    BY <1>1, <1>2 DEF CleanupInv, NewsComes, WritePolicy, reqVars, localVars, queueVars
  <2>3. LabelsTell'
    BY <1>2, CleanupStable DEF CleanupInv, cacheVars
  <2>4. SurplusIsOurs' /\ TodoIsAsked'
    BY <1>2, CleanupStable DEF CleanupInv, reqVars, localVars
  <2> QED BY <2>1, <2>2, <2>3, <2>4 DEF CleanupInv
<1>3. ASSUME NEW p \in Policies, NEW s \in SpecsOf[p], CreatePolicy(p, s) PROVE CleanupInv'
  BY <1>2, <1>3 DEF CreatePolicy
<1>4. ASSUME NEW p \in Policies, NEW s \in SpecsOf[p], EditPolicy(p, s) PROVE CleanupInv'
  <2>1. [policy[p] EXCEPT !.spec = s].spec = s
    BY <1>1 DEF Objects, PolicyObject
  <2> QED BY <1>2, <1>4, <2>1 DEF EditPolicy
<1>5. ASSUME NEW p \in Policies, DeletePolicy(p) PROVE CleanupInv'
  <2>1. [policy[p] EXCEPT !.phase = "deleting"].spec = policy[p].spec
    BY <1>1 DEF Objects, PolicyObject
  <2>2. Gone(policy[p]).phase = "absent"
    BY DEF Gone, NoPolicy
  <2>3. policy[p].spec \in SpecsOf[p]
    BY <1>5 DEF DeletePolicy, CleanupInv, SpecsAreUsers
  <2> QED BY <1>2, <1>5, <2>1, <2>2, <2>3 DEF DeletePolicy
<1>6. CASE WatchEvent
  <2>1. queue \subseteq queue'
    BY <1>6 DEF WatchEvent
  <2> QED BY <1>6, <2>1, CleanupStable
          DEF WatchEvent, CleanupInv, apiVars, cacheVars, freshVars, reqVars, localVars
<1> QED BY <1>3, <1>4, <1>5, <1>6 DEF UserStep

\* Informers pass events on; the beginning of a request reads the latest spec.
LEMMA ControllerCleanup ==
    ASSUME Types, OwnerInv, CleanupInv,
           \/ \E p \in Policies : SyncPolicy(p) \/ FireTimer(p) \/ Fetch(p)
           \/ \E n \in Names : SyncCaptor(n) \/ CollectGarbage(n)
    PROVE  CleanupInv'
<1>1. ASSUME NEW p \in Policies, SyncPolicy(p) PROVE CleanupInv'
  <2>1. SpecsAreUsers'
    BY <1>1 DEF SyncPolicy, CleanupInv, SpecsAreUsers, Types, ObjectTypes, reqVars, localVars
  <2>2. NewsComes'
    BY <1>1 DEF SyncPolicy, CleanupInv, NewsComes, Types, ObjectTypes, reqVars, localVars
  <2> QED BY <1>1, <2>1, <2>2, CleanupStable DEF SyncPolicy, CleanupInv, reqVars, localVars
<1>2. ASSUME NEW p \in Policies, FireTimer(p) PROVE CleanupInv'
  BY <1>2, CleanupStable
     DEF FireTimer, CleanupInv, apiVars, cacheVars, freshVars, reqVars, localVars
<1>3. ASSUME NEW p \in Policies, Fetch(p) PROVE CleanupInv'
  <2>1. policy[p] = cpolicy[p] /\ pc = "idle"
    BY <1>3 DEF Fetch, OwnerInv, Coherent
  <2>2. CASE pc' = "idle"
    BY <1>3, <2>2, CleanupStable DEF Fetch, CleanupInv, apiVars, cacheVars
  <2>3. CASE cur' = p /\ goal' = cpolicy[p] /\ cpolicy[p].phase # "absent" /\ pc' \notin {"delete", "deploy"}
    <3>1. SpecsAreUsers'
      BY <1>3, <2>3 DEF Fetch, CleanupInv, SpecsAreUsers, apiVars, cacheVars
    <3>2. NewsComes'
      BY <1>3, <2>1, <2>3 DEF Fetch, NewsComes, apiVars
    <3> QED BY <1>3, <2>3, <3>1, <3>2, CleanupStable DEF Fetch, CleanupInv, apiVars, cacheVars
  <2> QED BY <1>3, <2>1, <2>2, <2>3 DEF Fetch
<1>4. ASSUME NEW n \in Names, SyncCaptor(n) \/ CollectGarbage(n) PROVE CleanupInv'
  <2>1. LabelsTell'
    BY <1>4 DEF SyncCaptor, CollectGarbage, WriteCaptor, CleanupInv, LabelsTell, Own, Types,
                CaptorTypes, apiVars, cacheVars
  <2>2. UNCHANGED <<policy, polFresh, polEvent, cpolicy, queue, cur, goal, pc, surplus, todo>>
    BY <1>4 DEF SyncCaptor, CollectGarbage, apiVars, cacheVars, queueVars, reqVars, localVars
  <2> QED BY <2>1, <2>2, CleanupStable DEF CleanupInv
<1> QED BY <1>1, <1>2, <1>3, <1>4

\* The end of a request.
LEMMA ReturnCleanup ==
    ASSUME Types, CleanupInv,
           \/ PutFinalizer \/ UpdateStatus \/ ReleasePolicy
           \/ CleanupNotFound \/ WriteFails \/ Crash
    PROVE  CleanupInv'
<1>1. pc' = "idle"
  BY DEF PutFinalizer, UpdateStatus, ReleasePolicy, CleanupNotFound, WriteFails, Crash, Return,
         ForgetRequest
<1>2. LabelsTell'
  BY DEF PutFinalizer, UpdateStatus, ReleasePolicy, CleanupNotFound, WriteFails, Crash,
         CleanupInv, LabelsTell, Own, apiVars, cacheVars
<1>3. SpecsAreUsers'
  <2>1. CASE Crash
    BY <1>1, <2>1 DEF Crash, CleanupInv, SpecsAreUsers
  <2>2. CASE WriteFails \/ CleanupNotFound
    BY <1>1, <2>2, CleanupStable
       DEF WriteFails, CleanupNotFound, CleanupInv, apiVars, cacheVars
  <2>3. CASE PutFinalizer \/ UpdateStatus \/ ReleasePolicy
    <3>1. cur \in Policies /\ cpolicy[cur] \in PolicyObject /\ policy \in [Policies -> Objects]
      BY <2>3 DEF PutFinalizer, UpdateStatus, ReleasePolicy, Types, RequestTypes, ObjectTypes,
                  Objects
    <3>2. \/ UNCHANGED policy
          \/ \E o : /\ policy' = [policy EXCEPT ![cur] = o]
                    /\ o.phase # "absent" => /\ o.spec = cpolicy[cur].spec
                                             /\ cpolicy[cur].phase # "absent"
      <4>1. /\ [cpolicy[cur] EXCEPT !.fin = TRUE].spec = cpolicy[cur].spec
            /\ [cpolicy[cur] EXCEPT !.fin = TRUE].phase = cpolicy[cur].phase
            /\ [cpolicy[cur] EXCEPT !.status = CaptorsReason].spec = cpolicy[cur].spec
            /\ [cpolicy[cur] EXCEPT !.status = CaptorsReason].phase = cpolicy[cur].phase
            /\ Gone(cpolicy[cur]).phase = "absent"
        BY <3>1 DEF PolicyObject, Gone, NoPolicy
      <4> QED BY <2>3, <4>1 DEF PutFinalizer, UpdateStatus, ReleasePolicy, WritePolicy
    <3>3. cpolicy' = cpolicy
      BY <2>3 DEF PutFinalizer, UpdateStatus, ReleasePolicy, cacheVars
    <3> QED BY <1>1, <3>1, <3>2, <3>3 DEF CleanupInv, SpecsAreUsers
  <2> QED BY <2>1, <2>2, <2>3
<1> QED BY <1>1, <1>2, <1>3, CleanupStable DEF CleanupInv

\* The deployment labels what the spec of the policy asks for.
LEMMA DeployCleanup ==
    ASSUME Types, OwnerInv, CleanupInv, NEW t \in Traps,
           \/ SkipCaptor(t) \/ KeepTracingPolicy(t) \/ CreateTracingPolicy(t)
           \/ ApplyKivePolicy(t) \/ DeployFails(t)
    PROVE  CleanupInv'
<1>1. Done(t)
  BY DEF SkipCaptor, KeepTracingPolicy, CreateTracingPolicy, ApplyKivePolicy, DeployFails
<1>2. UNCHANGED <<policy, polFresh, polEvent, cpolicy, queue, cur, goal, pc>> /\ pc = "deploy"
  BY <1>1 DEF Done, cacheVars, queueVars
<1>3. LabelsTell'
  <2>1. CASE UNCHANGED captor
    BY <1>1, <2>1, CleanupStable DEF CleanupInv, Done, cacheVars
  <2>2. CASE WriteCaptor(NameOf[t], Generated) /\ NameOf[t] # None
    <3>1. captor'[NameOf[t]] = Generated \/ NameOf[t] \notin Names
      BY <2>2 DEF WriteCaptor, Types, CaptorTypes
    <3>2. Own(cur, NameOf[t])
      BY <1>1, <1>2, <2>2 DEF Own, Captors, CleanupInv, SpecsAreUsers, TodoIsAsked,
                       Done
    <3> QED BY <1>1, <2>2, <3>1, <3>2
            DEF WriteCaptor, Generated, CleanupInv, LabelsTell, Own, Done, Types, CaptorTypes,
                cacheVars
  <2> QED BY <2>1, <2>2
          DEF SkipCaptor, KeepTracingPolicy, CreateTracingPolicy, ApplyKivePolicy, DeployFails,
              Tetragon, Kive
<1>4. todo' \subseteq todo
  BY <1>1 DEF Done
<1> QED BY <1>2, <1>3, <1>4, CleanupStable DEF CleanupInv

\* The clean-up lists what has the label of its policy and is not wanted, and
\* deletes nothing else.
LEMMA WorkCleanup ==
    ASSUME Types, OwnerInv, CleanupInv,
           \/ ListCaptors \/ FinishDelete \/ CleanUpDecoys \/ CleanupFails \/ FinishDeploy
           \/ (\E n \in Names : DeleteCaptor(n) \/ DeleteNotFound(n))
           \/ (\E t \in Traps : GeneratePanics(t))
    PROVE  CleanupInv'
<1>1. CASE ListCaptors
  <2>1. SurplusIsOurs'
    BY <1>1 DEF ListCaptors, CleanupInv, LabelsTell, SurplusIsOurs, Own, Wanted, cacheVars
  <2>2. pc' = "delete" /\ pc = "list"
    BY <1>1 DEF ListCaptors
  <2> QED BY <1>1, <2>1, <2>2, CleanupStable
          DEF ListCaptors, CleanupInv, apiVars, cacheVars, freshVars, queueVars
<1>2. CASE FinishDelete
  BY <1>2, CleanupStable
     DEF FinishDelete, CleanupInv, apiVars, cacheVars, freshVars, queueVars, reqVars
<1>3. CASE CleanUpDecoys
  <2>1. TodoIsAsked'
    BY <1>3 DEF CleanUpDecoys, TodoIsAsked, reqVars
  <2>2. pc = "decoys" /\ pc' \notin {"delete", "idle"}
    BY <1>3 DEF CleanUpDecoys
  <2> QED BY <1>3, <2>1, <2>2, CleanupStable
          DEF CleanUpDecoys, CleanupInv, apiVars, cacheVars, freshVars, queueVars, reqVars
<1>4. CASE FinishDeploy \/ \E t \in Traps : GeneratePanics(t)
  BY <1>4, CleanupStable
     DEF FinishDeploy, GeneratePanics, CleanupInv, apiVars, cacheVars, freshVars, queueVars,
         reqVars
<1>5. CASE CleanupFails \/ \E n \in Names : DeleteNotFound(n)
  BY <1>5, CleanupStable
     DEF CleanupFails, DeleteNotFound, StopCleanup, CleanupInv, apiVars, cacheVars, freshVars,
         queueVars, reqVars
<1>6. ASSUME NEW n \in Names, DeleteCaptor(n) PROVE CleanupInv'
  <2>1. LabelsTell'
    BY <1>6 DEF DeleteCaptor, WriteCaptor, CleanupInv, LabelsTell, Own, Types, CaptorTypes,
                cacheVars
  <2>2. UNCHANGED <<policy, polFresh, polEvent, cpolicy, queue, cur, goal, pc>> /\ pc = "delete"
        /\ surplus' \subseteq surplus
    BY <1>6 DEF DeleteCaptor, cacheVars, queueVars, reqVars
  <2> QED BY <2>1, <2>2, CleanupStable DEF CleanupInv
<1> QED BY <1>1, <1>2, <1>3, <1>4, <1>5, <1>6

\* All steps together.
LEMMA CleanupStep == Types /\ OwnerInv /\ CleanupInv /\ [Next]_vars => CleanupInv'
<1> SUFFICES ASSUME Types, OwnerInv, CleanupInv, [Next]_vars PROVE CleanupInv'
  OBVIOUS
<1>1. CASE UNCHANGED vars
  BY <1>1, CleanupStable
     DEF vars, CleanupInv, apiVars, cacheVars, freshVars, reqVars, localVars, queueVars
<1> QED BY <1>1, UserCleanup, ControllerCleanup, ReturnCleanup, DeployCleanup, WorkCleanup
        DEF Next, FaultStep, WorkerStep

\* Only the garbage collector and the clean-up take captors away.
LEMMA CaptorTakers ==
    ASSUME Types, [Next]_vars, NEW n \in Names, captor[n] # None, captor'[n] = None
    PROVE  CollectGarbage(n) \/ DeleteCaptor(n)
<1>1. ~UNCHANGED captor
  OBVIOUS
<1>2. ASSUME NEW t \in Traps, CreateTracingPolicy(t) \/ ApplyKivePolicy(t) PROVE FALSE
  <2>1. pc # "idle" /\ (UNCHANGED captor \/ WriteCaptor(NameOf[t], Generated))
    BY <1>2 DEF CreateTracingPolicy, ApplyKivePolicy, Done
  <2>2. Generated # None
    BY <2>1, GeneratedType, NoCaptorAssumption
  <2> QED BY <1>1, <2>1, <2>2 DEF WriteCaptor, Types, CaptorTypes
<1>3. ASSUME NEW k \in Names, CollectGarbage(k) \/ DeleteCaptor(k)
      PROVE  CollectGarbage(n) \/ DeleteCaptor(n)
  <2>1. k = n
    BY <1>3 DEF CollectGarbage, DeleteCaptor, WriteCaptor, Types, CaptorTypes
  <2> QED BY <1>3, <2>1
<1>4. ~(UserStep \/ Crash \/ WriteFails \/ CleanupNotFound \/ UNCHANGED vars)
  BY <1>1 DEF UserStep, CreatePolicy, EditPolicy, DeletePolicy, WatchEvent, Crash, WriteFails,
              CleanupNotFound, vars, apiVars
<1>5. ~\E p \in Policies : SyncPolicy(p) \/ FireTimer(p) \/ Fetch(p)
  BY <1>1 DEF SyncPolicy, FireTimer, Fetch, apiVars
<1>6. ~\E k \in Names : SyncCaptor(k) \/ DeleteNotFound(k)
  BY <1>1 DEF SyncCaptor, DeleteNotFound, StopCleanup, apiVars
<1>7. ~(\/ PutFinalizer \/ ListCaptors \/ FinishDelete \/ CleanUpDecoys \/ CleanupFails
        \/ FinishDeploy \/ UpdateStatus \/ ReleasePolicy)
  BY <1>1 DEF PutFinalizer, ListCaptors, FinishDelete, CleanUpDecoys, CleanupFails, StopCleanup,
              FinishDeploy, UpdateStatus, ReleasePolicy, apiVars
<1>8. ~\E t \in Traps : SkipCaptor(t) \/ KeepTracingPolicy(t) \/ DeployFails(t) \/ GeneratePanics(t)
  BY <1>1 DEF SkipCaptor, KeepTracingPolicy, DeployFails, GeneratePanics, apiVars
<1> QED BY <1>2, <1>3, <1>4, <1>5, <1>6, <1>7, <1>8 DEF Next, FaultStep, WorkerStep

\* As long as no two policies ask for the same captor, one that a policy asks for is
\* taken away only with its owner, or by a request that works with an older spec; and
\* then another request, which brings it back, is queued or will be when the cache has
\* caught up (cleanupRemovedCaptors with stale lists; the generation events).
THEOREM CaptorsAreKept == Apart /\ Spec => TakenOnlyByMistake
<1>1. Apart /\ Types /\ OwnerInv /\ CleanupInv /\ [Next]_vars
        => [\A n \in Names, p \in Policies : TakenWell(n, p)]_vars
  <2> SUFFICES ASSUME Apart, Types, OwnerInv, CleanupInv, [Next]_vars,
                      NEW n \in Names, NEW p \in Policies,
                      captor[n] # None, captor'[n] = None, Asks(p, n), ~Orphaned(n)
               PROVE  cur = p /\ goal.spec # policy[p].spec /\ (p \in queue \/ ~polFresh[p])
    BY DEF TakenWell
  <2>1. DeleteCaptor(n)
    BY CaptorTakers DEF CollectGarbage
  <2>2. pc = "delete" /\ cur \in Policies /\ Own(cur, n) /\ n \notin Wanted
    BY <2>1 DEF DeleteCaptor, CleanupInv, SurplusIsOurs, OwnerInv, WorksForTheLiving
  <2>3. policy[p].spec \in SpecsOf[p] /\ n \in Captors(policy[p].spec.traps)
    BY DEF Asks, CleanupInv, SpecsAreUsers
  <2>4. cur = p
    BY <2>2, <2>3 DEF Apart, Own
  <2>5. goal.spec # policy[p].spec
    BY <2>2, <2>3 DEF Wanted, Captors
  <2> QED BY <2>2, <2>4, <2>5 DEF CleanupInv, NewsComes
<1>2. Spec => [](OwnerInv /\ CleanupInv)
  BY OwnerInit, OwnerStep, CleanupInit, CleanupStep, AlwaysTyped, PTL DEF Spec
<1> SUFFICES ASSUME Apart PROVE Spec => TakenOnlyByMistake
  OBVIOUS
<1>3. Types /\ OwnerInv /\ CleanupInv /\ [Next]_vars
        => [\A n \in Names, p \in Policies : TakenWell(n, p)]_vars
  BY <1>1
<1> QED BY <1>2, <1>3, AlwaysTyped, PTL DEF Spec, TakenOnlyByMistake

-----------------------------------------------------------------------------
(* Identities.  A captor is garbage when no policy has its uid.            *)

\* A cached captor that counts as current equals the stored one.
CaptorsCohere == \A n \in Names : capFresh[n] => ccaptor[n] = captor[n]

\* No uid is used twice, and each captor has one that its policy has had; a name
\* that is not used again has had only one.
UidsTell ==
    /\ \A p \in Policies :
          /\ policy[p].uid <= edits /\ (policy[p].phase # "absent" => policy[p].uid > 0)
          /\ \A q \in Policies : q # p /\ policy[q].uid = policy[p].uid => policy[p].uid = 0
    /\ \A n \in Names : captor[n] # None =>
          /\ captor[n].owner > 0 /\ captor[n].owner <= policy[captor[n].label].uid
          /\ captor[n].label \notin Reused => captor[n].owner = policy[captor[n].label].uid
          /\ \A q \in Policies : policy[q].uid = captor[n].owner => q = captor[n].label

\* A write makes the cached captor stale.
LEMMA CaptorsCohereStep == Types /\ CaptorsCohere /\ [Next]_vars => CaptorsCohere'
<1> SUFFICES ASSUME Types, CaptorsCohere, [Next]_vars PROVE CaptorsCohere'
  OBVIOUS
<1>1. captor \in [Names -> CaptorObject \cup {None}] /\ capFresh \in [Names -> BOOLEAN]
      /\ ccaptor \in [Names -> CaptorObject \cup {None}]
  BY DEF Types, CaptorTypes
<1>2. ASSUME NEW n, NEW o, WriteCaptor(n, o), UNCHANGED ccaptor PROVE CaptorsCohere'
  BY <1>1, <1>2 DEF WriteCaptor, CaptorsCohere
<1>3. CASE UNCHANGED <<captor, ccaptor, capFresh>>
  BY <1>3 DEF CaptorsCohere
<1>4. ASSUME NEW n \in Names, SyncCaptor(n) PROVE CaptorsCohere'
  BY <1>1, <1>4 DEF SyncCaptor, CaptorsCohere, apiVars
<1>5. CASE Crash
  BY <1>5 DEF Crash, CaptorsCohere
<1>6. ASSUME NEW n \in Names, CollectGarbage(n) \/ DeleteCaptor(n) \/ DeleteNotFound(n)
      PROVE  CaptorsCohere'
  BY <1>2, <1>3, <1>6 DEF CollectGarbage, DeleteCaptor, DeleteNotFound, StopCleanup, apiVars,
                          cacheVars, freshVars
<1>7. ASSUME NEW t \in Traps,
             \/ SkipCaptor(t) \/ KeepTracingPolicy(t) \/ CreateTracingPolicy(t)
             \/ ApplyKivePolicy(t) \/ DeployFails(t) \/ GeneratePanics(t)
      PROVE  CaptorsCohere'
  BY <1>2, <1>3, <1>7
     DEF SkipCaptor, KeepTracingPolicy, CreateTracingPolicy, ApplyKivePolicy, DeployFails,
         GeneratePanics, Done, apiVars, cacheVars, freshVars
<1>8. CASE UserStep \/ UNCHANGED vars \/ (\E p \in Policies : SyncPolicy(p) \/ FireTimer(p) \/ Fetch(p))
  BY <1>3, <1>8 DEF UserStep, CreatePolicy, EditPolicy, DeletePolicy, WatchEvent, vars, SyncPolicy,
     FireTimer, Fetch, apiVars, cacheVars, freshVars
<1>9. CASE \/ PutFinalizer \/ ListCaptors \/ FinishDelete \/ CleanUpDecoys \/ CleanupFails
           \/ FinishDeploy \/ UpdateStatus \/ ReleasePolicy \/ WriteFails \/ CleanupNotFound
  BY <1>3, <1>9 DEF PutFinalizer, ListCaptors, FinishDelete, CleanUpDecoys, CleanupFails,
     StopCleanup, FinishDeploy, UpdateStatus, ReleasePolicy, WriteFails, CleanupNotFound, apiVars,
     cacheVars, freshVars
<1> QED BY <1>4, <1>5, <1>6, <1>7, <1>8, <1>9 DEF Next, FaultStep, WorkerStep

\* Only a user makes a policy, under a new uid.
Born(p) ==
    /\ policy[p].phase = "absent" /\ (policy[p].uid = 0 \/ p \in Reused)
    /\ policy'[p].phase = "live" /\ policy'[p].uid = edits + 1 /\ edits' = edits + 1
    /\ \A q \in Policies : q # p => policy'[q] = policy[q]
    /\ UNCHANGED captor
Continues(p) ==
    policy'[p].uid = policy[p].uid /\ (policy'[p].phase # "absent" => policy[p].phase # "absent")

\* No other step brings a policy or changes its uid.
LEMMA UidWriters ==
    ASSUME Types, Coherent, [Next]_vars
    PROVE  \/ \E p \in Policies : Born(p)
           \/ edits' \in {edits, edits + 1} /\ \A p \in Policies : Continues(p)
<1>1. /\ policy \in [Policies -> Objects] /\ (pc # "idle" => cur \in Policies) /\ edits \in Nat
      /\ Objects \subseteq PolicyObject
  BY DEF Types, ObjectTypes, RequestTypes, BudgetTypes, Objects
<1>2. UNCHANGED policy => \A p \in Policies : Continues(p)
  BY DEF Continues
<1>3. ASSUME NEW p \in Policies, NEW o, NEW e, WritePolicy(p, o, e), o.uid = policy[p].uid,
             o.phase # "absent" => policy[p].phase # "absent"
      PROVE  \A q \in Policies : Continues(q)
  BY <1>1, <1>3 DEF WritePolicy, Continues
<1>4. ASSUME NEW p \in Policies, NEW s \in SpecsOf[p], CreatePolicy(p, s) PROVE Born(p)
  BY <1>1, <1>4 DEF CreatePolicy, WritePolicy, Edit, Born
<1>5. ASSUME NEW p \in Policies, NEW s \in SpecsOf[p], EditPolicy(p, s)
      PROVE  \A q \in Policies : Continues(q)
  <2>1. /\ [policy[p] EXCEPT !.spec = s].phase = policy[p].phase
        /\ [policy[p] EXCEPT !.spec = s].uid = policy[p].uid
    BY <1>1 DEF PolicyObject
  <2> QED BY <1>3, <1>5, <2>1 DEF EditPolicy
<1>6. ASSUME NEW p \in Policies, DeletePolicy(p) PROVE \A q \in Policies : Continues(q)
  <2>1. /\ [policy[p] EXCEPT !.phase = "deleting"].uid = policy[p].uid
        /\ Gone(policy[p]).uid = policy[p].uid /\ Gone(policy[p]).phase = "absent"
    BY <1>1 DEF PolicyObject, Gone, NoPolicy
  <2> QED BY <1>3, <1>6, <2>1 DEF DeletePolicy
<1>7. CASE PutFinalizer \/ UpdateStatus \/ ReleasePolicy
  <2>1. cur \in Policies /\ cpolicy[cur] = policy[cur]
    BY <1>1, <1>7 DEF PutFinalizer, UpdateStatus, ReleasePolicy, Coherent
  <2>2. /\ [policy[cur] EXCEPT !.fin = TRUE].phase = policy[cur].phase
        /\ [policy[cur] EXCEPT !.fin = TRUE].uid = policy[cur].uid
        /\ [policy[cur] EXCEPT !.status = CaptorsReason].phase = policy[cur].phase
        /\ [policy[cur] EXCEPT !.status = CaptorsReason].uid = policy[cur].uid
        /\ Gone(policy[cur]).uid = policy[cur].uid /\ Gone(policy[cur]).phase = "absent"
    BY <1>1, <2>1 DEF PolicyObject, Gone, NoPolicy
  <2>3. edits' = edits
    BY <1>7 DEF PutFinalizer, UpdateStatus, ReleasePolicy, budgets
  <2> QED BY <1>2, <1>3, <1>7, <2>1, <2>2, <2>3 DEF PutFinalizer, UpdateStatus, ReleasePolicy
<1>8. CASE FaultStep \/ (\E p \in Policies : SyncPolicy(p) \/ FireTimer(p) \/ Fetch(p))
           \/ (\E n \in Names : SyncCaptor(n) \/ CollectGarbage(n)) \/ UNCHANGED vars
  <2>1. UNCHANGED <<policy, edits>>
    BY <1>8 DEF FaultStep, CleanupFails, StopCleanup, CleanupNotFound, WriteFails, Crash,
       DeployFails, Done, Fault,
       SyncPolicy, FireTimer, Fetch, SyncCaptor, CollectGarbage, vars, apiVars, budgets
  <2> QED BY <1>2, <2>1
<1>9. CASE \/ ListCaptors \/ (\E n \in Names : DeleteCaptor(n) \/ DeleteNotFound(n)) \/ FinishDelete
           \/ CleanUpDecoys \/ FinishDeploy
           \/ \E t \in Traps : \/ SkipCaptor(t) \/ KeepTracingPolicy(t) \/ CreateTracingPolicy(t)
                               \/ ApplyKivePolicy(t) \/ GeneratePanics(t)
  <2>1. UNCHANGED <<policy, edits>>
    BY <1>9 DEF ListCaptors, DeleteCaptor, DeleteNotFound, StopCleanup, FinishDelete, CleanUpDecoys,
       FinishDeploy, SkipCaptor, KeepTracingPolicy, CreateTracingPolicy, ApplyKivePolicy,
       GeneratePanics, Done, apiVars, budgets
  <2> QED BY <1>2, <2>1
<1>10. CASE UserStep
  <2>1. edits' = edits + 1 /\ (WatchEvent => UNCHANGED policy)
    BY <1>10 DEF UserStep, CreatePolicy, EditPolicy, DeletePolicy, WatchEvent, Edit, apiVars
  <2> QED BY <1>2, <1>4, <1>5, <1>6, <1>10, <2>1 DEF UserStep
<1> QED BY <1>7, <1>8, <1>9, <1>10 DEF Next, WorkerStep

\* Uids stay unique, and captors get that of the policy in progress.
LEMMA UidsTellStep == Types /\ OwnerInv /\ UidsTell /\ [Next]_vars => UidsTell'
<1> SUFFICES ASSUME Types, OwnerInv, UidsTell, [Next]_vars PROVE UidsTell'
  OBVIOUS
<1>1. /\ \A p \in Policies : policy[p].uid \in Nat
      /\ \A n \in Names : captor[n] # None => captor[n].label \in Policies /\ captor[n].owner \in Nat
      /\ edits \in Nat
  BY DEF Types, ObjectTypes, CaptorTypes, BudgetTypes, Objects, PolicyObject, CaptorObject
<1>2. ASSUME NEW p \in Policies, Born(p) PROVE UidsTell'
  <2>1. /\ \A n \in Names : captor[n] # None /\ captor[n].label = p => p \in Reused
        /\ \A q \in Policies : policy[q].uid < edits + 1
        /\ \A n \in Names : captor[n] # None => captor[n].owner < edits + 1
    BY <1>1, <1>2 DEF Born, UidsTell
  <2> QED BY <1>1, <1>2, <2>1 DEF Born, UidsTell
<1>3. CASE edits' \in {edits, edits + 1} /\ \A p \in Policies : Continues(p)
  <2>1. \A p \in Policies :
          /\ policy'[p].uid <= edits' /\ (policy'[p].phase # "absent" => policy'[p].uid > 0)
          /\ \A q \in Policies : q # p /\ policy'[q].uid = policy'[p].uid => policy'[p].uid = 0
    BY <1>1, <1>3 DEF Continues, UidsTell
  <2>2. ASSUME NEW n \in Names, captor'[n] # None
        PROVE  /\ captor'[n].owner > 0 /\ captor'[n].owner <= policy'[captor'[n].label].uid
               /\ captor'[n].label \notin Reused => captor'[n].owner = policy'[captor'[n].label].uid
               /\ \A q \in Policies : policy'[q].uid = captor'[n].owner => q = captor'[n].label
    <3>1. CASE captor'[n] = captor[n]
      BY <1>1, <1>3, <2>2, <3>1 DEF Continues, UidsTell
    <3>2. CASE captor'[n] # captor[n]
      <4>1. captor'[n] = Generated /\ cur \in Policies /\ OwnerExists(cur)
        BY <2>2, <3>2, CaptorMakers DEF OwnerInv, WorksForTheLiving
      <4>2. /\ captor'[n].label = cur /\ captor'[n].owner = policy[cur].uid
            /\ policy[cur].uid > 0
        BY <4>1 DEF Generated, OwnerExists, UidsTell
      <4> QED BY <1>1, <1>3, <4>1, <4>2 DEF Continues, UidsTell
    <3> QED BY <3>1, <3>2
  <2> QED BY <2>1, <2>2 DEF UidsTell
<1> QED BY <1>2, <1>3, UidWriters DEF OwnerInv

-----------------------------------------------------------------------------
(* Requests that are due, and policies at rest.                            *)

\* A request for policy p will come: unlike Pending, nothing else has to happen
\* first than the delivery of an event.
Due(p) == p \in queue \cup delayed \/ (~polFresh[p] /\ polEvent[p])

\* Policy p is at rest, and its last request has read current captors.
Resting(p) == pc = "idle" \/ cur # p
Calm(p) == policy[p].phase = "live" /\ ~Due(p) /\ p \notin misread /\ Resting(p)

\* A deletion is announced, and then under way until it is done, or taken to be done.
DeletionComes ==
    \A p \in Policies : policy[p].phase = "deleting" =>
        policy[p].fin /\ (Due(p) \/ (pc = "release" /\ cur = p) \/ p \in misread)

\* A request that is due stays so until it is fetched or its policy is gone.
LEMMA DueStays ==
    ASSUME Types, [Next]_vars, NEW p \in Policies, Due(p), ~Fetch(p), policy'[p].phase # "absent"
    PROVE  Due(p)'
<1> DEFINE Stays == /\ queue \subseteq queue' /\ delayed \subseteq delayed'
                    /\ ~polFresh[p] /\ polEvent[p] => ~polFresh'[p] /\ polEvent'[p]
<1>1. /\ polFresh \in [Policies -> BOOLEAN] /\ polEvent \in [Policies -> BOOLEAN]
      /\ pc # "idle" => cur \in Policies
  BY DEF Types, ObjectTypes, RequestTypes
<1>2. Stays => Due(p)'
  BY DEF Due
<1>3. ASSUME NEW q, NEW o, NEW e, WritePolicy(q, o, e), queue \subseteq queue', delayed \subseteq delayed'
      PROVE  Stays
  BY <1>1, <1>3 DEF WritePolicy
<1>4. CASE UserStep
  <2>1. \/ WatchEvent
        \/ /\ \E q, o, e : WritePolicy(q, o, e)
           /\ queue' = queue /\ delayed' = delayed
    BY <1>4 DEF UserStep, CreatePolicy, EditPolicy, DeletePolicy, queueVars
  <2>2. CASE WatchEvent
    BY <1>2, <2>2 DEF WatchEvent, apiVars, freshVars
  <2> QED BY <1>2, <1>3, <2>1, <2>2
<1>5. CASE PutFinalizer \/ UpdateStatus \/ ReleasePolicy
  <2>1. queue \subseteq queue' /\ delayed \subseteq delayed'
    BY <1>5 DEF PutFinalizer, UpdateStatus, ReleasePolicy, Return
  <2>2. UNCHANGED <<polEvent, polFresh>> \/ \E o, e : WritePolicy(cur, o, e)
    BY <1>5 DEF PutFinalizer, UpdateStatus, ReleasePolicy
  <2> QED BY <1>2, <1>3, <2>1, <2>2
<1>6. ASSUME NEW q \in Policies, SyncPolicy(q) PROVE Due(p)'
  BY <1>1, <1>6 DEF SyncPolicy, Due
<1>7. ASSUME NEW q \in Policies, FireTimer(q) PROVE Due(p)'
  BY <1>7 DEF FireTimer, Due, apiVars, freshVars
<1>8. ASSUME NEW q \in Policies, Fetch(q) PROVE Due(p)'
  BY <1>8 DEF Fetch, Due, apiVars, freshVars
<1>9. CASE Crash
  BY <1>9 DEF Crash, Due
<1>10. CASE WriteFails \/ CleanupNotFound \/ CleanupFails \/ (\E t \in Traps : DeployFails(t))
            \/ (\E n \in Names : SyncCaptor(n) \/ CollectGarbage(n)) \/ UNCHANGED vars
  BY <1>2, <1>10 DEF WriteFails, CleanupNotFound, Return, CleanupFails, StopCleanup, DeployFails,
     Done, SyncCaptor, CollectGarbage, vars, apiVars, freshVars, queueVars
<1>11. CASE \/ ListCaptors \/ (\E n \in Names : DeleteCaptor(n) \/ DeleteNotFound(n)) \/ FinishDelete
            \/ CleanUpDecoys \/ FinishDeploy
            \/ \E t \in Traps : \/ SkipCaptor(t) \/ KeepTracingPolicy(t) \/ CreateTracingPolicy(t)
                                \/ ApplyKivePolicy(t) \/ GeneratePanics(t)
  BY <1>2, <1>11 DEF ListCaptors, DeleteCaptor, DeleteNotFound, StopCleanup, FinishDelete,
     CleanUpDecoys, FinishDeploy, SkipCaptor, KeepTracingPolicy, CreateTracingPolicy,
     ApplyKivePolicy, GeneratePanics, Done, apiVars, freshVars, queueVars
<1> QED BY <1>2, <1>4, <1>5, <1>6, <1>7, <1>8, <1>9, <1>10, <1>11 DEF Next, FaultStep, WorkerStep

\* Every write of a policy brings a request, but for that of its status.
StatusWritten(p) ==
    /\ UpdateStatus /\ cur = p
    /\ policy'[p] \in {policy[p], [policy[p] EXCEPT !.status = CaptorsReason]}

\* A policy that was written is due, or only its status was.
LEMMA WritesAreAnnounced ==
    ASSUME Types, OwnerInv, [Next]_vars, NEW p \in Policies, policy'[p] # policy[p]
    PROVE  \/ StatusWritten(p)
           \/ Due(p)' /\ (policy'[p].phase = "deleting" => policy'[p].fin)
<1>1. /\ policy \in [Policies -> Objects] /\ (pc # "idle" => cur \in Policies)
      /\ polFresh \in [Policies -> BOOLEAN] /\ polEvent \in [Policies -> BOOLEAN]
      /\ Objects \subseteq PolicyObject
  BY DEF Types, ObjectTypes, RequestTypes, Objects
<1>2. ASSUME NEW q \in Policies, NEW o, WritePolicy(q, o, TRUE), o.phase = "deleting" => o.fin
      PROVE  Due(p)' /\ (policy'[p].phase = "deleting" => policy'[p].fin)
  BY <1>1, <1>2 DEF WritePolicy, Due
<1>3. CASE UserStep
  <2>1. ASSUME NEW q \in Policies, DeletePolicy(q)
        PROVE  Due(p)' /\ (policy'[p].phase = "deleting" => policy'[p].fin)
    <3>1. /\ policy[q].fin => [policy[q] EXCEPT !.phase = "deleting"].fin
          /\ Gone(policy[q]).phase = "absent"
      BY <1>1 DEF PolicyObject, Gone, NoPolicy
    <3> QED BY <1>2, <2>1, <3>1 DEF DeletePolicy
  <2>2. ASSUME NEW q \in Policies, NEW s \in SpecsOf[q], EditPolicy(q, s)
        PROVE  Due(p)' /\ (policy'[p].phase = "deleting" => policy'[p].fin)
    <3>1. [policy[q] EXCEPT !.spec = s].phase = "live"
      BY <1>1, <2>2 DEF PolicyObject, EditPolicy
    <3> QED BY <1>2, <2>2, <3>1 DEF EditPolicy
  <2>3. ASSUME NEW q \in Policies, NEW s \in SpecsOf[q], CreatePolicy(q, s)
        PROVE  Due(p)' /\ (policy'[p].phase = "deleting" => policy'[p].fin)
    BY <1>2, <2>3 DEF CreatePolicy
  <2> QED BY <1>3, <2>1, <2>2, <2>3 DEF UserStep, WatchEvent, apiVars
<1>4. CASE PutFinalizer \/ UpdateStatus \/ ReleasePolicy
  <2>1. cur \in Policies /\ cpolicy[cur] = policy[cur] /\ Gone(policy[cur]).phase = "absent"
    BY <1>1, <1>4 DEF PutFinalizer, UpdateStatus, ReleasePolicy, OwnerInv, Coherent, Gone, NoPolicy
  <2>2. CASE PutFinalizer
    <3>1. [policy[cur] EXCEPT !.fin = TRUE].fin
      BY <1>1, <2>1 DEF PolicyObject
    <3> QED BY <1>2, <2>1, <2>2, <3>1 DEF PutFinalizer
  <2>3. CASE ReleasePolicy
    BY <1>2, <2>1, <2>3 DEF ReleasePolicy
  <2>4. CASE UpdateStatus
    BY <1>1, <2>1, <2>4 DEF UpdateStatus, WritePolicy, StatusWritten
  <2> QED BY <1>4, <2>2, <2>3, <2>4
<1>5. CASE FaultStep \/ (\E q \in Policies : SyncPolicy(q) \/ FireTimer(q) \/ Fetch(q))
           \/ (\E n \in Names : SyncCaptor(n) \/ CollectGarbage(n)) \/ UNCHANGED vars
  BY <1>5 DEF FaultStep, CleanupFails, StopCleanup, CleanupNotFound, WriteFails, Crash, DeployFails,
     Done, SyncPolicy, FireTimer, Fetch, SyncCaptor, CollectGarbage, vars, apiVars
<1>6. CASE \/ ListCaptors \/ (\E n \in Names : DeleteCaptor(n) \/ DeleteNotFound(n)) \/ FinishDelete
           \/ CleanUpDecoys \/ FinishDeploy
           \/ \E t \in Traps : \/ SkipCaptor(t) \/ KeepTracingPolicy(t) \/ CreateTracingPolicy(t)
                               \/ ApplyKivePolicy(t) \/ GeneratePanics(t)
  BY <1>6 DEF ListCaptors, DeleteCaptor, DeleteNotFound, StopCleanup, FinishDelete, CleanUpDecoys,
     FinishDeploy, SkipCaptor, KeepTracingPolicy, CreateTracingPolicy, ApplyKivePolicy,
     GeneratePanics, Done, apiVars
<1> QED BY <1>3, <1>4, <1>5, <1>6 DEF Next, WorkerStep

\* The steps that end a request.
LEMMA RequestGoesOn ==
    ASSUME [Next]_vars, pc # "idle"
    PROVE  \/ pc' # "idle" /\ cur' = cur /\ goal' = goal /\ misread \subseteq misread'
           \/ PutFinalizer \/ UpdateStatus \/ ReleasePolicy \/ CleanupNotFound \/ WriteFails
           \/ Crash
<1>1. CASE UserStep \/ UNCHANGED vars \/ (\E p \in Policies : SyncPolicy(p) \/ FireTimer(p))
           \/ (\E n \in Names : SyncCaptor(n) \/ CollectGarbage(n))
  BY <1>1 DEF UserStep, CreatePolicy, EditPolicy, DeletePolicy, WatchEvent, vars, SyncPolicy,
     FireTimer, SyncCaptor, CollectGarbage, reqVars, localVars
<1>2. CASE \/ ListCaptors \/ (\E n \in Names : DeleteCaptor(n) \/ DeleteNotFound(n)) \/ FinishDelete
           \/ CleanUpDecoys \/ FinishDeploy \/ CleanupFails
           \/ \E t \in Traps : \/ SkipCaptor(t) \/ KeepTracingPolicy(t) \/ CreateTracingPolicy(t)
                               \/ ApplyKivePolicy(t) \/ GeneratePanics(t) \/ DeployFails(t)
  BY <1>2 DEF ListCaptors, DeleteCaptor, DeleteNotFound, StopCleanup, FinishDelete, CleanUpDecoys,
     FinishDeploy, CleanupFails, SkipCaptor, KeepTracingPolicy, CreateTracingPolicy,
     ApplyKivePolicy, GeneratePanics, DeployFails, Done, Read, reqVars
<1> QED BY <1>1, <1>2 DEF Next, FaultStep, WorkerStep, Fetch

\* Only the next request for the policy, or a restart, ends the memory of a request
\* that was misled.
LEMMA MisreadStays ==
    ASSUME [Next]_vars, NEW p \in Policies, ~Fetch(p), ~Crash
    PROVE  p \in misread => p \in misread'
<1>1. CASE pc # "idle"
  <2>1. PutFinalizer \/ UpdateStatus \/ ReleasePolicy \/ CleanupNotFound \/ WriteFails
           => misread \subseteq misread'
    BY DEF PutFinalizer, UpdateStatus, ReleasePolicy, CleanupNotFound, WriteFails
  <2> QED BY <1>1, <2>1, RequestGoesOn
<1>2. CASE pc = "idle"
  <2>1. misread' = misread \/ \E q \in Policies : Fetch(q) /\ misread' = misread \ {q}
    BY <1>2 DEF Next, UserStep, CreatePolicy, EditPolicy, DeletePolicy, WatchEvent, FaultStep,
       CleanupFails, CleanupNotFound, DeployFails, Done, WriteFails, WorkerStep, PutFinalizer,
       ListCaptors, DeleteCaptor, DeleteNotFound, FinishDelete, CleanUpDecoys, SkipCaptor,
       KeepTracingPolicy, CreateTracingPolicy, ApplyKivePolicy, GeneratePanics, FinishDeploy,
       UpdateStatus, ReleasePolicy, SyncPolicy, FireTimer, Fetch, SyncCaptor, CollectGarbage,
       vars, reqVars
  <2> QED BY <2>1
<1> QED BY <1>1, <1>2

\* From its announcement to its end.
LEMMA DeletionComesStep == Types /\ OwnerInv /\ DeletionComes /\ [Next]_vars => DeletionComes'
<1> SUFFICES ASSUME Types, OwnerInv, DeletionComes, [Next]_vars, NEW p \in Policies,
                    policy'[p].phase = "deleting"
             PROVE  policy'[p].fin /\ (Due(p)' \/ (pc' = "release" /\ cur' = p) \/ p \in misread')
  BY DEF DeletionComes
<1>1. policy \in [Policies -> Objects] /\ Objects \subseteq PolicyObject
  BY DEF Types, ObjectTypes, Objects
<1>2. \/ policy[p].phase = "deleting" /\ policy'[p].fin = policy[p].fin
      \/ Due(p)' /\ policy'[p].fin
  <2>1. [policy[p] EXCEPT !.status = CaptorsReason].phase = policy[p].phase
        /\ [policy[p] EXCEPT !.status = CaptorsReason].fin = policy[p].fin
    BY <1>1 DEF PolicyObject
  <2> QED BY <2>1, WritesAreAnnounced DEF StatusWritten
<1>3. CASE policy[p].phase = "deleting" /\ policy'[p].fin = policy[p].fin
  <2>1. policy'[p].fin /\ (Due(p) \/ (pc = "release" /\ cur = p) \/ p \in misread)
    BY <1>3 DEF DeletionComes
  <2>2. CASE Fetch(p)
    <3>1. cpolicy[p] = policy[p]
      BY <2>2 DEF Fetch, OwnerInv, Coherent
    <3> QED BY <1>3, <2>1, <2>2, <3>1 DEF Fetch
  <2>3. CASE Due(p) /\ ~Fetch(p)
    BY <2>1, <2>3, DueStays
  <2>4. CASE pc = "release" /\ cur = p
    <3>1. CASE Crash \/ WriteFails \/ CleanupNotFound
      BY <2>1, <2>4, <3>1 DEF Crash, WriteFails, CleanupNotFound, Return, Due
    <3>2. CASE ReleasePolicy
      <4>1. policy'[p] = Gone(cpolicy[p])
        BY <1>1, <2>4, <3>2 DEF ReleasePolicy, WritePolicy
      <4> QED BY <4>1 DEF Gone, NoPolicy
    <3>3. ~PutFinalizer /\ ~UpdateStatus
      BY <2>4 DEF PutFinalizer, UpdateStatus
    <3>4. pc' = "release" \/ Crash \/ WriteFails \/ CleanupNotFound \/ ReleasePolicy
      BY <2>4 DEF Next, UserStep, CreatePolicy, EditPolicy, DeletePolicy, WatchEvent, FaultStep,
         CleanupFails, DeployFails, Done, WorkerStep, PutFinalizer, ListCaptors, DeleteCaptor,
         DeleteNotFound, FinishDelete, CleanUpDecoys, SkipCaptor, KeepTracingPolicy,
         CreateTracingPolicy, ApplyKivePolicy, GeneratePanics, FinishDeploy, UpdateStatus,
         SyncPolicy, FireTimer, Fetch, SyncCaptor, CollectGarbage, vars, localVars
    <3> QED BY <2>1, <2>4, <3>1, <3>2, <3>3, <3>4, RequestGoesOn
  <2>5. CASE p \in misread
    <3>1. CASE Crash
      <4>1. policy[p].phase # "absent"
        BY <1>3
      <4> QED BY <2>1, <3>1, <4>1 DEF Crash, Due
    <3> QED BY <2>1, <2>2, <2>5, <3>1, MisreadStays
  <2> QED BY <2>1, <2>2, <2>3, <2>4, <2>5
<1> QED BY <1>2, <1>3

\* A policy comes to rest when a request ends with the update of its status.
LEMMA CalmComes ==
    ASSUME Types, OwnerInv, [Next]_vars, NEW p \in Policies, Calm(p)'
    PROVE  /\ policy[p].phase = "live" /\ ~Due(p) /\ p \notin misread
           /\ policy'[p].spec = policy[p].spec /\ policy'[p].uid = policy[p].uid
           /\ \/ Resting(p) /\ policy'[p] = policy[p]
              \/ /\ UpdateStatus /\ cur = p /\ pc = "status" /\ ~err
                 /\ policy'[p].status = CaptorsReason
<1>1. /\ policy \in [Policies -> Objects] /\ Objects \subseteq PolicyObject
  BY DEF Types, ObjectTypes, Objects
<1>2. ~Crash
  BY DEF Crash, Calm, Due
<1>3. ~Fetch(p)
  <2> SUFFICES ASSUME Fetch(p) PROVE FALSE
    OBVIOUS
  <2>1. cpolicy[p] = policy[p] /\ policy' = policy
    BY DEF Fetch, OwnerInv, Coherent, apiVars
  <2> QED BY <2>1 DEF Fetch, Calm, Resting
<1>4. ~Due(p)
  BY <1>3, DueStays DEF Calm
<1>5. p \notin misread
  BY <1>2, <1>3, MisreadStays DEF Calm
<1>6. policy'[p] = policy[p] \/ StatusWritten(p)
  BY WritesAreAnnounced DEF Calm
<1>7. ASSUME StatusWritten(p)
      PROVE  /\ policy[p].phase = "live" /\ pc = "status" /\ ~err
             /\ policy'[p].status = CaptorsReason
             /\ policy'[p].spec = policy[p].spec /\ policy'[p].uid = policy[p].uid
  <2> DEFINE o == [policy[p] EXCEPT !.status = CaptorsReason]
  <2>1. /\ o.spec = policy[p].spec /\ o.uid = policy[p].uid /\ o.phase = policy[p].phase
        /\ o.status = CaptorsReason
    BY <1>1 DEF PolicyObject
  <2>2. cpolicy[p] = policy[p] /\ pc = "status" /\ cur = p
    BY <1>7 DEF StatusWritten, UpdateStatus, OwnerInv, Coherent
  <2>3. policy'[p] = o \/ (policy'[p] = policy[p] /\ policy[p].status = CaptorsReason)
    BY <1>1, <1>7, <2>2 DEF StatusWritten, UpdateStatus, WritePolicy
  <2>4. ~err
    BY <1>7, <2>2 DEF StatusWritten, UpdateStatus, Return, Calm, Due
  <2> HIDE DEF o
  <2> QED BY <2>1, <2>2, <2>3, <2>4 DEF Calm
<1>8. ASSUME ~Resting(p) PROVE StatusWritten(p)
  <2>1. pc # "idle" /\ cur = p
    BY <1>8 DEF Resting
  <2>2. PutFinalizer \/ UpdateStatus \/ ReleasePolicy \/ CleanupNotFound \/ WriteFails
    BY <1>2, <2>1, RequestGoesOn DEF Calm, Resting
  <2>3. ~WriteFails /\ ~CleanupNotFound
    BY <2>1 DEF WriteFails, CleanupNotFound, Return, Calm, Due
  <2>4. ~PutFinalizer
    <3>1. polFresh \in [Policies -> BOOLEAN] /\ polEvent \in [Policies -> BOOLEAN]
      BY DEF Types, ObjectTypes
    <3> QED BY <2>1, <3>1 DEF PutFinalizer, WritePolicy, Return, Calm, Due
  <2>5. ~ReleasePolicy
    <3>1. Gone(cpolicy[cur]).phase = "absent"
      BY DEF Gone, NoPolicy
    <3> QED BY <1>1, <2>1, <3>1 DEF ReleasePolicy, WritePolicy, Calm
  <2>6. UpdateStatus /\ cpolicy[p] = policy[p]
    <3>1. UpdateStatus
      BY <2>2, <2>3, <2>4, <2>5
    <3>2. polFresh[p] /\ p \in Policies
      BY <2>1, <3>1 DEF UpdateStatus
    <3> QED BY <3>1, <3>2 DEF OwnerInv, Coherent
  <2> DEFINE o == [policy[p] EXCEPT !.status = CaptorsReason]
  <2>7. policy' = policy \/ policy' = [policy EXCEPT ![p] = o]
    <3>1. cur = p /\ cpolicy[cur] = policy[p]
      BY <2>1, <2>6
    <3> QED BY <2>6, <3>1, Zenon DEF UpdateStatus, WritePolicy
  <2>8. policy'[p] \in {policy[p], o}
    <3> HIDE DEF o
    <3> QED BY <1>1, <2>7
  <2> QED BY <2>1, <2>6, <2>8 DEF StatusWritten
<1>9. CASE Resting(p)
  <2>1. ~StatusWritten(p)
    BY <1>9 DEF StatusWritten, UpdateStatus, Resting
  <2> QED BY <1>4, <1>5, <1>6, <1>9, <2>1 DEF Calm
<1> QED BY <1>4, <1>5, <1>7, <1>8, <1>9 DEF StatusWritten

-----------------------------------------------------------------------------
(* No captor outlives its trap.                                            *)

\* Captor n is one that the clean-up is still to look at, or to delete.
Listing(n) ==
    \/ pc = "list" /\ (kind = "tetragon" \/ KindOf[n] = "kive")
    \/ pc = "delete" /\ (n \in surplus \/ (kind = "tetragon" /\ KindOf[n] = "kive"))

\* A request that has read current captors so far, and met no error.
Trusted == pc \notin {"idle", "adopt", "release"} /\ ~err /\ cur \notin misread

\* The clean-up leaves no captor that the request does not ask for.
CleansUp ==
    /\ pc = "idle" => kind = "tetragon"
    /\ Trusted => \A n \in Names :
          captor[n] # None /\ captor[n].label = cur /\ ~Listing(n) => n \in Wanted

\* At rest a policy has no other captors than those it asks for.
CleanAtRest ==
    \A p \in Policies : Calm(p) =>
        \A n \in Names : captor[n] # None /\ captor[n].label = p => n \in Captors(policy[p].spec.traps)

\* The steps, by what they do to the request.
LEMMA RequestSteps ==
    ASSUME [Next]_vars
    PROVE  \/ UNCHANGED <<localVars, reqVars>>
           \/ pc' = "idle" /\ kind' = "tetragon"
           \/ \E p \in Policies : Fetch(p)
           \/ pc # "idle" /\ pc' = "status" /\ err'
           \/ ListCaptors \/ (\E n \in Names : DeleteCaptor(n)) \/ FinishDelete
           \/ CleanUpDecoys \/ FinishDeploy
           \/ \E t \in Traps : /\ Done(t)
                               /\ \/ SkipCaptor(t) \/ KeepTracingPolicy(t) \/ CreateTracingPolicy(t)
                                  \/ ApplyKivePolicy(t) \/ DeployFails(t)
<1>1. CASE UserStep \/ UNCHANGED vars \/ (\E p \in Policies : SyncPolicy(p) \/ FireTimer(p))
           \/ (\E n \in Names : SyncCaptor(n) \/ CollectGarbage(n))
  BY <1>1 DEF UserStep, CreatePolicy, EditPolicy, DeletePolicy, WatchEvent, vars, SyncPolicy,
     FireTimer, SyncCaptor, CollectGarbage
<1>2. CASE PutFinalizer \/ UpdateStatus \/ ReleasePolicy \/ CleanupNotFound \/ WriteFails
           \/ Crash
  BY <1>2 DEF PutFinalizer, UpdateStatus, ReleasePolicy, CleanupNotFound, WriteFails, Crash,
              Return, ForgetRequest
<1>3. CASE CleanupFails \/ \E n \in Names : DeleteNotFound(n)
  BY <1>3 DEF CleanupFails, DeleteNotFound, StopCleanup
<1>4. ASSUME NEW t \in Traps, GeneratePanics(t) PROVE pc # "idle" /\ pc' = "status" /\ err'
  BY <1>4 DEF GeneratePanics
<1>5. ASSUME NEW t \in Traps,
             \/ SkipCaptor(t) \/ KeepTracingPolicy(t) \/ CreateTracingPolicy(t)
             \/ ApplyKivePolicy(t) \/ DeployFails(t)
      PROVE  Done(t)
  BY <1>5 DEF SkipCaptor, KeepTracingPolicy, CreateTracingPolicy, ApplyKivePolicy, DeployFails
<1> QED BY <1>1, <1>2, <1>3, <1>4, <1>5 DEF Next, FaultStep, WorkerStep

\* A captor that is still there has been listed, or is asked for.
LEMMA CleansUpStep ==
    Types /\ CleanupInv /\ CaptorsCohere /\ CleansUp /\ [Next]_vars => CleansUp'
<1> SUFFICES ASSUME Types, CleanupInv, CaptorsCohere, CleansUp, [Next]_vars PROVE CleansUp'
  OBVIOUS
<1>1. pc' = "idle" => kind' = "tetragon"
  <2>1. CASE UNCHANGED <<localVars, reqVars>>
    BY <2>1 DEF localVars, CleansUp
  <2>2. ASSUME NEW p \in Policies, Fetch(p) PROVE pc' = "idle" => kind' = "tetragon"
    BY <2>2 DEF Fetch, CleansUp
  <2>3. ASSUME NEW t \in Traps, Done(t) PROVE pc' # "idle"
    BY <2>3 DEF Done
  <2>4. ListCaptors \/ FinishDelete \/ CleanUpDecoys \/ FinishDeploy \/ (\E n \in Names : DeleteCaptor(n))
           => pc' # "idle"
    BY DEF ListCaptors, FinishDelete, CleanUpDecoys, FinishDeploy, DeleteCaptor
  <2> QED BY <2>1, <2>2, <2>3, <2>4, RequestSteps
<1>2. ASSUME Trusted', NEW n \in Names, captor'[n] # None, captor'[n].label = cur', ~Listing(n)'
      PROVE  n \in Wanted'
  <2>1. CASE captor'[n] # captor[n]
    <3>1. /\ pc = "deploy"
          /\ \E t \in Traps : n = NameOf[t] /\ t \in todo /\ goal' = goal
      BY <1>2, <2>1, CaptorMakers DEF CreateTracingPolicy, ApplyKivePolicy, Done
    <3>2. n # None
      BY CaptorNoneAssumption
    <3> QED BY <3>1, <3>2 DEF CleanupInv, TodoIsAsked, Wanted
  <2>2. CASE captor'[n] = captor[n]
    <3>1. Trusted /\ UNCHANGED <<cur, goal>> /\ ~Listing(n) => n \in Wanted'
      BY <1>2, <2>2 DEF CleansUp, Wanted
    <3>2. CASE UNCHANGED <<localVars, reqVars>>
      BY <1>2, <3>1, <3>2 DEF localVars, reqVars, Trusted, Listing
    <3>3. ASSUME NEW p \in Policies, Fetch(p) PROVE FALSE
      BY <1>2, <3>3 DEF Fetch, CleansUp, Trusted, Listing
    <3>4. CASE ListCaptors
      <4>1. /\ pc = "list" /\ pc' = "delete" /\ UNCHANGED <<cur, goal, kind, err>> /\ ~err
            /\ \A k \in Names : KindOf[k] = kind => capFresh[k]
            /\ cur \notin misread
        BY <1>2, <3>4 DEF ListCaptors, Read, Trusted
      <4>2. CASE ~Listing(n)
        BY <3>1, <4>1, <4>2 DEF Trusted
      <4>3. CASE Listing(n)
        <5>1. KindOf[n] = kind
          BY <1>2, <4>1, <4>3, CaptorNamesAssumption DEF Listing, Types, RequestTypes
        <5>2. ccaptor[n] = captor[n] /\ n \notin surplus'
          BY <1>2, <4>1, <5>1 DEF CaptorsCohere, Listing
        <5> QED BY <1>2, <2>2, <3>4, <4>1, <5>1, <5>2 DEF ListCaptors, Wanted
      <4> QED BY <4>2, <4>3
    <3>5. ASSUME NEW k \in Names, DeleteCaptor(k) PROVE n \in Wanted'
      <4>1. n # k
        BY <1>2, <3>5 DEF DeleteCaptor, WriteCaptor, Types, CaptorTypes
      <4> QED BY <1>2, <3>1, <3>5, <4>1 DEF DeleteCaptor, reqVars, Trusted, Listing
    <3>6. CASE FinishDelete
      BY <1>2, <3>1, <3>6, CaptorNamesAssumption
         DEF FinishDelete, reqVars, Trusted, Listing, Types, RequestTypes
    <3>7. CASE CleanUpDecoys \/ FinishDeploy
      BY <1>2, <3>1, <3>7 DEF CleanUpDecoys, FinishDeploy, reqVars, Trusted, Listing
    <3>8. ASSUME NEW t \in Traps, Done(t), 
                 \/ SkipCaptor(t) \/ KeepTracingPolicy(t) \/ CreateTracingPolicy(t)
                 \/ ApplyKivePolicy(t) \/ DeployFails(t)
          PROVE  n \in Wanted'
      <4>1. misread \subseteq misread'
        BY <3>8 DEF SkipCaptor, KeepTracingPolicy, CreateTracingPolicy, ApplyKivePolicy,
                    DeployFails, Read
      <4> QED BY <1>2, <3>1, <3>8, <4>1 DEF Done, Trusted, Listing
    <3>9. ~(pc' = "idle") /\ ~(pc' = "status" /\ err')
      BY <1>2 DEF Trusted
    <3> QED BY <3>2, <3>3, <3>4, <3>5, <3>6, <3>7, <3>8, <3>9, RequestSteps
  <2> QED BY <2>1, <2>2
<1> QED BY <1>1, <1>2 DEF CleansUp

\* The spec that a request without news has read is the current one.
LEMMA NoNews ==
    ASSUME CleanupInv, NEW p \in Policies, pc # "idle", cur = p, ~Due(p)
    PROVE  goal.spec = policy[p].spec
BY DEF CleanupInv, NewsComes, Due

\* What the clean-up has established stays so while the policy rests.
LEMMA CleanAtRestStep ==
    Types /\ OwnerInv /\ CleanupInv /\ CleansUp /\ CleanAtRest /\ [Next]_vars => CleanAtRest'
<1> SUFFICES ASSUME Types, OwnerInv, CleanupInv, CleansUp, CleanAtRest, [Next]_vars,
                    NEW p \in Policies, Calm(p)', NEW n \in Names,
                    captor'[n] # None, captor'[n].label = p
             PROVE  n \in Captors(policy'[p].spec.traps)
  BY DEF CleanAtRest
<1>1. CASE Resting(p) /\ policy'[p] = policy[p]
  <2>1. Calm(p)
    BY <1>1, CalmComes DEF Calm
  <2>2. captor'[n] = captor[n]
    BY <1>1, CaptorMakers DEF Generated, Resting
  <2> QED BY <1>1, <2>1, <2>2 DEF CleanAtRest
<1>2. CASE UpdateStatus /\ cur = p /\ pc = "status" /\ ~err
  <2>1. captor' = captor /\ Trusted /\ ~Listing(n)
    BY <1>2, CalmComes DEF UpdateStatus, Trusted, Listing
  <2>2. n \in Wanted
    BY <1>2, <2>1 DEF CleansUp
  <2>3. goal.spec = policy[p].spec /\ policy'[p].spec = policy[p].spec
    BY <1>2, NoNews, CalmComes
  <2> QED BY <2>2, <2>3 DEF Wanted, Captors
<1> QED BY <1>1, <1>2, CalmComes

\* What follows from the invariants at rest.
LEMMA NoStray ==
    UidsTell /\ DeletionComes /\ CleanAtRest /\ Types => NoStrayCaptor
<1> SUFFICES ASSUME UidsTell, DeletionComes, CleanAtRest, Types, NEW n \in Names,
                    captor[n] # None, ~Moving, NEW p, p = captor[n].label, ~Pending(p)
             PROVE  /\ policy[p].phase # "absent" /\ captor[n].owner = policy[p].uid
                    /\ \/ policy[p].phase = "live" /\ n \in Captors(policy[p].spec.traps)
                       \/ p \in misread
  BY DEF NoStrayCaptor
<1>1. p \in Policies /\ policy[p] \in PolicyObject
  BY DEF Types, CaptorTypes, CaptorObject, ObjectTypes, Objects
<1>2. policy[p].phase # "absent" /\ captor[n].owner = policy[p].uid
  BY DEF Moving, Orphaned, UidsTell
<1>3. ~Due(p) /\ cur # p
  BY DEF Pending, Due
<1>4. ASSUME p \notin misread
      PROVE  policy[p].phase = "live" /\ n \in Captors(policy[p].spec.traps)
  <2>1. policy[p].phase = "live"
    BY <1>1, <1>2, <1>3, <1>4 DEF DeletionComes, PolicyObject
  <2>2. Calm(p)
    BY <1>3, <1>4, <2>1 DEF Calm, Resting
  <2> QED BY <1>1, <2>1, <2>2 DEF CleanAtRest
<1> QED BY <1>2, <1>4

StrayInv == UidsTell /\ CaptorsCohere /\ DeletionComes /\ CleansUp /\ CleanAtRest

\* Nothing is stray at first.
LEMMA StrayInit == Init => StrayInv
BY DEF Init, NoPolicy, StrayInv, UidsTell, CaptorsCohere, DeletionComes, CleansUp, Trusted,
       CleanAtRest

\* The invariants about captors hold in every behaviour.
LEMMA AlwaysCaptors == Spec => [](Types /\ OwnerInv /\ CleanupInv /\ StrayInv)
<1>1. Types /\ OwnerInv /\ CleanupInv /\ StrayInv /\ [Next]_vars => StrayInv'
  BY UidsTellStep, CaptorsCohereStep, DeletionComesStep, CleansUpStep, CleanAtRestStep DEF StrayInv
<1> QED BY <1>1, StrayInit, OwnerInit, OwnerStep, CleanupInit, CleanupStep, AlwaysTyped, PTL DEF Spec

\* No captor outlives its trap or its policy, with any policies, any captors that they
\* share, stale lists, restarts and errors: at rest each captor belongs to the policy it
\* is labelled with, which exists, in its present incarnation, and is asked for by one of
\* its traps (cleanupRemovedCaptors, the owner references and the garbage collector).
\* Only a policy whose last request was misled may have others: that request listed
\* captors from a stale cache, or took a NotFound of the clean-up of decoys for the end
\* of a policy that is in deletion, which then keeps its captors with no request due.
THEOREM NoCaptorIsStray == Spec => []NoStrayCaptor
BY AlwaysCaptors, NoStray, PTL DEF StrayInv

-----------------------------------------------------------------------------
(* Every trap has its captor.                                              *)

\* Captors of Tetragon are only looked up by name, so that a policy which is created
\* again would keep those of its earlier incarnation, and lose them to the garbage
\* collector.  Those of Kive are taken over.
ReusedAreKive ==
    \A p \in Reused : \A s \in SpecsOf[p] : \A n \in Captors(s.traps) : KindOf[n] = "kive"

\* Trap t has its captor, made for the policy with this uid.
Well(t, uid) ==
    NameOf[t] = None \/ (captor[NameOf[t]] # None /\ captor[NameOf[t]].owner = uid)

\* The deployment is yet to look at a trap, has failed with it, or it has its captor.
Deploying == pc = "deploy" \/ (pc = "status" /\ ~Blocked(goal.spec))
Deploys ==
    Trusted /\ Deploying => \A t \in goal.spec.traps \cap ValidTraps :
        (pc = "deploy" /\ t \in todo) \/ t \in failed \/ Well(t, goal.uid)

\* At rest a policy has the captors it asks for, or says that it does not.
WatchedAtRest ==
    \A p \in Policies : Calm(p) =>
       \/ Blocked(policy[p].spec) \/ policy[p].status = "CaptorDeploymentError"
       \/ \A t \in policy[p].spec.traps \cap ValidTraps : Well(t, policy[p].uid)

\* Only the clean-up of a policy takes away the captors of its traps.
LEMMA WellStays ==
    ASSUME Apart, Types, OwnerInv, CleanupInv, [Next]_vars,
           NEW p \in Policies, policy[p].phase # "absent",
           NEW t \in Traps,
           \/ t \in policy[p].spec.traps /\ ~(pc = "delete" /\ cur = p)
           \/ pc \in {"deploy", "status"} /\ cur = p,
           NEW uid, uid = policy[p].uid, Well(t, uid)
    PROVE  Well(t, uid)'
<1> SUFFICES ASSUME NEW n, n = NameOf[t], n # None, captor'[n] # captor[n] PROVE Well(t, uid)'
  BY DEF Well
<1>1. n \in Names /\ captor[n] # None /\ captor[n].owner = uid
  BY CaptorNamesAssumption DEF Well
<1>2. CASE captor'[n] # None
  <2>1. /\ pc = "deploy" /\ cur \in Policies /\ OwnerExists(cur) /\ captor'[n] = Generated
        /\ Own(cur, n)
    <3>1. pc = "deploy" /\ captor'[n] = Generated
          /\ \E u \in Traps : n = NameOf[u] /\ u \in todo
      BY <1>1, <1>2, CaptorMakers DEF CreateTracingPolicy, ApplyKivePolicy, Done
    <3>2. cur \in Policies /\ OwnerExists(cur)
      BY <3>1 DEF OwnerInv, WorksForTheLiving
    <3>3. goal.spec \in SpecsOf[cur] /\ todo \subseteq goal.spec.traps
      BY <3>1 DEF CleanupInv, SpecsAreUsers, TodoIsAsked
    <3> QED BY <3>1, <3>2, <3>3 DEF Own, Captors
  <2>2. CASE cur = p
    BY <1>2, <2>1, <2>2 DEF Generated, OwnerExists, Well
  <2>3. CASE cur # p
    <3>1. n \in Captors(policy[p].spec.traps) /\ policy[p].spec \in SpecsOf[p]
      BY <2>3 DEF Captors, CleanupInv, SpecsAreUsers
    <3> QED BY <2>1, <2>3, <3>1 DEF Apart, Own
  <2> QED BY <2>2, <2>3
<1>3. CASE captor'[n] = None
  <2>1. ~CollectGarbage(n)
    BY <1>1 DEF CollectGarbage, Orphaned
  <2>2. DeleteCaptor(n)
    BY <1>1, <1>3, <2>1, CaptorTakers
  <2>3. pc = "delete" /\ cur \in Policies /\ Own(cur, n)
    BY <2>2 DEF DeleteCaptor, CleanupInv, SurplusIsOurs, OwnerInv, WorksForTheLiving
  <2>4. n \in Captors(policy[p].spec.traps) /\ policy[p].spec \in SpecsOf[p]
    BY <2>3 DEF Captors, CleanupInv, SpecsAreUsers
  <2> QED BY <2>3, <2>4 DEF Apart, Own
<1> QED BY <1>2, <1>3

\* A trap that the deployment has looked at has its captor, or has failed.
LEMMA DeploysStep ==
    ASSUME Apart, ReusedAreKive, Types, OwnerInv, CleanupInv, CaptorsCohere, UidsTell, Deploys,
           [Next]_vars
    PROVE  Deploys'
<1> SUFFICES ASSUME Trusted', Deploying', NEW t, (t \in goal.spec.traps)', t \in ValidTraps,
                    ~(pc = "deploy" /\ t \in todo)', ~(t \in failed)'
             PROVE  Well(t, goal.uid)'
  BY DEF Deploys
<1>1. t \in Traps
  BY CaptorTrapsAssumption
<1>2. ASSUME Trusted, Deploying, UNCHANGED <<cur, goal>>,
             ~(pc = "deploy" /\ t \in todo) /\ t \notin failed
      PROVE  Well(t, goal.uid)'
  <2>1. cur \in Policies /\ policy[cur].phase # "absent" /\ policy[cur].uid = goal.uid
        /\ pc \in {"deploy", "status"}
    BY <1>2 DEF Trusted, Deploying, OwnerInv, WorksForTheLiving, OwnerExists
  <2>2. Well(t, goal.uid)
    BY <1>2 DEF Deploys
  <2>3. ASSUME NEW uid, uid = goal.uid PROVE Well(t, uid)'
    BY <1>1, <2>1, <2>2, <2>3, WellStays
  <2> QED BY <1>2, <2>3 DEF Well
<1>3. CASE UNCHANGED <<localVars, reqVars>>
  BY <1>2, <1>3 DEF localVars, reqVars, Trusted, Deploying
<1>4. ~(pc' = "idle") /\ ~(pc' = "status" /\ err') /\ ~(\E p \in Policies : Fetch(p))
      /\ ~ListCaptors /\ ~FinishDelete /\ ~(\E n \in Names : DeleteCaptor(n))
  BY DEF Trusted, Deploying, Fetch, ListCaptors, FinishDelete, DeleteCaptor
<1>5. CASE CleanUpDecoys
  BY <1>5 DEF CleanUpDecoys, Deploying, reqVars
<1>6. CASE FinishDeploy
  BY <1>2, <1>6 DEF FinishDeploy, reqVars, Trusted, Deploying
<1>7. ASSUME NEW u \in Traps, Done(u),
             \/ SkipCaptor(u) \/ KeepTracingPolicy(u) \/ CreateTracingPolicy(u)
             \/ ApplyKivePolicy(u) \/ DeployFails(u)
      PROVE  Well(t, goal.uid)'
  <2>1. /\ pc = "deploy" /\ pc' = pc /\ todo' = todo \ {u} /\ UNCHANGED <<cur, goal, err>>
        /\ failed \subseteq failed' /\ misread \subseteq misread'
    BY <1>7 DEF SkipCaptor, KeepTracingPolicy, CreateTracingPolicy, ApplyKivePolicy, DeployFails,
                Done, Read
  <2>2. CASE u # t
    BY <1>2, <2>1, <2>2 DEF Trusted, Deploying
  <2>3. CASE u = t
    <3>1. ~DeployFails(t)
      BY DEF DeployFails
    <3>2. CASE SkipCaptor(t)
      BY <3>2 DEF SkipCaptor, Well
    <3>3. CASE CreateTracingPolicy(t) \/ ApplyKivePolicy(t)
      <4>1. WriteCaptor(NameOf[t], Generated) \/ (captor[NameOf[t]] = Generated /\ captor' = captor)
        BY <3>3 DEF CreateTracingPolicy, ApplyKivePolicy
      <4>2. NameOf[t] = None \/ captor'[NameOf[t]] = Generated
        BY <1>1, <4>1, CaptorNamesAssumption DEF WriteCaptor, Types, CaptorTypes
      <4>3. Generated # None /\ Generated.owner = goal.uid
        BY <2>1, GeneratedType, NoCaptorAssumption DEF Generated
      <4> QED BY <2>1, <4>2, <4>3 DEF Well
    <3>4. CASE KeepTracingPolicy(t)
      <4> DEFINE n == NameOf[t]
      <4>1. n \in Names /\ KindOf[n] = "tetragon" /\ ccaptor[n] # None /\ captor' = captor
        BY <1>1, <3>4, CaptorNamesAssumption DEF KeepTracingPolicy, Tetragon
      <4>2. capFresh[n]
        BY <2>1, <3>4 DEF KeepTracingPolicy, Read, Trusted
      <4>3. captor[n] # None
        BY <4>1, <4>2 DEF CaptorsCohere
      <4>4. cur \in Policies /\ policy[cur].uid = goal.uid
        BY <2>1 DEF OwnerInv, WorksForTheLiving, OwnerExists
      <4>5. goal.spec \in SpecsOf[cur] /\ n \in Captors(goal.spec.traps)
        BY <2>1, <4>1, CaptorNoneAssumption DEF CleanupInv, SpecsAreUsers, Captors
      <4>6. captor[n].label = cur
        <5>1. Own(captor[n].label, n) /\ captor[n].label \in Policies
          BY <4>1, <4>3 DEF CleanupInv, LabelsTell, Types, CaptorTypes, CaptorObject
        <5> QED BY <4>4, <4>5, <5>1 DEF Apart, Own
      <4>7. cur \notin Reused
        BY <4>1, <4>5 DEF ReusedAreKive
      <4>8. captor[n].owner = goal.uid
        BY <4>1, <4>3, <4>4, <4>6, <4>7 DEF UidsTell
      <4> QED BY <2>1, <4>1, <4>3, <4>8 DEF Well
    <3> QED BY <1>7, <2>3, <3>1, <3>2, <3>3, <3>4
  <2> QED BY <2>2, <2>3
<1> QED BY <1>3, <1>4, <1>5, <1>6, <1>7, RequestSteps

\* What a request reports stays true while the policy rests.
LEMMA WatchedAtRestStep ==
    ASSUME Apart, Types, OwnerInv, CleanupInv, Deploys, WatchedAtRest, [Next]_vars
    PROVE  WatchedAtRest'
<1> SUFFICES ASSUME NEW p \in Policies, Calm(p)', ~Blocked(policy'[p].spec),
                    policy'[p].status # "CaptorDeploymentError",
                    NEW t, t \in policy'[p].spec.traps, t \in ValidTraps
             PROVE  Well(t, policy[p].uid)'
  BY DEF WatchedAtRest, Blocked
<1>1. t \in Traps
  BY CaptorTrapsAssumption
<1>2. CASE Resting(p) /\ policy'[p] = policy[p]
  <2>1. Calm(p)
    BY <1>2, CalmComes DEF Calm
  <2>2. Well(t, policy[p].uid) /\ t \in policy[p].spec.traps /\ policy[p].phase # "absent"
    BY <1>2, <2>1 DEF WatchedAtRest, Calm
  <2>3. ASSUME NEW uid, uid = policy[p].uid PROVE Well(t, uid)'
    BY <1>1, <1>2, <2>2, <2>3, WellStays DEF Resting
  <2> QED BY <1>2, <2>3 DEF Well
<1>3. CASE UpdateStatus /\ cur = p /\ pc = "status" /\ ~err
  <2>1. captor' = captor /\ Trusted /\ policy'[p].status = CaptorsReason
        /\ policy'[p].uid = policy[p].uid
    BY <1>3, CalmComes DEF UpdateStatus, Trusted, Resting
  <2>2. goal.spec = policy[p].spec /\ policy'[p].spec = policy[p].spec
    BY <1>3, NoNews, CalmComes
  <2>3. failed = {} /\ ~Blocked(goal.spec) /\ t \in goal.spec.traps
    BY <1>3, <2>1, <2>2 DEF CaptorsReason
  <2>4. Well(t, goal.uid)
    BY <1>3, <2>1, <2>3 DEF Deploys, Deploying
  <2>5. policy[p].uid = goal.uid
    BY <1>3 DEF OwnerInv, WorksForTheLiving, OwnerExists
  <2> QED BY <2>1, <2>4, <2>5 DEF Well
<1> QED BY <1>2, <1>3, CalmComes

WatchInv == StrayInv /\ Deploys /\ WatchedAtRest

\* Nothing is deployed at first.
LEMMA WatchInit == Init => WatchInv
BY StrayInit DEF Init, NoPolicy, WatchInv, Deploys, Trusted, WatchedAtRest, Calm

\* What follows from the invariants at rest.
LEMMA WatchedMeans == Types /\ WatchedAtRest => EveryTrapIsWatched
<1> SUFFICES ASSUME Types, WatchedAtRest, NEW p \in Policies, policy[p].phase = "live",
                    ~Pending(p), p \notin misread, policy[p].status # "CaptorDeploymentError"
             PROVE  Watched(p)
  BY DEF EveryTrapIsWatched
<1>1. Calm(p)
  BY DEF Calm, Due, Resting, Pending
<1> QED BY <1>1 DEF WatchedAtRest, Well, Watched, Captors

\* Every valid trap of a policy at rest has its captor, or the condition of the policy
\* reports the error: whatever was deleted, collected, applied or refused in between,
\* through stale lists, restarts and errors, as long as no two policies ask for the same
\* captor and none that is created again asks for one of Tetragon (DeployCaptor).
THEOREM TrapsAreWatched ==
    ASSUME Apart, ReusedAreKive
    PROVE  Spec => []EveryTrapIsWatched
<1>1. Types /\ OwnerInv /\ CleanupInv /\ WatchInv /\ [Next]_vars => WatchInv'
  BY UidsTellStep, CaptorsCohereStep, DeletionComesStep, CleansUpStep, CleanAtRestStep,
     DeploysStep, WatchedAtRestStep DEF WatchInv, StrayInv
<1>2. Spec => []WatchInv
  BY <1>1, WatchInit, AlwaysCaptors, PTL DEF Spec
<1> QED BY <1>2, WatchedMeans, AlwaysTyped, PTL DEF WatchInv
=============================================================================
