--------------------------- MODULE VolumeProofs ----------------------------
(***************************************************************************)
(* Proofs about decoys mounted as volumes, for every set of policies,      *)
(* traps, Deployments and Secrets, any budget, and every behaviour of the  *)
(* environment, failing calls and restarts included.                       *)
(***************************************************************************)
EXTENDS VolumeProperties, TLAPS

-----------------------------------------------------------------------------
(* Types.  TypeOK is not inductive by itself: what a request reads depends  *)
(* on the place of a policy in its plan, and what the worker may do on      *)
(* where it has an item in progress.                                        *)

InPlan == \A p \in Policies : policy[p].plan \in 1..Len(PlanOf[p])
ItemInLoop == item # None => pc \in {"remove", "drop", "deploy", "mount"}

Types == TypeOK /\ InPlan /\ ItemInLoop

DeploymentTypes == dep \in [Deps -> DeploymentObject] /\ cdep \in [Deps -> DeploymentObject]
                   /\ depFresh \in [Deps -> BOOLEAN] /\ depEvent \in [Deps -> BOOLEAN]

\* An operation on the annotation results in an annotation.
LEMMA AnnotationOps ==
    ASSUME NEW ann \in Annotation, NEW p \in Policies, NEW t \in Traps,
           NEW cs \in SUBSET Containers
    PROVE  /\ AddTrap(ann, p, t, cs) \in Annotation
           /\ UpdateContainers(ann, p, t, cs) \in Annotation
           /\ RemoveTrap(ann, p, t, cs) \in Annotation
BY DEF Annotation, AddTrap, UpdateContainers, RemoveTrap

\* It differs from the old one at most in the entry of the policy.
LEMMA AnnotationFrame ==
    ASSUME NEW ann \in Annotation, NEW p \in Policies, NEW q \in Policies, p # q,
           NEW t \in Traps, NEW cs \in SUBSET Containers
    PROVE  /\ AddTrap(ann, p, t, cs)[q] = ann[q]
           /\ UpdateContainers(ann, p, t, cs)[q] = ann[q]
           /\ RemoveTrap(ann, p, t, cs)[q] = ann[q]
BY DEF Annotation, AddTrap, UpdateContainers, RemoveTrap

\* A Deployment without decoys is an object.
LEMMA NewObject == NewDeployment \in DeploymentObject /\ NoCopies \in [Deps -> DeploymentObject]
BY VolumeNoneAssumption DEF NewDeployment, DeploymentObject, NoCopies, NoAnnotation, Annotation

\* The initial state is well typed.
LEMMA InitTypes == Init => Types
<1> SUFFICES ASSUME Init PROVE Types
  OBVIOUS
<1>1. dep \in [Deps -> DeploymentObject]
  <2>1. \A b \in BOOLEAN : [NewDeployment EXCEPT !.labelled = b] \in DeploymentObject
    BY NewObject DEF DeploymentObject
  <2> QED BY <2>1 DEF Init
<1>2. policy \in [Policies -> PolicyObject] /\ InPlan
  <2>1. \A p \in Policies : 1 \in 1..Len(PlanOf[p])
    BY VolumePoliciesAssumption
  <2> QED BY <2>1 DEF Init, InPlan, PolicyObject, Reasons
<1>3. TypeOK
  BY <1>1, <1>2, NewObject, VolumeBoundAssumption DEF Init, TypeOK, ErrorKinds, Results
<1> QED BY <1>2, <1>3 DEF Types, ItemInLoop, Init

\* The item in progress, its Deployment, its volume and its Secret.
LEMMA ItemType ==
    ASSUME Types, item # None
    PROVE  /\ item \in WorkItem /\ item \in work /\ Dep \in Deps /\ item.trap \in Traps
           /\ item.conts \in SUBSET Containers
           /\ Volume \in Paths /\ Secret \in Secrets /\ cur \in Policies
<1>1. item \in WorkItem /\ item \in work /\ pc # "idle"
  BY DEF Types, TypeOK, ItemInLoop
<1>2. Dep \in Deps /\ item.trap \in Traps /\ item.conts \in SUBSET Containers
  BY <1>1 DEF WorkItem, Dep
<1>3. Volume \in Paths /\ Secret \in Secrets
  BY <1>2, VolumeTrapsAssumption DEF Volume, Secret
<1> QED BY <1>1, <1>2, <1>3 DEF Types, TypeOK

\* What the controller makes of a Deployment is a Deployment; the parts that users
\* and other policies own are as before.
LEMMA UnmountedType ==
    ASSUME Types, item # None, NEW o \in DeploymentObject, NEW c \in Containers
    PROVE  LET new == Unmounted(o, c) IN
           /\ new \in DeploymentObject
           /\ new.user = o.user /\ new.labelled = o.labelled /\ new.ann = o.ann
BY ItemType DEF Unmounted, DeploymentObject

\* The same without the volume,
LEMMA WithoutVolumeType ==
    ASSUME Types, item # None, NEW o \in DeploymentObject
    PROVE  LET new == WithoutVolume(o) IN
           /\ new \in DeploymentObject
           /\ new.user = o.user /\ new.labelled = o.labelled /\ new.ann = o.ann
BY ItemType DEF WithoutVolume, DeploymentObject

\* with volume and mount,
LEMMA MountedType ==
    ASSUME Types, item # None, cont \in Containers, NEW o \in DeploymentObject
    PROVE  LET new == Mounted(o) IN
           /\ new \in DeploymentObject
           /\ new.user = o.user /\ new.labelled = o.labelled /\ new.ann = o.ann
BY ItemType DEF Mounted, DeploymentObject

\* and with another entry of the policy in progress.
LEMMA RecordedType ==
    ASSUME Types, item # None, NEW o \in DeploymentObject
    PROVE  LET new == [o EXCEPT !.ann = Recorded(@)] IN
           /\ new \in DeploymentObject
           /\ new.user = o.user /\ new.labelled = o.labelled
           /\ \A p \in Policies \ {cur} : new.ann[p] = o.ann[p]
<1>1. o.ann \in Annotation /\ acc \in SUBSET Containers /\ item.conts \ acc \in SUBSET Containers
  BY ItemType DEF DeploymentObject, Types, TypeOK
<1>2. /\ Recorded(o.ann) \in Annotation
      /\ \A p \in Policies \ {cur} : Recorded(o.ann)[p] = o.ann[p]
  BY <1>1, ItemType, AnnotationOps, AnnotationFrame DEF Recorded
<1> QED BY <1>2 DEF DeploymentObject

\* The API server stores Deployments.
LEMMA WriteType ==
    ASSUME Types, NEW d \in Deps, NEW o \in DeploymentObject, NEW e \in BOOLEAN,
           WriteDeployment(d, o, e)
    PROVE  /\ dep' \in [Deps -> DeploymentObject] /\ depFresh' \in [Deps -> BOOLEAN]
           /\ depEvent' \in [Deps -> BOOLEAN] /\ valid' \in SUBSET Deps
BY DEF Types, TypeOK, WriteDeployment, depVars

\* Users and the Deployment controller write what has a type.
LEMMA OthersTypes ==
    ASSUME Types,
           \/ UserStep \/ \E d \in Deps : BecomeAvailable(d) \/ BecomeUnavailable(d)
    PROVE  Types'
<1>1. ASSUME NEW p \in Policies, CreatePolicy(p) \/ EditPolicy(p) \/ DeletePolicy(p)
      PROVE  Types'
  <2>1. /\ policy[p] \in PolicyObject /\ policy[p].plan \in 1..Len(PlanOf[p])
        /\ Len(PlanOf[p]) \in Nat
    BY VolumePoliciesAssumption DEF Types, TypeOK, InPlan
  <2>2. ASSUME NEW o \in PolicyObject, policy' = [policy EXCEPT ![p] = o],
               o.plan \in 1..Len(PlanOf[p])
        PROVE  policy' \in [Policies -> PolicyObject] /\ InPlan'
    BY <2>2 DEF Types, TypeOK, InPlan
  <2>3. policy' \in [Policies -> PolicyObject] /\ InPlan'
    <3>1. CASE CreatePolicy(p)
      <4>1. policy' = [policy EXCEPT ![p] = [policy[p] EXCEPT !.phase = "live"]]
        BY <3>1 DEF CreatePolicy
      <4>2. /\ [policy[p] EXCEPT !.phase = "live"] \in PolicyObject
            /\ [policy[p] EXCEPT !.phase = "live"].plan = policy[p].plan
        BY <2>1 DEF PolicyObject
      <4> QED BY <2>1, <2>2, <4>1, <4>2
    <3>2. CASE EditPolicy(p)
      <4>1. /\ policy' = [policy EXCEPT ![p] = [policy[p] EXCEPT !.plan = @ + 1]]
            /\ policy[p].plan + 1 \in 1..Len(PlanOf[p])
        BY <2>1, <3>2 DEF EditPolicy
      <4>2. /\ [policy[p] EXCEPT !.plan = @ + 1] \in PolicyObject
            /\ [policy[p] EXCEPT !.plan = @ + 1].plan = policy[p].plan + 1
        BY <2>1 DEF PolicyObject
      <4> QED BY <2>2, <4>1, <4>2
    <3>3. CASE DeletePolicy(p)
      <4>1. PICK f \in {"deleting", "gone"} :
               policy' = [policy EXCEPT ![p] = [policy[p] EXCEPT !.phase = f]]
        BY <3>3 DEF DeletePolicy
      <4>2. /\ [policy[p] EXCEPT !.phase = f] \in PolicyObject
            /\ [policy[p] EXCEPT !.phase = f].plan = policy[p].plan
        BY <2>1 DEF PolicyObject
      <4> QED BY <2>1, <2>2, <4>1, <4>2
    <3> QED BY <1>1, <3>1, <3>2, <3>3
  <2>4. PolicyStep(p)
    BY <1>1 DEF CreatePolicy, EditPolicy, DeletePolicy
  <2> QED BY <2>3, <2>4 DEF PolicyStep, Types, TypeOK, ItemInLoop, depVars, secretVars, cacheVars,
             reqVars, itemVars, resultVars, history
<1>2. ASSUME NEW d \in Deps,
             LabelDeployment(d) \/ EditDeployment(d) \/ BecomeAvailable(d) \/ BecomeUnavailable(d)
      PROVE  Types'
  <2>1. dep[d] \in DeploymentObject
    BY DEF Types, TypeOK
  <2>2. /\ [dep[d] EXCEPT !.labelled = TRUE] \in DeploymentObject
        /\ [dep[d] EXCEPT !.user = @ + 1] \in DeploymentObject
        /\ [dep[d] EXCEPT !.avail = TRUE] \in DeploymentObject
        /\ [dep[d] EXCEPT !.avail = FALSE] \in DeploymentObject
    <3>1. dep[d].user + 1 \in Nat
      BY <2>1 DEF DeploymentObject
    <3> QED BY <2>1, <3>1 DEF DeploymentObject
  <2>3. PICK o \in DeploymentObject, e \in BOOLEAN : DeploymentStep(d, o, e)
    <3>1. CASE LabelDeployment(d)
      BY <2>2, <3>1 DEF LabelDeployment
    <3>2. CASE EditDeployment(d)
      BY <2>2, <3>2 DEF EditDeployment
    <3>3. CASE BecomeAvailable(d)
      BY <2>2, <3>3 DEF BecomeAvailable
    <3>4. CASE BecomeUnavailable(d)
      BY <2>2, <3>4 DEF BecomeUnavailable
    <3> QED BY <1>2, <3>1, <3>2, <3>3, <3>4
  <2>4. faults' \in Nat
    <3>1. faults \in Nat
      BY DEF Types, TypeOK
    <3>2. faults' = faults \/ faults' = faults + 1
      BY <1>2, Zenon DEF LabelDeployment, EditDeployment, BecomeAvailable, BecomeUnavailable, Fault
    <3> QED BY <3>1, <3>2
  <2>5. WriteDeployment(d, o, e)
    BY <2>3 DEF DeploymentStep
  <2>6. /\ dep' \in [Deps -> DeploymentObject] /\ depFresh' \in [Deps -> BOOLEAN]
        /\ depEvent' \in [Deps -> BOOLEAN] /\ valid' \in SUBSET Deps
    BY <2>5, WriteType
  <2> QED BY <2>3, <2>4, <2>6 DEF DeploymentStep, Types, TypeOK, InPlan, ItemInLoop, secretVars,
             cacheVars, queueVars, reqVars, itemVars, resultVars, history
<1> QED BY <1>1, <1>2 DEF UserStep

\* So do the informers and the queue.
LEMMA InformerTypes ==
    ASSUME Types,
           \/ \E d \in Deps : SyncDeployment(d)
           \/ \E s \in Secrets : SyncSecret(s)
           \/ \E p \in Policies : FireTimer(p)
    PROVE  Types'
<1>1. ASSUME NEW d \in Deps, SyncDeployment(d) PROVE Types'
  BY <1>1 DEF SyncDeployment, Types, TypeOK, InPlan, ItemInLoop, secretVars, cacheVars, reqVars,
              itemVars, resultVars, history
<1>2. ASSUME NEW s \in Secrets, SyncSecret(s) PROVE Types'
  BY <1>2 DEF SyncSecret, Types, TypeOK, InPlan, ItemInLoop, depVars, queueVars, reqVars,
              itemVars, resultVars, history
<1>3. ASSUME NEW p \in Policies, FireTimer(p) PROVE Types'
  BY <1>3 DEF FireTimer, Types, TypeOK, InPlan, ItemInLoop, depVars, secretVars, cacheVars,
              reqVars, itemVars, resultVars, history
<1> QED BY <1>1, <1>2, <1>3

\* The types of the variables of a request, and those of the others.
ReqTypes ==
    /\ pc \in {"idle", "adopt", "list", "remove", "drop", "release", "deploy", "mount", "status"}
    /\ cur \in Policies \cup {None} /\ (pc # "idle" => cur # None)
    /\ goal \subseteq Traps /\ finalizing \in BOOLEAN
    /\ todo \subseteq Traps /\ work \subseteq WorkItem /\ item \in work \cup {None}
    /\ left \subseteq Containers /\ cont \in Containers \cup {None}
    /\ (cont # None <=> pc \in {"drop", "mount"}) /\ (cont # None => item # None)
    /\ copy \in [Deps -> DeploymentObject] /\ valid \subseteq Deps
    /\ acc \subseteq Containers /\ bad \in ErrorKinds /\ err \in ErrorKinds
    /\ res \in [Traps -> Results]
    /\ ItemInLoop

RestTypes ==
    /\ policy \in [Policies -> PolicyObject] /\ InPlan
    /\ DeploymentTypes
    /\ secret \subseteq Secrets /\ csecret \subseteq Secrets
    /\ secFresh \in [Secrets -> BOOLEAN]
    /\ queue \subseteq Policies /\ delayed \subseteq Policies
    /\ misled \subseteq Secrets /\ lost \subseteq Deps /\ faults \in Nat

\* Together they are the types.
LEMMA TypesParts == (Types <=> ReqTypes /\ RestTypes) /\ (Types' <=> ReqTypes' /\ RestTypes')
BY DEF Types, TypeOK, ReqTypes, RestTypes, DeploymentTypes

\* A request that is over leaves what has the types.
LEMMA ForgetTypes == ForgetRequest => ReqTypes'
BY NewObject DEF ForgetRequest, ForgetItem, ReqTypes, ItemInLoop, Results, ErrorKinds

\* So does Return, which may delay the policy in progress.
LEMMA ReturnTypes ==
    ASSUME Types, pc # "idle", NEW b \in BOOLEAN, Return(b)
    PROVE  ReqTypes' /\ delayed' \subseteq Policies
BY ForgetTypes DEF Return, Types, TypeOK

\* The steps at the beginning and at the end of a request.
LEMMA EdgeTypes ==
    ASSUME Types, Crash \/ PutFinalizer \/ ReleasePolicy \/ UpdateStatus \/ AbortRemoval
    PROVE  Types'
<1> USE DEF RestTypes, DeploymentTypes
<1>1. ReqTypes /\ RestTypes
  BY TypesParts
<1>2. ASSUME NEW o \in PolicyObject, policy' = [policy EXCEPT ![cur] = o],
             o.plan = policy[cur].plan
      PROVE  policy' \in [Policies -> PolicyObject] /\ InPlan'
  BY <1>1, <1>2 DEF InPlan
<1>3. CASE Crash
  <2>1. RestTypes'
    <3>1. lost' \subseteq Deps
      BY <1>3, <1>1, ItemType DEF Crash, Unrecorded, Types
    <3> QED BY <1>3, <1>1, <3>1 DEF Crash, Fault, InPlan
  <2> QED BY <1>3, <2>1, ForgetTypes, TypesParts DEF Crash
<1>4. CASE PutFinalizer
  <2>1. cur \in Policies /\ policy[cur] \in PolicyObject /\ pc # "idle"
    BY <1>1, <1>4 DEF PutFinalizer, ReqTypes
  <2>2. ReqTypes' /\ delayed' \subseteq Policies
    BY <1>4, <2>1, ReturnTypes DEF PutFinalizer
  <2>3. policy' \in [Policies -> PolicyObject] /\ InPlan'
    <3>1. [policy[cur] EXCEPT !.fin = TRUE] \in PolicyObject
      BY <2>1 DEF PolicyObject
    <3>2. \/ UNCHANGED policy
          \/ policy' = [policy EXCEPT ![cur] = [policy[cur] EXCEPT !.fin = TRUE]]
      BY <1>4 DEF PutFinalizer
    <3> QED BY <1>1, <1>2, <2>1, <3>1, <3>2 DEF InPlan, PolicyObject
  <2> QED BY <1>1, <1>4, <2>1, <2>2, <2>3, TypesParts DEF PutFinalizer, depVars, secretVars,
             cacheVars, history
<1>5. CASE ReleasePolicy
  <2>1. cur \in Policies /\ policy[cur] \in PolicyObject /\ pc # "idle"
    BY <1>1, <1>5 DEF ReleasePolicy, ReqTypes
  <2>2. ReqTypes' /\ delayed' \subseteq Policies
    BY <1>5, <2>1, ReturnTypes DEF ReleasePolicy
  <2>3. policy' \in [Policies -> PolicyObject] /\ InPlan'
    <3>1. [policy[cur] EXCEPT !.phase = "gone", !.fin = FALSE] \in PolicyObject
      BY <2>1 DEF PolicyObject
    <3>2. policy' = [policy EXCEPT ![cur] = [policy[cur] EXCEPT !.phase = "gone", !.fin = FALSE]]
      BY <1>1, <1>5, <2>1 DEF ReleasePolicy
    <3> QED BY <1>1, <1>2, <2>1, <3>1, <3>2 DEF PolicyObject
  <2> QED BY <1>1, <1>5, <2>1, <2>2, <2>3, TypesParts DEF ReleasePolicy, depVars, secretVars,
             cacheVars, history
<1>6. CASE UpdateStatus
  <2>1. cur \in Policies /\ policy[cur] \in PolicyObject /\ pc # "idle"
    BY <1>1, <1>6 DEF UpdateStatus, ReqTypes
  <2>2. ReqTypes' /\ delayed' \subseteq Policies
    BY <1>6, <2>1, ReturnTypes DEF UpdateStatus, Requeue
  <2>3. policy' \in [Policies -> PolicyObject] /\ InPlan'
    <3>1. DecoysReason \in Reasons
      BY DEF DecoysReason, Reasons
    <3>2. [policy[cur] EXCEPT !.status = DecoysReason] \in PolicyObject
      BY <2>1, <3>1 DEF PolicyObject
    <3>3. \/ UNCHANGED policy
          \/ policy' = [policy EXCEPT ![cur] = [policy[cur] EXCEPT !.status = DecoysReason]]
      BY <1>6 DEF UpdateStatus
    <3> QED BY <1>1, <1>2, <2>1, <3>2, <3>3 DEF InPlan, PolicyObject
  <2> QED BY <1>1, <1>6, <2>1, <2>2, <2>3, TypesParts DEF UpdateStatus, depVars, secretVars,
             cacheVars, history
<1>7. CASE AbortRemoval
  <2>1. pc # "idle"
    BY <1>7 DEF AbortRemoval
  <2>2. ReqTypes' /\ delayed' \subseteq Policies
    <3>1. CASE Return(err # "notfound")
      BY <2>1, <3>1, ReturnTypes
    <3>2. CASE /\ pc = "remove" /\ item = None
               /\ pc' = "status" /\ work' = {} /\ copy' = NoCopies /\ valid' = {}
               /\ UNCHANGED <<delayed, reqVars, item, left, cont, acc, bad, resultVars>>
      BY <1>1, <3>2, NewObject DEF ReqTypes, ItemInLoop, reqVars, resultVars
    <3> QED BY <1>7, <3>1, <3>2 DEF AbortRemoval
  <2> QED BY <1>1, <1>7, <2>2, TypesParts DEF AbortRemoval, depVars, secretVars,
             cacheVars, history, InPlan
<1> QED BY <1>3, <1>4, <1>5, <1>6, <1>7

\* The steps of the loops that read the cache.
LEMMA LoopTypes ==
    ASSUME Types,
           \/ \E p \in Policies : Fetch(p)
           \/ ListAnnotated \/ FinishRemoval \/ FinishDeploy
           \/ \E w \in work : StartItem(w)
           \/ \E t \in Traps : MatchTrap(t)
    PROVE  Types'
<1> USE DEF RestTypes, DeploymentTypes
<1>1. ReqTypes /\ RestTypes
  BY TypesParts
<1>2. ASSUME NEW p \in Policies, Fetch(p) PROVE Types'
  <2>1. TrapsOf(p) \subseteq Traps
    <3>1. PlanOf[p] \in Seq(SUBSET Traps) /\ policy[p].plan \in 1..Len(PlanOf[p])
      BY <1>1, VolumePoliciesAssumption DEF InPlan
    <3> QED BY <3>1 DEF TrapsOf
  <2>2. ReqTypes'
    BY <1>1, <1>2, <2>1, VolumeNoneAssumption
       DEF Fetch, ReqTypes, ItemInLoop, reqVars, itemVars, resultVars
  <2> QED BY <1>1, <1>2, <2>2, TypesParts DEF Fetch, InPlan, depVars, secretVars, cacheVars, history
<1>3. CASE ListAnnotated
  <2>1. Unwanted \subseteq WorkItem
    BY DEF Unwanted
  <2>2. \A w \in WorkItem : w.dep \in Deps
    BY DEF WorkItem
  <2>3. copy' \in [Deps -> DeploymentObject] /\ valid' \subseteq Deps
    BY <1>1, <1>3, <2>1, <2>2, NewObject DEF ListAnnotated
  <2>4. item = None
    BY <1>1, <1>3 DEF ListAnnotated, ReqTypes, ItemInLoop
  <2>5. ReqTypes'
    BY <1>1, <1>3, <2>1, <2>3, <2>4 DEF ListAnnotated, ReqTypes, ItemInLoop, reqVars, resultVars
  <2> QED BY <1>1, <1>3, <2>5, TypesParts DEF ListAnnotated, InPlan, depVars, secretVars, cacheVars,
             queueVars, history
<1>4. CASE FinishRemoval
  <2>1. ReqTypes'
    BY <1>1, <1>4, NewObject DEF FinishRemoval, ReqTypes, ItemInLoop, reqVars
  <2> QED BY <1>1, <1>4, <2>1, TypesParts DEF FinishRemoval, InPlan, depVars, secretVars, cacheVars,
             queueVars, history
<1>5. CASE FinishDeploy
  <2>1. ReqTypes'
    BY <1>1, <1>5 DEF FinishDeploy, ReqTypes, ItemInLoop, reqVars, itemVars, resultVars
  <2> QED BY <1>1, <1>5, <2>1, TypesParts DEF FinishDeploy, InPlan, depVars, secretVars, cacheVars,
             queueVars, history
<1>6. ASSUME NEW w \in work, StartItem(w) PROVE Types'
  <2>1. w \in WorkItem /\ w.conts \subseteq Containers
    BY <1>1 DEF ReqTypes, WorkItem
  <2>2. ReqTypes'
    BY <1>1, <1>6, <2>1 DEF StartItem, ReqTypes, ItemInLoop, reqVars, resultVars
  <2> QED BY <1>1, <1>6, <2>2, TypesParts DEF StartItem, InPlan, depVars, secretVars, cacheVars,
             queueVars, history
<1>7. ASSUME NEW t \in Traps, MatchTrap(t) PROVE Types'
  <2>1. res' \in [Traps -> Results] /\ work' \subseteq WorkItem /\ item = None
    BY <1>1, <1>7 DEF MatchTrap, ReqTypes, Outcome, Results
  <2>2. ReqTypes'
    BY <1>1, <1>7, <2>1 DEF MatchTrap, ReqTypes, ItemInLoop, reqVars
  <2> QED BY <1>1, <1>7, <2>2, TypesParts DEF MatchTrap, InPlan, depVars, secretVars, cacheVars,
             queueVars, history
<1> QED BY <1>2, <1>3, <1>4, <1>5, <1>6, <1>7

\* A failed trap.
LEMMA FailType ==
    ASSUME Types, item # None, FailTrap PROVE res' \in [Traps -> Results]
BY ItemType DEF FailTrap, Types, TypeOK, Results

\* The steps that clean up a container.
LEMMA CleanTypes ==
    ASSUME Types,
           \/ \E c \in Containers : UnmountAndUpdate(c) \/ UnmountFails(c)
           \/ NoSecretLeft \/ DeleteSecret \/ DeleteSecretFails
    PROVE  Types'
<1> USE DEF RestTypes, DeploymentTypes
<1>1. ReqTypes /\ RestTypes
  BY TypesParts
<1>2. ASSUME NEW c \in Containers, UnmountAndUpdate(c) \/ UnmountFails(c) PROVE Types'
  <2>1. Unmount(c) /\ item # None /\ pc = "remove"
    BY <1>2 DEF UnmountAndUpdate, UnmountFails, Unmount, Take
  <2>2. Dep \in Deps /\ copy[Dep] \in DeploymentObject /\ faults \in Nat
    BY <1>1, <2>1, ItemType DEF ReqTypes
  <2>3. Unmounted(copy[Dep], c) \in DeploymentObject
    BY <2>1, <2>2, UnmountedType
  <2>4. WithoutVolume(Unmounted(copy[Dep], c)) \in DeploymentObject
    BY <2>1, <2>3, WithoutVolumeType
  <2>5. copy' \in [Deps -> DeploymentObject] /\ c # None
    BY <1>1, <2>1, <2>2, <2>3, VolumeNoneAssumption DEF Unmount, ReqTypes
  <2>6. /\ dep' \in [Deps -> DeploymentObject] /\ depFresh' \in [Deps -> BOOLEAN]
        /\ depEvent' \in [Deps -> BOOLEAN] /\ valid' \in SUBSET Deps /\ bad' \in ErrorKinds
        /\ faults' \in Nat
    <3>1. CASE UnmountAndUpdate(c)
      <4>1. \/ UNCHANGED <<depVars, valid>>
            \/ WriteDeployment(Dep, WithoutVolume(Unmounted(copy[Dep], c)), TRUE)
        BY <3>1 DEF UnmountAndUpdate
      <4>2. bad' \in ErrorKinds /\ UNCHANGED faults
        BY <3>1 DEF UnmountAndUpdate, ErrorKinds
      <4> QED BY <1>1, <2>2, <2>4, <4>1, <4>2, WriteType DEF depVars, ReqTypes
    <3>2. CASE UnmountFails(c)
      BY <1>1, <2>2, <3>2 DEF UnmountFails, Fault, depVars, ReqTypes, ErrorKinds
    <3> QED BY <1>2, <3>1, <3>2
  <2>7. ReqTypes'
    BY <1>1, <2>1, <2>5, <2>6 DEF Unmount, Take, ReqTypes, ItemInLoop, reqVars, resultVars
  <2> QED BY <1>1, <2>1, <2>6, <2>7, TypesParts DEF Unmount, InPlan, secretVars, cacheVars,
             queueVars, history
<1>3. ASSUME NEW e \in ErrorKinds, EndContainer(e), faults' \in Nat,
             secret' \subseteq Secrets, secFresh' \in [Secrets -> BOOLEAN]
      PROVE  Types'
  <2>1. ReqTypes'
    BY <1>1, <1>3 DEF EndContainer, ReqTypes, ItemInLoop, reqVars, JoinErr, ErrorKinds
  <2> QED BY <1>1, <1>3, <2>1, TypesParts DEF EndContainer, InPlan, depVars, cacheVars,
             queueVars, history
<1>4. {"none", "notfound"} \subseteq ErrorKinds
  BY DEF ErrorKinds
<1>5. CASE NoSecretLeft
  BY <1>1, <1>3, <1>4, <1>5 DEF NoSecretLeft, Read, Fault, secretVars
<1>6. CASE DeleteSecret
  BY <1>1, <1>3, <1>4, <1>6 DEF DeleteSecret, WriteSecrets, Read, Fault
<1>7. CASE DeleteSecretFails
  BY <1>1, <1>3, <1>4, <1>7 DEF DeleteSecretFails, Fault, secretVars
<1> QED BY <1>2, <1>5, <1>6, <1>7

\* The steps that deploy a decoy in a container.
LEMMA MountTypes ==
    ASSUME Types,
           \/ \E c \in Containers : CreateSecret(c) \/ SecretExists(c) \/ CreateSecretFails(c)
           \/ MountAndUpdate \/ MountConflict \/ MountFails
    PROVE  Types'
<1> USE DEF RestTypes, DeploymentTypes
<1>1. ReqTypes /\ RestTypes
  BY TypesParts
<1>2. ASSUME NEW c \in Containers, CreateSecret(c) PROVE Types'
  <2>1. item # None /\ cont = None /\ left' \subseteq Containers /\ c # None
    BY <1>1, <1>2, VolumeNoneAssumption DEF CreateSecret, Take, ReqTypes
  <2>2. Dep \in Deps /\ Secret \in Secrets
    BY <2>1, ItemType
  <2>3. copy' \in [Deps -> DeploymentObject] /\ valid' \subseteq Deps
    BY <1>1, <1>2, <2>2 DEF CreateSecret, ReqTypes
  <2>4. /\ secret' \subseteq Secrets /\ misled' \subseteq Secrets
        /\ secFresh' \in [Secrets -> BOOLEAN] /\ faults' \in Nat
    <3>1. faults' \in Nat
      BY <1>1, <1>2 DEF CreateSecret, Read, Fault
    <3>2. misled' \subseteq Secrets
      BY <1>1, <1>2, <2>2 DEF CreateSecret
    <3>3. UNCHANGED secretVars \/ WriteSecrets(secret \cup {Secret}, Secret)
      BY <1>2 DEF CreateSecret
    <3> QED BY <1>1, <2>2, <3>1, <3>2, <3>3 DEF WriteSecrets, secretVars
  <2>5. ReqTypes'
    BY <1>1, <1>2, <2>1, <2>3 DEF CreateSecret, ReqTypes, ItemInLoop, reqVars, resultVars
  <2> QED BY <1>1, <1>2, <2>4, <2>5, TypesParts DEF CreateSecret, InPlan, depVars, cacheVars,
             queueVars
<1>3. ASSUME NEW c \in Containers, SecretExists(c) \/ CreateSecretFails(c) PROVE Types'
  <2>1. FailContainer(c) /\ UNCHANGED history /\ faults' \in Nat
    BY <1>1, <1>3 DEF SecretExists, CreateSecretFails, Read, Fault
  <2>2. item # None /\ left' \subseteq Containers
    BY <1>1, <2>1 DEF FailContainer, Take, ReqTypes
  <2>3. res' \in [Traps -> Results]
    BY <2>1, <2>2, FailType DEF FailContainer
  <2>4. ReqTypes'
    BY <1>1, <2>1, <2>2, <2>3 DEF FailContainer, ReqTypes, ItemInLoop, reqVars
  <2> QED BY <1>1, <2>1, <2>4, TypesParts DEF FailContainer, InPlan, depVars, secretVars, cacheVars,
             queueVars, history
<1>4. ASSUME EndMount, faults' \in Nat,
             dep' \in [Deps -> DeploymentObject], depFresh' \in [Deps -> BOOLEAN],
             depEvent' \in [Deps -> BOOLEAN], valid' \in SUBSET Deps,
             acc' \subseteq Containers, res' \in [Traps -> Results]
      PROVE  Types'
  <2>1. ReqTypes'
    BY <1>1, <1>4, NewObject DEF EndMount, ReqTypes, ItemInLoop, reqVars
  <2> QED BY <1>1, <1>4, <2>1, TypesParts DEF EndMount, InPlan, secretVars, cacheVars,
             queueVars, history
<1>5. CASE MountAndUpdate
  <2>1. item # None /\ cont \in Containers
    BY <1>1, <1>5 DEF MountAndUpdate, EndMount, ReqTypes
  <2>2. Dep \in Deps /\ Mounted(copy[Dep]) \in DeploymentObject
    BY <1>1, <2>1, ItemType, MountedType DEF ReqTypes
  <2>3. WriteDeployment(Dep, Mounted(copy[Dep]), TRUE)
    BY <1>5 DEF MountAndUpdate
  <2>4. /\ dep' \in [Deps -> DeploymentObject] /\ depFresh' \in [Deps -> BOOLEAN]
        /\ depEvent' \in [Deps -> BOOLEAN] /\ valid' \in SUBSET Deps
    BY <2>2, <2>3, WriteType
  <2>5. acc' \subseteq Containers /\ res' \in [Traps -> Results] /\ faults' \in Nat
    BY <1>1, <1>5, <2>1 DEF MountAndUpdate, ReqTypes
  <2> QED BY <1>4, <1>5, <2>4, <2>5 DEF MountAndUpdate
<1>6. CASE MountConflict \/ MountFails
  <2>1. EndMount /\ FailTrap /\ UNCHANGED <<depVars, valid, acc>> /\ faults' \in Nat
    BY <1>1, <1>6 DEF MountConflict, MountFails, Fault
  <2>2. res' \in [Traps -> Results]
    BY <1>1, <2>1, FailType DEF EndMount, ReqTypes
  <2> QED BY <1>1, <1>4, <2>1, <2>2 DEF depVars, ReqTypes
<1> QED BY <1>2, <1>3, <1>5, <1>6

\* The end of an item.
LEMMA RecordTypes ==
    ASSUME Types, SkipRecord \/ Annotate \/ AnnotateFails PROVE Types'
<1> USE DEF RestTypes, DeploymentTypes
<1>1. ReqTypes /\ RestTypes
  BY TypesParts
<1>2. EndItem /\ item # None /\ cont = None
  BY DEF SkipRecord, Annotate, AnnotateFails, EndItem
<1>3. ASSUME copy' \in [Deps -> DeploymentObject], valid' \subseteq Deps, err' \in ErrorKinds,
             res' \in [Traps -> Results], lost' \subseteq Deps, faults' \in Nat,
             dep' \in [Deps -> DeploymentObject], depFresh' \in [Deps -> BOOLEAN],
             UNCHANGED depEvent
      PROVE  Types'
  <2>1. ReqTypes'
    BY <1>1, <1>2, <1>3 DEF EndItem, ForgetItem, ReqTypes, ItemInLoop, reqVars, ErrorKinds
  <2> QED BY <1>1, <1>2, <1>3, <2>1, TypesParts DEF EndItem, InPlan, secretVars, cacheVars, queueVars
<1>4. CASE SkipRecord
  BY <1>1, <1>3, <1>4 DEF SkipRecord, ReqTypes, depVars
<1>5. CASE Annotate
  <2> DEFINE new == [cdep[Dep] EXCEPT !.ann = Recorded(@)]
  <2>1. Dep \in Deps /\ new \in DeploymentObject
    BY <1>1, <1>2, ItemType, RecordedType
  <2>2. /\ dep' = [dep EXCEPT ![Dep] = new] /\ depFresh' = [depFresh EXCEPT ![Dep] = FALSE]
        /\ copy' = (IF pc = "deploy" THEN NoCopies ELSE [copy EXCEPT ![Dep] = new])
        /\ valid' = (IF pc = "deploy" THEN {} ELSE valid \cup {Dep})
        /\ UNCHANGED <<depEvent, err, res, lost, faults>>
    BY <1>5 DEF Annotate
  <2> HIDE DEF new
  <2> QED BY <1>1, <1>3, <2>1, <2>2, NewObject DEF ReqTypes
<1>6. CASE AnnotateFails
  <2>1. lost' \subseteq Deps /\ faults' \in Nat
    BY <1>1, <1>2, <1>6, ItemType DEF AnnotateFails, Unrecorded, Fault
  <2>2. err' \in ErrorKinds /\ res' \in [Traps -> Results]
    BY <1>1, <1>2, <1>6, FailType DEF AnnotateFails, JoinErr, ErrorKinds, ReqTypes
  <2> QED BY <1>1, <1>3, <1>6, <2>1, <2>2 DEF AnnotateFails, ReqTypes, depVars
<1> QED BY <1>4, <1>5, <1>6

\* Every step keeps the types.
LEMMA StepTypes == Types /\ [Next]_vars => Types'
<1> SUFFICES ASSUME Types, [Next]_vars PROVE Types'
  OBVIOUS
<1>1. CASE UNCHANGED vars
  BY <1>1 DEF vars, Types, TypeOK, InPlan, ItemInLoop, depVars, secretVars, cacheVars, queueVars,
              reqVars, itemVars, resultVars, history
<1>2. CASE FaultStep
  BY <1>2, OthersTypes, CleanTypes, MountTypes, RecordTypes, EdgeTypes DEF FaultStep
<1>3. CASE WorkerStep
  BY <1>3, EdgeTypes, LoopTypes, CleanTypes, MountTypes, RecordTypes DEF WorkerStep
<1> QED BY <1>1, <1>2, <1>3, OthersTypes, InformerTypes, LoopTypes DEF Next

\* Every variable keeps its type, for all policies, traps, Deployments, Secrets and
\* environments.
THEOREM VolumesAreTyped == Spec => []TypeOK
BY InitTypes, StepTypes, PTL DEF Spec, Types

-----------------------------------------------------------------------------
(* Edits.                                                                  *)

\* A cached Deployment that counts as current equals the stored one.
CacheIsCurrent == \A d \in Deps : depFresh[d] => cdep[d] = dep[d]

\* What users and other policies own in a Deployment.
SameEdits(o, n) == o.user = n.user /\ o.labelled = n.labelled /\ o.ann = n.ann

\* A copy from which an update would be accepted has the edits of all others; its
\* mounts may differ, when an update has failed after the mount was removed from it.
CopiesAreCurrent ==
    pc \in {"remove", "drop", "mount"} => \A d \in valid : SameEdits(copy[d], dep[d])

EditInv == CacheIsCurrent /\ CopiesAreCurrent

\* A write makes the cached copy and the copy of the worker old.
LEMMA WriteCurrent ==
    ASSUME Types, EditInv, NEW d \in Deps, NEW o, NEW e, WriteDeployment(d, o, e), UNCHANGED cdep
    PROVE  /\ CacheIsCurrent'
           /\ valid' \subseteq valid
           /\ \A x \in valid' : dep'[x] = dep[x]
BY DEF Types, TypeOK, EditInv, CacheIsCurrent, WriteDeployment, depVars

\* Steps that leave Deployments and the cache alone.
LEMMA EditStable ==
    ASSUME EditInv, UNCHANGED <<depVars, cdep>>,
           \/ pc' \notin {"remove", "drop", "mount"}
           \/ /\ pc \in {"remove", "drop", "mount"} /\ valid' \subseteq valid
              /\ \A d \in valid' : SameEdits(copy'[d], copy[d])
    PROVE  EditInv'
BY DEF EditInv, CacheIsCurrent, CopiesAreCurrent, SameEdits, depVars

KeepAll == \A d \in Deps : Kept(d)

\* A step that leaves the Deployments alone undoes nothing.
LEMMA KeptStable == Types /\ UNCHANGED dep => KeepAll
BY DEF Types, TypeOK, DeploymentObject, KeepAll, Kept

\* Neither does one that stores a Deployment with the edits of the others.
LEMMA KeptWrite ==
    ASSUME Types, NEW d \in Deps, NEW o \in DeploymentObject, dep' = [dep EXCEPT ![d] = o],
           o.user >= dep[d].user, dep[d].labelled => o.labelled,
           \A p \in Policies \ {cur} : o.ann[p] = dep[d].ann[p]
    PROVE  KeepAll
<1>1. \A x \in Deps : dep[x].user \in Nat /\ dep'[x] = IF x = d THEN o ELSE dep[x]
  BY DEF Types, TypeOK, DeploymentObject
<1> QED BY <1>1 DEF KeepAll, Kept

\* Users and the Deployment controller: copies that have changed are not valid.
LEMMA OthersKeep ==
    ASSUME Types, EditInv,
           \/ UserStep \/ \E d \in Deps : BecomeAvailable(d) \/ BecomeUnavailable(d)
    PROVE  EditInv' /\ KeepAll
<1>1. ASSUME NEW p \in Policies, PolicyStep(p) PROVE EditInv' /\ KeepAll
  <2>1. UNCHANGED <<depVars, cdep, dep, pc, valid, copy>>
    BY <1>1 DEF PolicyStep, depVars, cacheVars, itemVars
  <2> QED BY <2>1, EditStable, KeptStable DEF SameEdits
<1>2. ASSUME NEW d \in Deps, NEW o \in DeploymentObject, NEW e, DeploymentStep(d, o, e),
             o.user >= dep[d].user, dep[d].labelled => o.labelled, o.ann = dep[d].ann
      PROVE  EditInv' /\ KeepAll
  <2>1. WriteDeployment(d, o, e) /\ UNCHANGED <<cdep, pc, copy>>
    BY <1>2 DEF DeploymentStep, cacheVars, itemVars
  <2>2. EditInv'
    BY <2>1, WriteCurrent DEF EditInv, CopiesAreCurrent
  <2>3. UNCHANGED dep \/ dep' = [dep EXCEPT ![d] = o]
    BY <2>1 DEF WriteDeployment, depVars
  <2> QED BY <1>2, <2>2, <2>3, KeptStable, KeptWrite
<1>3. ASSUME NEW d \in Deps,
             LabelDeployment(d) \/ EditDeployment(d) \/ BecomeAvailable(d) \/ BecomeUnavailable(d)
      PROVE  EditInv' /\ KeepAll
  <2>1. dep[d] \in DeploymentObject /\ dep[d].user \in Nat /\ dep[d].user + 1 \in Nat
    BY DEF Types, TypeOK, DeploymentObject
  <2> DEFINE Fine(o) == /\ o \in DeploymentObject /\ o.user >= dep[d].user
                        /\ (dep[d].labelled => o.labelled) /\ o.ann = dep[d].ann
  <2>2. Fine([dep[d] EXCEPT !.labelled = TRUE])
    <3>1. [dep[d] EXCEPT !.labelled = TRUE] \in DeploymentObject
      BY <2>1 DEF DeploymentObject
    <3>2. /\ [dep[d] EXCEPT !.labelled = TRUE].user = dep[d].user
          /\ [dep[d] EXCEPT !.labelled = TRUE].ann = dep[d].ann
          /\ dep[d].labelled => [dep[d] EXCEPT !.labelled = TRUE].labelled
      BY <2>1 DEF DeploymentObject
    <3> QED BY <2>1, <3>1, <3>2
  <2>3. Fine([dep[d] EXCEPT !.avail = TRUE])
    <3>1. [dep[d] EXCEPT !.avail = TRUE] \in DeploymentObject
      BY <2>1 DEF DeploymentObject
    <3>2. /\ [dep[d] EXCEPT !.avail = TRUE].user = dep[d].user
          /\ [dep[d] EXCEPT !.avail = TRUE].ann = dep[d].ann
          /\ dep[d].labelled => [dep[d] EXCEPT !.avail = TRUE].labelled
      BY <2>1 DEF DeploymentObject
    <3> QED BY <2>1, <3>1, <3>2
  <2>4. Fine([dep[d] EXCEPT !.avail = FALSE])
    <3>1. [dep[d] EXCEPT !.avail = FALSE] \in DeploymentObject
      BY <2>1 DEF DeploymentObject
    <3>2. /\ [dep[d] EXCEPT !.avail = FALSE].user = dep[d].user
          /\ [dep[d] EXCEPT !.avail = FALSE].ann = dep[d].ann
          /\ dep[d].labelled => [dep[d] EXCEPT !.avail = FALSE].labelled
      BY <2>1 DEF DeploymentObject
    <3> QED BY <2>1, <3>1, <3>2
  <2>5. Fine([dep[d] EXCEPT !.user = @ + 1])
    BY <2>1 DEF DeploymentObject
  <2>6. \E o, e : DeploymentStep(d, o, e) /\ Fine(o)
    <3> HIDE DEF Fine
    <3>1. CASE LabelDeployment(d)
      BY <2>2, <3>1 DEF LabelDeployment
    <3>2. CASE BecomeAvailable(d)
      BY <2>3, <3>2 DEF BecomeAvailable
    <3>3. CASE BecomeUnavailable(d)
      BY <2>4, <3>3 DEF BecomeUnavailable
    <3>4. CASE EditDeployment(d)
      BY <2>5, <3>4 DEF EditDeployment
    <3> QED BY <1>3, <3>1, <3>2, <3>3, <3>4
  <2> QED BY <1>2, <2>6
<1> QED BY <1>1, <1>3 DEF UserStep, CreatePolicy, EditPolicy, DeletePolicy

\* The informers, the queue and the restart.
LEMMA InformersKeep ==
    ASSUME Types, EditInv,
           \/ \E d \in Deps : SyncDeployment(d)
           \/ \E s \in Secrets : SyncSecret(s)
           \/ \E p \in Policies : FireTimer(p)
           \/ Crash
    PROVE  EditInv' /\ KeepAll
<1>1. ASSUME NEW d \in Deps, SyncDeployment(d) PROVE EditInv' /\ KeepAll
  <2>1. UNCHANGED <<dep, pc, valid, copy>>
    BY <1>1 DEF SyncDeployment, itemVars
  <2>2. CacheIsCurrent'
    BY <1>1, <2>1 DEF SyncDeployment, Types, TypeOK, EditInv, CacheIsCurrent
  <2> QED BY <2>1, <2>2, KeptStable DEF EditInv, CopiesAreCurrent, SameEdits
<1>2. CASE (\E s \in Secrets : SyncSecret(s)) \/ \E p \in Policies : FireTimer(p)
  <2>1. UNCHANGED <<depVars, cdep, dep, pc, valid, copy>>
    BY <1>2 DEF SyncSecret, FireTimer, depVars, cacheVars, itemVars
  <2> QED BY <2>1, EditStable, KeptStable DEF SameEdits
<1>3. CASE Crash
  <2>1. UNCHANGED dep /\ cdep' = dep /\ pc' = "idle"
    BY <1>3 DEF Crash, ForgetRequest
  <2> QED BY <2>1, KeptStable DEF EditInv, CacheIsCurrent, CopiesAreCurrent
<1> QED BY <1>1, <1>2, <1>3

\* The steps of the worker that do not write Deployments.
LEMMA ReadersKeep ==
    ASSUME Types, EditInv,
           \/ \E p \in Policies : Fetch(p)
           \/ PutFinalizer \/ ListAnnotated \/ (\E w \in work : StartItem(w))
           \/ (\E c \in Containers : \/ UnmountFails(c) \/ CreateSecret(c)
                                     \/ SecretExists(c) \/ CreateSecretFails(c))
           \/ NoSecretLeft \/ DeleteSecret \/ DeleteSecretFails
           \/ MountConflict \/ MountFails \/ SkipRecord \/ AnnotateFails
           \/ AbortRemoval \/ FinishRemoval \/ ReleasePolicy
           \/ (\E t \in Traps : MatchTrap(t)) \/ FinishDeploy \/ UpdateStatus
    PROVE  EditInv' /\ KeepAll
<1>1. ASSUME UNCHANGED <<depVars, cdep>>,
             \/ pc' \notin {"remove", "drop", "mount"}
             \/ pc \in {"remove", "drop", "mount"} /\ UNCHANGED <<valid, copy>>
      PROVE  EditInv' /\ KeepAll
  BY <1>1, EditStable, KeptStable DEF SameEdits, depVars
<1>2. ASSUME NEW p \in Policies, Fetch(p) PROVE EditInv' /\ KeepAll
  BY <1>1, <1>2 DEF Fetch, cacheVars
<1>3. CASE PutFinalizer \/ ReleasePolicy \/ UpdateStatus
  BY <1>1, <1>3 DEF PutFinalizer, ReleasePolicy, UpdateStatus, Return, ForgetRequest, cacheVars
<1>4. CASE ListAnnotated
  <2>1. UNCHANGED <<depVars, cdep, dep>> /\ \A d \in Deps : cdep[d] = dep[d]
    BY <1>4 DEF ListAnnotated, EditInv, CacheIsCurrent, depVars, cacheVars
  <2>2. \A d \in valid' : d \in Deps /\ copy'[d] = cdep[d]
    BY <1>4 DEF ListAnnotated, Unwanted, WorkItem
  <2> QED BY <2>1, <2>2, KeptStable DEF EditInv, CacheIsCurrent, CopiesAreCurrent, SameEdits, depVars
<1>5. ASSUME NEW w \in work, StartItem(w) PROVE EditInv' /\ KeepAll
  BY <1>1, <1>5 DEF StartItem, cacheVars
<1>6. ASSUME NEW c \in Containers, UnmountFails(c) PROVE EditInv' /\ KeepAll
  <2>1. /\ UNCHANGED <<depVars, cdep, dep, valid>> /\ pc = "remove" /\ item # None
        /\ copy' = [copy EXCEPT ![Dep] = Unmounted(@, c)]
    BY <1>6 DEF UnmountFails, Unmount, Take, depVars, cacheVars
  <2>2. \A d \in valid : copy[d] \in DeploymentObject /\ SameEdits(copy'[d], copy[d])
    BY <2>1, UnmountedType DEF Types, TypeOK, SameEdits
  <2> QED BY <2>1, <2>2, EditStable, KeptStable
<1>7. ASSUME NEW c \in Containers, CreateSecret(c) PROVE EditInv' /\ KeepAll
  <2>1. /\ UNCHANGED <<depVars, cdep, dep>> /\ depFresh[Dep] /\ item # None
        /\ copy' = [copy EXCEPT ![Dep] = cdep[Dep]] /\ valid' = {Dep}
    BY <1>7 DEF CreateSecret, Take, depVars, cacheVars
  <2>2. Dep \in Deps /\ copy'[Dep] = dep[Dep]
    BY <2>1, ItemType DEF EditInv, CacheIsCurrent, Types, TypeOK
  <2> QED BY <2>1, <2>2, KeptStable DEF EditInv, CacheIsCurrent, CopiesAreCurrent, SameEdits, depVars
<1>8. CASE \E c \in Containers : SecretExists(c) \/ CreateSecretFails(c)
  BY <1>1, <1>8 DEF SecretExists, CreateSecretFails, FailContainer, cacheVars
<1>9. CASE NoSecretLeft \/ DeleteSecret \/ DeleteSecretFails
  <2>1. \E e : EndContainer(e)
    BY <1>9 DEF NoSecretLeft, DeleteSecret, DeleteSecretFails
  <2> QED BY <1>1, <2>1 DEF EndContainer, cacheVars
<1>10. CASE MountConflict \/ MountFails
  BY <1>1, <1>10 DEF MountConflict, MountFails, EndMount, cacheVars
<1>11. CASE SkipRecord
  BY <1>1, <1>11 DEF SkipRecord, EndItem, cacheVars
<1>12. CASE AnnotateFails
  <2>1. UNCHANGED <<depVars, cdep, pc, valid, copy>>
    BY <1>12 DEF AnnotateFails, EndItem, cacheVars
  <2> QED BY <1>1, <2>1
<1>13. CASE AbortRemoval
  BY <1>1, <1>13 DEF AbortRemoval, Return, ForgetRequest, cacheVars
<1>14. CASE FinishRemoval \/ FinishDeploy \/ \E t \in Traps : MatchTrap(t)
  BY <1>1, <1>14 DEF FinishRemoval, FinishDeploy, MatchTrap, cacheVars
<1> QED BY <1>2, <1>3, <1>4, <1>5, <1>6, <1>7, <1>8, <1>9, <1>10, <1>11, <1>12, <1>13, <1>14

\* A copy is written only if it is valid, and Annotate writes a current object: they
\* have what the others have changed.
LEMMA WritersKeep ==
    ASSUME Types, EditInv,
           (\E c \in Containers : UnmountAndUpdate(c)) \/ MountAndUpdate \/ Annotate
    PROVE  EditInv' /\ KeepAll
<1>1. ASSUME item # None, Dep \in valid, pc \in {"remove", "mount"}, UNCHANGED cdep,
             NEW o \in DeploymentObject, SameEdits(o, copy[Dep]), WriteDeployment(Dep, o, TRUE)
      PROVE  KeepAll
  <2>1. Dep \in Deps /\ SameEdits(o, dep[Dep]) /\ dep[Dep].user \in Nat
    BY <1>1, ItemType DEF EditInv, CopiesAreCurrent, SameEdits, Types, TypeOK, DeploymentObject
  <2>2. UNCHANGED dep \/ dep' = [dep EXCEPT ![Dep] = o]
    BY <1>1 DEF WriteDeployment, depVars
  <2>3. o.user >= dep[Dep].user
    BY <2>1 DEF SameEdits
  <2> QED BY <2>1, <2>2, <2>3, KeptStable, KeptWrite DEF SameEdits
<1>2. ASSUME NEW c \in Containers, UnmountAndUpdate(c) PROVE EditInv' /\ KeepAll
  <2> DEFINE new == WithoutVolume(Unmounted(copy[Dep], c))
  <2>1. /\ item # None /\ pc = "remove" /\ UNCHANGED cdep
        /\ copy' = [copy EXCEPT ![Dep] = Unmounted(@, c)]
        /\ \/ UNCHANGED <<depVars, valid>>
           \/ Dep \in valid /\ WriteDeployment(Dep, new, TRUE)
    BY <1>2 DEF UnmountAndUpdate, Unmount, Take, cacheVars
  <2>2. Dep \in Deps /\ copy \in [Deps -> DeploymentObject] /\ valid \subseteq Deps
    BY <2>1, ItemType DEF Types, TypeOK
  <2>3. /\ Unmounted(copy[Dep], c) \in DeploymentObject
        /\ SameEdits(Unmounted(copy[Dep], c), copy[Dep])
    BY <2>1, <2>2, UnmountedType DEF SameEdits
  <2>4. new \in DeploymentObject /\ SameEdits(new, copy[Dep])
    BY <2>1, <2>3, WithoutVolumeType DEF SameEdits
  <2>5. \A d \in valid : SameEdits(copy'[d], copy[d])
    BY <2>1, <2>2, <2>3 DEF SameEdits
  <2>6. CASE UNCHANGED <<depVars, valid>>
    BY <2>1, <2>5, <2>6, EditStable, KeptStable DEF depVars
  <2>7. CASE Dep \in valid /\ WriteDeployment(Dep, new, TRUE)
    <3> HIDE DEF new
    <3>1. /\ CacheIsCurrent' /\ valid' \subseteq valid /\ \A x \in valid' : dep'[x] = dep[x]
      BY <2>1, <2>2, <2>7, WriteCurrent
    <3>2. CopiesAreCurrent'
      BY <2>1, <2>5, <3>1 DEF EditInv, CopiesAreCurrent, SameEdits
    <3> QED BY <1>1, <2>1, <2>4, <2>7, <3>1, <3>2 DEF EditInv
  <2> QED BY <2>1, <2>6, <2>7
<1>3. CASE MountAndUpdate
  <2>1. /\ pc = "mount" /\ pc' = "deploy" /\ UNCHANGED cdep /\ Dep \in valid
        /\ WriteDeployment(Dep, Mounted(copy[Dep]), TRUE)
    BY <1>3 DEF MountAndUpdate, EndMount, cacheVars
  <2>2. item # None /\ cont \in Containers
    BY <2>1 DEF Types, TypeOK
  <2>3. Dep \in Deps /\ copy[Dep] \in DeploymentObject
    BY <2>2, ItemType DEF Types, TypeOK
  <2>4. Mounted(copy[Dep]) \in DeploymentObject /\ SameEdits(Mounted(copy[Dep]), copy[Dep])
    BY <2>2, <2>3, MountedType DEF SameEdits
  <2>5. CacheIsCurrent' /\ CopiesAreCurrent'
    BY <2>1, <2>3, WriteCurrent DEF CopiesAreCurrent
  <2> QED BY <1>1, <2>1, <2>2, <2>4, <2>5 DEF EditInv
<1>4. CASE Annotate
  <2> DEFINE new == [cdep[Dep] EXCEPT !.ann = Recorded(@)]
  <2>1. /\ item # None /\ depFresh[Dep] /\ UNCHANGED <<cdep, pc>>
        /\ dep' = [dep EXCEPT ![Dep] = new] /\ depFresh' = [depFresh EXCEPT ![Dep] = FALSE]
        /\ copy' = (IF pc = "deploy" THEN NoCopies ELSE [copy EXCEPT ![Dep] = new])
        /\ valid' = (IF pc = "deploy" THEN {} ELSE valid \cup {Dep})
    BY <1>4 DEF Annotate, EndItem, cacheVars
  <2>2. /\ Dep \in Deps /\ cdep[Dep] = dep[Dep] /\ dep[Dep] \in DeploymentObject
        /\ dep[Dep].user \in Nat
    BY <2>1, ItemType DEF EditInv, CacheIsCurrent, Types, TypeOK, DeploymentObject
  <2>3. /\ new \in DeploymentObject /\ new.user = dep[Dep].user
        /\ new.labelled = dep[Dep].labelled
        /\ \A p \in Policies \ {cur} : new.ann[p] = dep[Dep].ann[p]
    BY <2>1, <2>2, RecordedType
  <2> HIDE DEF new
  <2>4. KeepAll
    <3>1. new.user >= dep[Dep].user /\ (dep[Dep].labelled => new.labelled)
      BY <2>2, <2>3
    <3> QED BY <2>1, <2>2, <2>3, <3>1, KeptWrite
  <2>5. CacheIsCurrent'
    BY <2>1, <2>2 DEF EditInv, CacheIsCurrent, Types, TypeOK
  <2>6. CopiesAreCurrent'
    BY <2>1, <2>2 DEF EditInv, CopiesAreCurrent, SameEdits, Types, TypeOK
  <2> QED BY <2>4, <2>5, <2>6 DEF EditInv
<1> QED BY <1>2, <1>3, <1>4

\* Every step.
LEMMA StepKeeps == Types /\ EditInv /\ [Next]_vars => EditInv' /\ KeepAll
<1> SUFFICES ASSUME Types, EditInv, [Next]_vars PROVE EditInv' /\ KeepAll
  OBVIOUS
<1>1. CASE UNCHANGED vars
  <2>1. UNCHANGED <<depVars, cdep, dep, pc, valid, copy>>
    BY <1>1 DEF vars, depVars, cacheVars, itemVars
  <2> QED BY <2>1, EditStable, KeptStable DEF SameEdits
<1>2. CASE FaultStep
  BY <1>2, OthersKeep, InformersKeep, ReadersKeep DEF FaultStep
<1>3. CASE WorkerStep
  BY <1>3, ReadersKeep, WritersKeep DEF WorkerStep
<1> QED BY <1>1, <1>2, <1>3, OthersKeep, InformersKeep, ReadersKeep DEF Next

\* No write of the controller undoes an edit of a user in a Deployment or changes the
\* records of another policy, although the clean-up works on copies that may be long
\* out of date and that have lost mounts to failed updates (RemoveDecoy).
THEOREM EditsAlwaysSurvive == Spec => EditsSurvive
<1>1. Init => EditInv
  BY DEF Init, EditInv, CacheIsCurrent, CopiesAreCurrent
<1>2. Types /\ EditInv /\ [Next]_vars => EditInv' /\ [KeepAll]_vars
  BY StepKeeps
<1> QED BY <1>1, <1>2, InitTypes, StepTypes, PTL DEF Spec, EditsSurvive, KeepAll

-----------------------------------------------------------------------------
(* What steps do to volumes, mounts and records.                           *)

Cleaning == pc \in {"remove", "drop"}
Mounting == pc \in {"deploy", "mount"}

\* The decoys that the request in progress is to remove.
Unneeded(t) == finalizing \/ t \notin goal

\* The steps that the worker has no part in, and those with which it ends a request.
Outside ==
    \/ UserStep \/ UNCHANGED vars
    \/ \E d \in Deps : BecomeAvailable(d) \/ BecomeUnavailable(d) \/ SyncDeployment(d)
    \/ \E s \in Secrets : SyncSecret(s)
    \/ \E p \in Policies : FireTimer(p)
Ending == PutFinalizer \/ ReleasePolicy \/ UpdateStatus \/ Crash \/ (AbortRemoval /\ finalizing)

\* All other steps.
Cleans ==
    \/ ListAnnotated \/ FinishRemoval \/ (AbortRemoval /\ ~finalizing)
    \/ \E c \in Containers : UnmountAndUpdate(c) \/ UnmountFails(c)
    \/ NoSecretLeft \/ DeleteSecret \/ DeleteSecretFails
Mounts ==
    \/ (\E t \in Traps : MatchTrap(t)) \/ FinishDeploy
    \/ \E c \in Containers : CreateSecret(c) \/ SecretExists(c) \/ CreateSecretFails(c)
    \/ MountAndUpdate \/ MountConflict \/ MountFails
Loops == (\E w \in work : StartItem(w)) \/ SkipRecord \/ Annotate \/ AnnotateFails

\* Every step is of one of these kinds.
LEMMA StepKinds ==
    [Next]_vars => Outside \/ Ending \/ Cleans \/ Mounts \/ Loops \/ \E p \in Policies : Fetch(p)
BY DEF Next, UserStep, FaultStep, WorkerStep, Outside, Ending, Cleans, Mounts, Loops

\* Volumes, mounts and records of Deployment d stay.
Stays(d) == /\ dep'[d].vols = dep[d].vols /\ dep'[d].mounts = dep[d].mounts
            /\ dep'[d].ann = dep[d].ann

\* The worker is where it was; some of its copies may have become old.
LEMMA OutsideSteps ==
    ASSUME Types, Outside
    PROVE  /\ UNCHANGED <<pc, reqVars, itemVars, resultVars, history, secret>>
           /\ valid' \subseteq valid /\ \A d \in Deps : Stays(d)
           /\ \A d \in valid' : dep'[d] = dep[d]
<1>1. ASSUME NEW d \in Deps, NEW o, NEW e, WriteDeployment(d, o, e), o.vols = dep[d].vols,
             o.mounts = dep[d].mounts, o.ann = dep[d].ann
      PROVE  /\ valid' \subseteq valid /\ (\A x \in Deps : Stays(x))
             /\ \A x \in valid' : dep'[x] = dep[x]
  BY <1>1 DEF WriteDeployment, depVars, Stays, Types, TypeOK
<1>2. ASSUME NEW d \in Deps,
             LabelDeployment(d) \/ EditDeployment(d) \/ BecomeAvailable(d) \/ BecomeUnavailable(d)
      PROVE  \E o, e : /\ DeploymentStep(d, o, e) /\ o.vols = dep[d].vols
                       /\ o.mounts = dep[d].mounts /\ o.ann = dep[d].ann
  <2> DEFINE Fit(o) == o.vols = dep[d].vols /\ o.mounts = dep[d].mounts /\ o.ann = dep[d].ann
  <2>1. dep[d] \in DeploymentObject
    BY DEF Types, TypeOK
  <2>2. /\ Fit([dep[d] EXCEPT !.labelled = TRUE]) /\ Fit([dep[d] EXCEPT !.avail = TRUE])
        /\ Fit([dep[d] EXCEPT !.avail = FALSE]) /\ Fit([dep[d] EXCEPT !.user = @ + 1])
    BY <2>1 DEF DeploymentObject
  <2>3. \E o, e : DeploymentStep(d, o, e) /\ Fit(o)
    <3> HIDE DEF Fit
    <3>1. CASE LabelDeployment(d)
      BY <2>2, <3>1 DEF LabelDeployment
    <3>2. CASE BecomeAvailable(d)
      BY <2>2, <3>2 DEF BecomeAvailable
    <3>3. CASE BecomeUnavailable(d)
      BY <2>2, <3>3 DEF BecomeUnavailable
    <3>4. CASE EditDeployment(d)
      BY <2>2, <3>4 DEF EditDeployment
    <3> QED BY <1>2, <3>1, <3>2, <3>3, <3>4
  <2> QED BY <2>3
<1>3. ASSUME NEW d \in Deps,
             LabelDeployment(d) \/ EditDeployment(d) \/ BecomeAvailable(d) \/ BecomeUnavailable(d)
      PROVE  /\ UNCHANGED <<pc, reqVars, itemVars, resultVars, history, secret>>
             /\ valid' \subseteq valid /\ (\A x \in Deps : Stays(x))
             /\ \A x \in valid' : dep'[x] = dep[x]
  <2>1. PICK o, e : /\ DeploymentStep(d, o, e) /\ o.vols = dep[d].vols
                    /\ o.mounts = dep[d].mounts /\ o.ann = dep[d].ann
    BY <1>2, <1>3
  <2> QED BY <1>1, <2>1 DEF DeploymentStep, secretVars
<1>4. ASSUME NEW p \in Policies, CreatePolicy(p) \/ EditPolicy(p) \/ DeletePolicy(p) \/ FireTimer(p)
      PROVE  UNCHANGED <<pc, reqVars, itemVars, resultVars, history, secret, valid, dep>>
  BY <1>4 DEF CreatePolicy, EditPolicy, DeletePolicy, FireTimer, PolicyStep, secretVars, depVars
<1>5. CASE (\E d \in Deps : SyncDeployment(d)) \/ (\E s \in Secrets : SyncSecret(s)) \/ UNCHANGED vars
  BY <1>5 DEF SyncDeployment, SyncSecret, vars, secretVars, depVars, Stays
<1>6. CASE UNCHANGED <<pc, reqVars, itemVars, resultVars, history, secret, valid, dep>>
  BY <1>6 DEF Stays
<1> QED BY <1>3, <1>4, <1>5, <1>6 DEF Outside, UserStep

\* A request that ends leaves everything as it is, and nothing in the hands of the worker.
LEMMA EndingSteps ==
    ASSUME Ending
    PROVE  /\ pc' = "idle" /\ item' = None /\ work' = {} /\ finalizing' = FALSE
           /\ UNCHANGED <<dep, secret, misled>> /\ lost \subseteq lost'
BY DEF Ending, PutFinalizer, ReleasePolicy, UpdateStatus, Crash, AbortRemoval, Return,
       ForgetRequest, ForgetItem, depVars, secretVars, history, Unrecorded

\* What the operations on a Deployment change.
LEMMA UnmountedParts ==
    ASSUME Types, item # None, NEW o \in DeploymentObject, NEW c \in Containers
    PROVE  /\ Unmounted(o, c).vols = o.vols
           /\ \A k \in Containers :
                 Unmounted(o, c).mounts[k] = IF k = c THEN o.mounts[k] \ {Volume} ELSE o.mounts[k]
BY DEF Unmounted, DeploymentObject

\* The volume goes,
LEMMA WithoutVolumeParts ==
    ASSUME Types, item # None, NEW o \in DeploymentObject
    PROVE  /\ WithoutVolume(o).mounts = o.mounts
           /\ \A x \in Paths : WithoutVolume(o).vols[x] = IF x = Volume THEN None ELSE o.vols[x]
BY DEF WithoutVolume, DeploymentObject

\* or comes, with its mount.
LEMMA MountedParts ==
    ASSUME Types, item # None, NEW o \in DeploymentObject
    PROVE  /\ \A x \in Paths : Mounted(o).vols[x] =
                 IF x = Volume /\ o.vols[x] = None THEN Secret ELSE o.vols[x]
           /\ \A k \in Containers :
                 Mounted(o).mounts[k] = IF k = cont THEN o.mounts[k] \cup {Volume} ELSE o.mounts[k]
<1>1. o.vols \in [Paths -> Secrets \cup {None}] /\ o.mounts \in [Containers -> SUBSET Paths]
  BY DEF DeploymentObject
<1>2. /\ Mounted(o).vols = [o.vols EXCEPT ![Volume] = IF @ = None THEN Secret ELSE @]
      /\ Mounted(o).mounts = [o.mounts EXCEPT ![cont] = @ \cup {Volume}]
  BY DEF Mounted, DeploymentObject
<1> QED BY <1>1, <1>2

\* The copies of the worker.  A failed update leaves the copy without the mount, for as
\* long as the item is in progress; an error ends the use of the copies.
Behind(d) == IF item # None /\ d = Dep /\ Cleaning THEN {Volume} ELSE {}
CopiesMatch ==
    (pc = "mount" \/ (Cleaning /\ (item # None \/ err = "none"))) => \A d \in valid :
        /\ copy[d].vols = dep[d].vols
        /\ \A c \in Containers : /\ copy[d].mounts[c] \subseteq dep[d].mounts[c]
                                 /\ dep[d].mounts[c] \subseteq copy[d].mounts[c] \cup Behind(d)

\* An update that removes a mount removes the volume with all its mounts.
Emptied ==
    \A d \in Deps :
       /\ dep'[d].ann = dep[d].ann
       /\ \A x \in Paths : dep'[d].vols[x] = IF d = Dep /\ x = Volume THEN None ELSE dep[d].vols[x]
       /\ \A c \in Containers :
             dep'[d].mounts[c] = IF d = Dep THEN dep[d].mounts[c] \ {Volume} ELSE dep[d].mounts[c]

\* An update that adds a mount adds the volume if there is none of its name.
Filled ==
    \A d \in Deps :
       /\ dep'[d].ann = dep[d].ann
       /\ \A x \in Paths : dep'[d].vols[x] =
             IF d = Dep /\ x = Volume /\ dep[d].vols[x] = None THEN Secret ELSE dep[d].vols[x]
       /\ \A c \in Containers : dep'[d].mounts[c] =
             IF d = Dep /\ c = cont THEN dep[d].mounts[c] \cup {Volume} ELSE dep[d].mounts[c]

\* Only the annotation changes.
Noted ==
    \A d \in Deps :
       /\ dep'[d].vols = dep[d].vols /\ dep'[d].mounts = dep[d].mounts
       /\ dep'[d].ann = IF d = Dep THEN Recorded(dep[d].ann) ELSE dep[d].ann

UnmountSucceeds(c) == UnmountAndUpdate(c) /\ Dep \in valid /\ bad' = "none" /\ Emptied

\* An update of the clean-up that is accepted.
LEMMA UnmountEffect ==
    ASSUME Types, EditInv, CopiesMatch, NEW c \in Containers, UnmountAndUpdate(c)
    PROVE  UnmountSucceeds(c) \/ (bad' = "other" /\ UNCHANGED <<dep, valid>>)
<1> DEFINE new == WithoutVolume(Unmounted(copy[Dep], c))
<1>1. /\ item # None /\ pc = "remove" /\ Dep \in Deps /\ Volume \in Paths
      /\ copy[Dep] \in DeploymentObject /\ dep \in [Deps -> DeploymentObject]
  BY ItemType DEF UnmountAndUpdate, Unmount, Take, Types, TypeOK
<1>2. Unmounted(copy[Dep], c) \in DeploymentObject /\ new \in DeploymentObject
      /\ new.ann = copy[Dep].ann
  BY <1>1, UnmountedType, WithoutVolumeType
<1>3. /\ \A x \in Paths : new.vols[x] = IF x = Volume THEN None ELSE copy[Dep].vols[x]
      /\ \A k \in Containers :
            new.mounts[k] = IF k = c THEN copy[Dep].mounts[k] \ {Volume} ELSE copy[Dep].mounts[k]
  <2> DEFINE m == Unmounted(copy[Dep], c)
  <2>1. /\ m \in DeploymentObject /\ m.vols = copy[Dep].vols
        /\ \A k \in Containers :
              m.mounts[k] = IF k = c THEN copy[Dep].mounts[k] \ {Volume} ELSE copy[Dep].mounts[k]
    BY <1>1, <1>2, UnmountedParts
  <2> HIDE DEF m
  <2>2. /\ WithoutVolume(m).mounts = m.mounts
        /\ \A x \in Paths : WithoutVolume(m).vols[x] = IF x = Volume THEN None ELSE m.vols[x]
    BY <1>1, <2>1, WithoutVolumeParts
  <2>3. new = WithoutVolume(m)
    BY DEF m
  <2> HIDE DEF new
  <2> QED BY <2>1, <2>2, <2>3
<1>4. \/ bad' = "other" /\ UNCHANGED <<dep, valid>>
      \/ Dep \in valid /\ ~Invalid(new) /\ bad' = "none" /\ WriteDeployment(Dep, new, TRUE)
  BY DEF UnmountAndUpdate, depVars
<1>5. CASE Dep \in valid /\ ~Invalid(new) /\ bad' = "none" /\ WriteDeployment(Dep, new, TRUE)
  <2> HIDE DEF new
  <2>1. /\ copy[Dep].vols = dep[Dep].vols /\ copy[Dep].ann = dep[Dep].ann
        /\ \A k \in Containers : /\ copy[Dep].mounts[k] \subseteq dep[Dep].mounts[k]
                                 /\ dep[Dep].mounts[k] \subseteq copy[Dep].mounts[k] \cup {Volume}
    BY <1>1, <1>5 DEF CopiesMatch, Behind, Cleaning, EditInv, CopiesAreCurrent, SameEdits
  <2>2. \A k \in Containers : new.mounts[k] \subseteq Paths /\ Volume \notin new.mounts[k]
    BY <1>1, <1>2, <1>3, <1>5 DEF Invalid, DeploymentObject
  <2>3. dep' = [dep EXCEPT ![Dep] = new]
    BY <1>1, <1>5 DEF WriteDeployment, depVars
  <2>4. \A k \in Containers : new.mounts[k] = dep[Dep].mounts[k] \ {Volume}
    BY <1>3, <2>1, <2>2
  <2>5. Emptied
    BY <1>1, <1>2, <1>3, <2>1, <2>3, <2>4 DEF Emptied
  <2> QED BY <1>5, <2>5 DEF UnmountSucceeds
<1> QED BY <1>4, <1>5

\* The update of a deployment.
LEMMA MountEffect ==
    ASSUME Types, EditInv, CopiesMatch, MountAndUpdate
    PROVE  Filled
<1>1. /\ item # None /\ pc = "mount" /\ Dep \in Deps /\ Volume \in Paths /\ cont \in Containers
      /\ copy[Dep] \in DeploymentObject /\ dep \in [Deps -> DeploymentObject]
      /\ Dep \in valid /\ WriteDeployment(Dep, Mounted(copy[Dep]), TRUE)
  BY ItemType DEF MountAndUpdate, EndMount, Types, TypeOK
<1>2. /\ copy[Dep].vols = dep[Dep].vols /\ copy[Dep].ann = dep[Dep].ann
      /\ \A k \in Containers : copy[Dep].mounts[k] = dep[Dep].mounts[k]
  BY <1>1 DEF CopiesMatch, Behind, Cleaning, EditInv, CopiesAreCurrent, SameEdits
<1> DEFINE new == Mounted(copy[Dep])
<1>3. new.ann = copy[Dep].ann /\ new \in DeploymentObject
  BY <1>1, MountedType
<1>4. /\ \A x \in Paths : new.vols[x] =
            IF x = Volume /\ copy[Dep].vols[x] = None THEN Secret ELSE copy[Dep].vols[x]
      /\ \A k \in Containers : new.mounts[k] =
            IF k = cont THEN copy[Dep].mounts[k] \cup {Volume} ELSE copy[Dep].mounts[k]
  BY <1>1, MountedParts
<1> HIDE DEF new
<1>5. dep' = [dep EXCEPT ![Dep] = new]
  <2>1. WriteDeployment(Dep, new, TRUE)
    BY <1>1 DEF new
  <2> QED BY <1>1, <2>1 DEF WriteDeployment, depVars
<1> QED BY <1>1, <1>2, <1>3, <1>4, <1>5 DEF Filled

\* The record.
LEMMA AnnotateEffect ==
    ASSUME Types, EditInv, Annotate
    PROVE  Noted /\ copy' = (IF pc = "deploy" THEN NoCopies ELSE [copy EXCEPT ![Dep] = dep'[Dep]])
<1>1. /\ item # None /\ Dep \in Deps /\ dep \in [Deps -> DeploymentObject]
      /\ dep[Dep] \in DeploymentObject
      /\ dep[Dep] = cdep[Dep] /\ dep' = [dep EXCEPT ![Dep] = [cdep[Dep] EXCEPT !.ann = Recorded(@)]]
  BY ItemType DEF Annotate, EndItem, Types, TypeOK, EditInv, CacheIsCurrent
<1> DEFINE new == [dep[Dep] EXCEPT !.ann = Recorded(@)]
<1>2. new.vols = dep[Dep].vols /\ new.mounts = dep[Dep].mounts /\ new.ann = Recorded(dep[Dep].ann)
  BY <1>1 DEF DeploymentObject
<1>3. dep' = [dep EXCEPT ![Dep] = new]
  BY <1>1, Zenon
<1>4. copy' = (IF pc = "deploy" THEN NoCopies ELSE [copy EXCEPT ![Dep] = new])
  BY <1>1, Zenon DEF Annotate
<1> HIDE DEF new
<1> QED BY <1>1, <1>2, <1>3, <1>4 DEF Noted

\* No other step changes volumes, mounts or records.
LEMMA DeploymentSteps ==
    ASSUME Types, EditInv, CopiesMatch, [Next]_vars
    PROVE  \/ \A d \in Deps : Stays(d)
           \/ \E c \in Containers : UnmountSucceeds(c)
           \/ MountAndUpdate /\ Filled
           \/ Annotate /\ Noted
<1>1. dep' = dep => \A d \in Deps : Stays(d)
  BY DEF Stays
<1>2. CASE Cleans
  <2>1. CASE \E c \in Containers : UnmountAndUpdate(c)
    BY <1>1, <2>1, UnmountEffect
  <2>2. CASE ~\E c \in Containers : UnmountAndUpdate(c)
    BY <1>1, <1>2, <2>2 DEF Cleans, ListAnnotated, FinishRemoval, AbortRemoval, UnmountFails,
       NoSecretLeft, DeleteSecret, DeleteSecretFails, EndContainer, depVars
  <2> QED BY <2>1, <2>2
<1>3. CASE Mounts
  BY <1>1, <1>3, MountEffect DEF Mounts, MatchTrap, FinishDeploy, CreateSecret, SecretExists,
     CreateSecretFails, FailContainer, MountConflict, MountFails, depVars
<1>4. CASE Loops
  BY <1>1, <1>4, AnnotateEffect DEF Loops, StartItem, SkipRecord, AnnotateFails, depVars
<1>5. CASE \E p \in Policies : Fetch(p)
  BY <1>1, <1>5 DEF Fetch, depVars
<1> QED BY <1>1, <1>2, <1>3, <1>4, <1>5, StepKinds, OutsideSteps, EndingSteps
-----------------------------------------------------------------------------
(* Volumes, mounts and the copies of the worker.                           *)

\* A volume is there as long as it has mounts.
VolumesHaveMounts ==
    \A d \in Deps, x \in Paths :
       dep[d].vols[x] # None <=> \E c \in Containers : x \in dep[d].mounts[c]

MountInv == VolumesHaveMounts /\ CopiesMatch

\* A write keeps volumes and mounts together.
LEMMA VolumesStep ==
    ASSUME Types, EditInv, MountInv, [Next]_vars
    PROVE  VolumesHaveMounts'
<1>1. CASE (\A d \in Deps : Stays(d)) \/ (Annotate /\ Noted)
  BY <1>1 DEF MountInv, VolumesHaveMounts, Stays, Noted
<1>2. ASSUME NEW c \in Containers, UnmountSucceeds(c) PROVE VolumesHaveMounts'
  <2>1. ASSUME NEW d \in Deps, NEW x \in Paths
        PROVE  dep'[d].vols[x] # None <=> \E k \in Containers : x \in dep'[d].mounts[k]
    <3>1. dep[d].vols[x] # None <=> \E k \in Containers : x \in dep[d].mounts[k]
      BY DEF MountInv, VolumesHaveMounts
    <3>2. /\ dep'[d].vols[x] = IF d = Dep /\ x = Volume THEN None ELSE dep[d].vols[x]
          /\ \A k \in Containers :
                x \in dep'[d].mounts[k] <=> x \in dep[d].mounts[k] /\ ~(d = Dep /\ x = Volume)
      <4>1. /\ dep'[d].vols[x] = IF d = Dep /\ x = Volume THEN None ELSE dep[d].vols[x]
            /\ \A k \in Containers :
                  dep'[d].mounts[k] = IF d = Dep THEN dep[d].mounts[k] \ {Volume} ELSE dep[d].mounts[k]
        BY <1>2 DEF UnmountSucceeds, Emptied
      <4> QED BY <4>1
    <3> QED BY <3>1, <3>2
  <2> QED BY <2>1 DEF VolumesHaveMounts
<1>3. CASE MountAndUpdate /\ Filled
  <2>1. cont \in Containers /\ Secret # None
    BY <1>3, ItemType, VolumeNoneAssumption DEF MountAndUpdate, EndMount, Types, TypeOK
  <2>2. ASSUME NEW d \in Deps, NEW x \in Paths
        PROVE  dep'[d].vols[x] # None <=> \E k \in Containers : x \in dep'[d].mounts[k]
    <3>1. dep[d].vols[x] # None <=> \E k \in Containers : x \in dep[d].mounts[k]
      BY DEF MountInv, VolumesHaveMounts
    <3>2. /\ dep'[d].vols[x] = IF d = Dep /\ x = Volume /\ dep[d].vols[x] = None
                               THEN Secret ELSE dep[d].vols[x]
          /\ \A k \in Containers : x \in dep'[d].mounts[k] <=>
                x \in dep[d].mounts[k] \/ (d = Dep /\ k = cont /\ x = Volume)
      BY <1>3 DEF Filled
    <3> QED BY <2>1, <3>1, <3>2
  <2> QED BY <2>2 DEF VolumesHaveMounts
<1> QED BY <1>1, <1>2, <1>3, DeploymentSteps DEF MountInv

\* The clean-up may use a copy until an update with it succeeds.
LEMMA UnmountCopies ==
    ASSUME Types, EditInv, MountInv, NEW c \in Containers, UnmountAndUpdate(c) \/ UnmountFails(c)
    PROVE  CopiesMatch'
<1>1. /\ item # None /\ pc = "remove" /\ pc' = "drop" /\ Dep \in Deps /\ Volume \in Paths
      /\ copy \in [Deps -> DeploymentObject] /\ valid \subseteq Deps /\ item' = item
      /\ copy' = [copy EXCEPT ![Dep] = Unmounted(@, c)]
  BY ItemType DEF UnmountAndUpdate, UnmountFails, Unmount, Take, Types, TypeOK
<1> DEFINE m == Unmounted(copy[Dep], c)
<1>2. /\ m.vols = copy[Dep].vols
      /\ \A k \in Containers :
            m.mounts[k] = IF k = c THEN copy[Dep].mounts[k] \ {Volume} ELSE copy[Dep].mounts[k]
  BY <1>1, UnmountedParts
<1>3. \A d \in Deps : copy'[d] = IF d = Dep THEN m ELSE copy[d]
  BY <1>1
<1> HIDE DEF m
<1>4. Cleaning /\ Cleaning' /\ \A d \in Deps : Behind(d)' = Behind(d) /\ (d = Dep => Behind(d) = {Volume})
  BY <1>1 DEF Behind, Cleaning, Dep, Volume
<1>5. valid' \subseteq valid /\ \A d \in valid' : dep'[d].vols = dep[d].vols /\ dep'[d].mounts = dep[d].mounts
  <2>1. CASE UnmountFails(c)
    BY <2>1 DEF UnmountFails, depVars
  <2>2. CASE UnmountAndUpdate(c)
    BY <2>2, <1>1 DEF UnmountAndUpdate, WriteDeployment, depVars, Types, TypeOK
  <2> QED BY <2>1, <2>2
<1>6. \A d \in valid : /\ copy[d].vols = dep[d].vols
                       /\ \A k \in Containers : /\ copy[d].mounts[k] \subseteq dep[d].mounts[k]
                                                /\ dep[d].mounts[k] \subseteq copy[d].mounts[k] \cup Behind(d)
  BY <1>1, <1>4 DEF MountInv, CopiesMatch
<1>7. ASSUME NEW d \in valid'
      PROVE  /\ copy'[d].vols = dep'[d].vols
             /\ \A k \in Containers : /\ copy'[d].mounts[k] \subseteq dep'[d].mounts[k]
                                      /\ dep'[d].mounts[k] \subseteq copy'[d].mounts[k] \cup Behind(d)'
  <2>1. d \in valid /\ d \in Deps
    BY <1>1, <1>5
  <2>2. CASE d = Dep
    <3>1. /\ copy'[d] = m /\ Behind(d)' = {Volume} /\ copy[d].vols = dep[d].vols
          /\ dep'[d].vols = dep[d].vols /\ dep'[d].mounts = dep[d].mounts
          /\ \A k \in Containers : /\ copy[d].mounts[k] \subseteq dep[d].mounts[k]
                                   /\ dep[d].mounts[k] \subseteq copy[d].mounts[k] \cup {Volume}
      BY <1>3, <1>4, <1>5, <1>6, <2>1, <2>2
    <3> QED BY <1>2, <2>2, <3>1
  <2>3. CASE d # Dep
    BY <1>3, <1>4, <1>5, <1>6, <2>1, <2>3
  <2> QED BY <2>2, <2>3
<1> QED BY <1>7 DEF CopiesMatch

\* The others do not change copies, or take fresh ones.
LEMMA CopiesStep ==
    ASSUME Types, EditInv, MountInv, [Next]_vars
    PROVE  CopiesMatch'
<1> USE DEF MountInv
<1>1. CASE Outside
  <2>1. /\ UNCHANGED <<pc, item, err, copy>> /\ valid' \subseteq valid /\ valid \subseteq Deps
        /\ \A d \in valid' : dep'[d] = dep[d]
    BY <1>1, OutsideSteps DEF reqVars, itemVars, resultVars, Types, TypeOK
  <2>2. \A d \in Deps : Behind(d)' = Behind(d)
    BY <2>1 DEF Behind, Cleaning, Dep, Volume
  <2>3. Cleaning' = Cleaning
    BY <2>1 DEF Cleaning
  <2> QED BY <2>1, <2>2, <2>3 DEF CopiesMatch
<1>2. CASE Ending
  BY <1>2, EndingSteps DEF CopiesMatch, Cleaning
<1>3. CASE ListAnnotated
  <2>1. /\ pc' = "remove" /\ dep' = dep /\ \A d \in Deps : cdep[d] = dep[d]
        /\ \A d \in valid' : d \in Deps /\ copy'[d] = cdep[d]
    BY <1>3 DEF ListAnnotated, EditInv, CacheIsCurrent, depVars, Unwanted, WorkItem
  <2> QED BY <2>1 DEF CopiesMatch
<1>4. CASE NoSecretLeft \/ DeleteSecret \/ DeleteSecretFails
  <2>1. /\ pc = "drop" /\ pc' = "remove" /\ item # None /\ UNCHANGED <<item, copy, valid, dep>>
    BY <1>4 DEF NoSecretLeft, DeleteSecret, DeleteSecretFails, EndContainer, depVars, Types, TypeOK
  <2>2. \A d \in Deps : Behind(d)' = Behind(d)
    BY <2>1 DEF Behind, Cleaning, Dep, Volume
  <2> QED BY <2>1, <2>2 DEF CopiesMatch, Cleaning, Types, TypeOK
<1>5. ASSUME NEW w \in work, StartItem(w) PROVE CopiesMatch'
  <2>1. /\ item = None /\ UNCHANGED <<pc, copy, valid, dep, err>>
        /\ pc = "deploy" \/ (pc = "remove" /\ err = "none")
    BY <1>5 DEF StartItem, depVars, resultVars
  <2>2. \A d \in Deps : Behind(d) = {}
    BY <2>1 DEF Behind
  <2> QED BY <2>1, <2>2 DEF CopiesMatch, Cleaning, Types, TypeOK
<1>6. CASE Annotate
  <2>1. item # None /\ Dep \in Deps /\ copy \in [Deps -> DeploymentObject] /\ valid \subseteq Deps
        /\ pc \in {"remove", "drop", "deploy", "mount"} /\ UNCHANGED <<pc, err>> /\ item' = None
    BY <1>6, ItemType DEF Annotate, EndItem, ForgetItem, Types, TypeOK, ItemInLoop
  <2>2. /\ copy' = (IF pc = "deploy" THEN NoCopies ELSE [copy EXCEPT ![Dep] = dep'[Dep]])
        /\ Noted
    BY <1>6, AnnotateEffect
  <2>3. valid' = IF pc = "deploy" THEN {} ELSE valid \cup {Dep}
    BY <1>6, Zenon DEF Annotate
  <2>4. ASSUME Cleaning, NEW d \in valid'
        PROVE  /\ copy'[d].vols = dep'[d].vols
               /\ \A k \in Containers : copy'[d].mounts[k] = dep'[d].mounts[k]
    <3>1. CASE d = Dep
      BY <2>1, <2>2, <2>3, <2>4, <3>1 DEF Cleaning
    <3>2. CASE d # Dep
      <4>1. d \in valid /\ copy'[d] = copy[d] /\ d \in Deps
        BY <2>1, <2>2, <2>3, <2>4, <3>2 DEF Cleaning
      <4>2. Behind(d) = {} /\ dep'[d].vols = dep[d].vols /\ dep'[d].mounts = dep[d].mounts
        BY <2>2, <3>2, <4>1 DEF Behind, Noted
      <4>3. \A k \in Containers : copy[d].mounts[k] = dep[d].mounts[k]
        BY <2>1, <2>4, <4>1, <4>2 DEF CopiesMatch
      <4>4. copy[d].vols = dep[d].vols
        BY <2>1, <2>4, <4>1 DEF CopiesMatch
      <4> QED BY <4>1, <4>2, <4>3, <4>4
    <3> QED BY <3>1, <3>2
  <2>5. ASSUME Cleaning' PROVE Cleaning
    BY <2>1, <2>5 DEF Cleaning
  <2>6. pc' # "mount"
    BY <1>6, <2>1 DEF Annotate, EndItem, Types, TypeOK
  <2> QED BY <2>4, <2>5, <2>6 DEF CopiesMatch
<1>7. CASE AnnotateFails \/ SkipRecord
  <2>1. pc' = pc /\ pc # "mount" /\ pc # "drop" /\ item' = None /\ (pc = "remove" => err' # "none")
    BY <1>7 DEF AnnotateFails, SkipRecord, EndItem, ForgetItem, JoinErr, Types, TypeOK
  <2> QED BY <2>1 DEF CopiesMatch, Cleaning
<1>8. ASSUME NEW c \in Containers, CreateSecret(c) PROVE CopiesMatch'
  <2>1. /\ item # None /\ depFresh[Dep] /\ dep' = dep /\ pc' = "mount" /\ valid' = {Dep}
        /\ copy' = [copy EXCEPT ![Dep] = cdep[Dep]]
    BY <1>8 DEF CreateSecret, Take, depVars
  <2>2. Dep \in Deps /\ copy'[Dep] = dep[Dep]
    BY <2>1, ItemType DEF EditInv, CacheIsCurrent, Types, TypeOK
  <2> QED BY <2>1, <2>2 DEF CopiesMatch
<1>9. CASE \/ FinishRemoval \/ (AbortRemoval /\ ~finalizing) \/ (\E t \in Traps : MatchTrap(t))
           \/ FinishDeploy \/ (\E c \in Containers : SecretExists(c) \/ CreateSecretFails(c))
           \/ MountAndUpdate \/ MountConflict \/ MountFails \/ \E p \in Policies : Fetch(p)
  <2>1. pc' \notin {"remove", "drop", "mount"}
    BY <1>9 DEF FinishRemoval, AbortRemoval, MatchTrap, FinishDeploy, SecretExists,
       CreateSecretFails, FailContainer, MountAndUpdate, MountConflict, MountFails, EndMount, Fetch
  <2> QED BY <2>1 DEF CopiesMatch, Cleaning
<1>10. CASE Cleans
  BY <1>3, <1>4, <1>9, <1>10, UnmountCopies DEF Cleans
<1>11. CASE Mounts \/ \E p \in Policies : Fetch(p)
  BY <1>8, <1>9, <1>11 DEF Mounts
<1>12. CASE Loops
  BY <1>5, <1>6, <1>7, <1>12 DEF Loops
<1> QED BY <1>1, <1>2, <1>10, <1>11, <1>12, StepKinds

\* In all reachable states.
LEMMA MountStep == Types /\ EditInv /\ MountInv /\ [Next]_vars => MountInv'
BY VolumesStep, CopiesStep DEF MountInv
-----------------------------------------------------------------------------
(* Records, and the work that a request makes of them.                     *)

\* A record names containers that the trap selects.
RecordsFit ==
    \A p \in Policies, d \in Deps, t \in Traps : dep[d].ann[p][t] \subseteq SelectedBy[t]

\* The worker changes the record of an item only when the item is done.
WorkAgrees ==
    \A w \in work :
       /\ Cleaning => /\ w.conts = dep[w.dep].ann[cur][w.trap] /\ w.conts # {}
                      /\ w.already = {} /\ Unneeded(w.trap)
       /\ Mounting => /\ w.conts = SelectedBy[w.trap] /\ w.trap \in goal
                      /\ w.already = dep[w.dep].ann[cur][w.trap]

\* Each container of the item is to do, in progress, done or has met an error; when one
\* is cleaned up the volume is gone.
ItemAgrees ==
    item # None =>
       /\ acc \subseteq item.conts /\ left \subseteq item.conts
       /\ (cont # None => cont \in item.conts)
       /\ (Mounting => item.already \subseteq acc)
       /\ (Cleaning /\ err = "none" => item.conts \subseteq acc \cup left \cup {cont})
       /\ (Cleaning /\ (acc # {} \/ (pc = "drop" /\ bad = "none")) => dep[Dep].vols[Volume] = None)

\* A policy with records has the finalizer; the last request of a policy only cleans up.
Held(p) == Exists(p) /\ policy[p].fin
PoliciesAgree ==
    /\ \A p \in Policies, d \in Deps, t \in Traps : dep[d].ann[p][t] # {} => Held(p)
    /\ \A p \in Policies : policy[p].phase = "deleting" => policy[p].fin
    /\ (pc \notin {"idle", "adopt"} => Held(cur))
    /\ (finalizing => /\ pc \in {"list", "remove", "drop", "release"}
                      /\ policy[cur].phase = "deleting")
    /\ (pc = "release" => finalizing)

\* Decoys are mounted when the clean-up has no work left.
Progress ==
    /\ Mounting \/ pc = "release" \/ (pc = "status" /\ err = "none") =>
          \A d \in Deps, t \in Traps : Unneeded(t) => dep[d].ann[cur][t] = {}
    /\ Cleaning /\ err = "none" =>
          \A d \in Deps, t \in Traps :
             Unneeded(t) /\ dep[d].ann[cur][t] # {} => \E w \in work : w.dep = d /\ w.trap = t
    /\ Mounting => err = "none" /\ todo \subseteq goal

\* Each mount is recorded, or about to be, unless it was too late for that.
MountsKnown ==
    \A d \in Deps \ lost, c \in Containers : \A x \in dep[d].mounts[c] :
       \/ \E p \in Policies, t \in Traps : PathOf[t] = x /\ Records(p, d, c, t)
       \/ Mounting /\ item # None /\ d = Dep /\ x = Volume /\ c \in acc

RecordInv == RecordsFit /\ WorkAgrees /\ ItemAgrees /\ PoliciesAgree /\ Progress /\ MountsKnown

\* A policy that is held stays so while the worker does something else.
LEMMA OutsidePolicies ==
    ASSUME Types, Outside
    PROVE  \A p \in Policies :
              /\ policy'[p].fin = policy[p].fin
              /\ policy[p].phase = "deleting" => policy'[p].phase = "deleting"
              /\ policy[p].phase = "live" /\ policy[p].fin => policy'[p].phase \in {"live", "deleting"}
              /\ policy'[p].phase = "deleting" => policy[p].phase = "deleting" \/ policy[p].fin
<1>1. ASSUME UNCHANGED policy PROVE \A p \in Policies : policy'[p] = policy[p]
  BY <1>1
<1>2. ASSUME NEW q \in Policies, CreatePolicy(q) \/ EditPolicy(q) \/ DeletePolicy(q)
      PROVE  \A p \in Policies :
                \/ policy'[p] = policy[p]
                \/ /\ policy'[p].fin = policy[p].fin /\ policy[p].phase \in {"unborn", "live"}
                   /\ \/ policy'[p].phase = "live"
                      \/ policy'[p].phase = IF policy[p].fin THEN "deleting" ELSE "gone"
  BY <1>2 DEF CreatePolicy, EditPolicy, DeletePolicy, Types, TypeOK, PolicyObject
<1>3. CASE UNCHANGED policy
  BY <1>1, <1>3
<1>4. CASE \E q \in Policies : CreatePolicy(q) \/ EditPolicy(q) \/ DeletePolicy(q)
  BY <1>2, <1>4
<1>5. UNCHANGED policy \/ \E q \in Policies : CreatePolicy(q) \/ EditPolicy(q) \/ DeletePolicy(q)
  BY DEF Outside, UserStep, LabelDeployment, EditDeployment, BecomeAvailable, BecomeUnavailable,
     DeploymentStep, SyncDeployment, SyncSecret, FireTimer, vars
<1> QED BY <1>3, <1>4, <1>5

\* What the others do.
LEMMA OutsideRecords ==
    ASSUME Types, RecordInv, Outside
    PROVE  RecordInv'
<1>1. /\ UNCHANGED <<pc, cur, goal, finalizing, todo, work, item, left, cont, acc, bad, err, lost>>
      /\ \A d \in Deps : Stays(d)
  BY OutsideSteps DEF reqVars, itemVars, resultVars, history
<1>2. cur \in Policies \cup {None} /\ (pc # "idle" => cur \in Policies)
  BY DEF Types, TypeOK
<1>3. RecordsFit' /\ MountsKnown'
  BY <1>1 DEF RecordInv, RecordsFit, MountsKnown, Stays, Records, Mounting, Dep, Volume
<1>4. WorkAgrees' /\ ItemAgrees'
  <2>1. \A w \in work : w.dep \in Deps
    BY DEF Types, TypeOK, WorkItem
  <2>2. item # None => Dep \in Deps
    BY ItemType
  <2>3. WorkAgrees'
    BY <1>1, <2>1 DEF RecordInv, WorkAgrees, Stays, Cleaning, Mounting, Unneeded
  <2>4. ItemAgrees'
    BY <1>1, <2>2 DEF RecordInv, ItemAgrees, Stays, Cleaning, Mounting, Dep, Volume
  <2> QED BY <2>3, <2>4
<1>5. PoliciesAgree'
  <2>1. finalizing => cur \in Policies
    BY <1>2 DEF RecordInv, PoliciesAgree
  <2>2. \A p \in Policies : Held(p) => Held(p)'
    BY OutsidePolicies DEF Held, Exists
  <2> QED BY <1>1, <1>2, <2>1, <2>2, OutsidePolicies DEF RecordInv, PoliciesAgree, Stays
<1>6. Progress'
  BY <1>1 DEF RecordInv, Progress, Stays, Cleaning, Mounting, Unneeded
<1> QED BY <1>3, <1>4, <1>5, <1>6 DEF RecordInv

\* The end of a request: a policy goes when its records are gone.
LEMMA EndingRecords ==
    ASSUME Types, RecordInv, Ending
    PROVE  RecordInv'
<1>1. /\ pc' = "idle" /\ item' = None /\ work' = {} /\ finalizing' = FALSE /\ dep' = dep
      /\ lost \subseteq lost'
  BY EndingSteps
<1>2. RecordsFit' /\ WorkAgrees' /\ ItemAgrees' /\ Progress'
  BY <1>1 DEF RecordInv, RecordsFit, WorkAgrees, ItemAgrees, Progress, Cleaning, Mounting
<1>3. ASSUME Mounting, item # None, acc # {} PROVE Dep \in lost'
  BY <1>3 DEF Ending, PutFinalizer, ReleasePolicy, UpdateStatus, Crash, AbortRemoval, Mounting, Unrecorded
<1>4. MountsKnown'
  BY <1>1, <1>3 DEF RecordInv, MountsKnown, Records
<1>5. PoliciesAgree'
  <2>1. ASSUME NEW p \in Policies, Held(p), (\E d \in Deps, t \in Traps : dep[d].ann[p][t] # {})
        PROVE  Held(p)'
    <3>1. CASE ReleasePolicy
      <4>1. pc = "release" /\ finalizing
        BY <3>1 DEF ReleasePolicy, RecordInv, PoliciesAgree
      <4>2. p # cur
        BY <2>1, <4>1 DEF RecordInv, Progress, Unneeded
      <4> QED BY <2>1, <3>1, <4>2 DEF ReleasePolicy, Held, Exists, Types, TypeOK
    <3>2. CASE ~ReleasePolicy
      <4>1. policy'[p].phase = policy[p].phase /\ (policy[p].fin => policy'[p].fin)
        <5>1. CASE PutFinalizer
          BY <5>1 DEF PutFinalizer, Types, TypeOK, PolicyObject
        <5>2. CASE UpdateStatus
          BY <5>2 DEF UpdateStatus, Types, TypeOK, PolicyObject
        <5> QED BY <3>2, <5>1, <5>2 DEF Ending, Crash, AbortRemoval
      <4> QED BY <2>1, <4>1 DEF Held, Exists
    <3> QED BY <3>1, <3>2
  <2>2. \A p \in Policies : policy'[p].phase = "deleting" => policy'[p].fin
    BY DEF Ending, PutFinalizer, ReleasePolicy, UpdateStatus, Crash, AbortRemoval, RecordInv,
       PoliciesAgree, Types, TypeOK, PolicyObject
  <2> QED BY <1>1, <2>1, <2>2 DEF RecordInv, PoliciesAgree
<1> QED BY <1>2, <1>4, <1>5 DEF RecordInv
\* What the worker does to Deployments and policies while it cleans up.
LEMMA CleansFrame ==
    ASSUME Types, EditInv, MountInv, Cleans
    PROVE  /\ UNCHANGED <<policy, cur, goal, finalizing, lost>>
           /\ \A d \in Deps :
                 /\ dep'[d].ann = dep[d].ann
                 /\ \A c \in Containers : dep'[d].mounts[c] \subseteq dep[d].mounts[c]
                 /\ \A x \in Paths : dep'[d].vols[x] \in {dep[d].vols[x], None}
<1>1. UNCHANGED <<policy, cur, goal, finalizing, lost>>
  BY DEF Cleans, ListAnnotated, FinishRemoval, AbortRemoval, UnmountAndUpdate, UnmountFails, Unmount,
     NoSecretLeft, DeleteSecret, DeleteSecretFails, EndContainer, reqVars, history
<1>2. (\A d \in Deps : Stays(d)) \/ \E c \in Containers : UnmountSucceeds(c)
  <2>1. ~MountAndUpdate /\ ~Annotate
    BY DEF Cleans, ListAnnotated, FinishRemoval, AbortRemoval, UnmountAndUpdate, UnmountFails, Unmount,
       NoSecretLeft, DeleteSecret, DeleteSecretFails, EndContainer, MountAndUpdate, EndMount, Annotate,
       EndItem, ForgetItem, Take
  <2>2. [Next]_vars
    BY DEF Cleans, Next, WorkerStep, FaultStep
  <2> QED BY <2>1, <2>2, DeploymentSteps DEF MountInv
<1>3. CASE \A d \in Deps : Stays(d)
  BY <1>1, <1>3 DEF Stays
<1>4. ASSUME NEW c \in Containers, UnmountSucceeds(c), NEW d \in Deps
      PROVE  /\ dep'[d].ann = dep[d].ann
             /\ \A k \in Containers : dep'[d].mounts[k] \subseteq dep[d].mounts[k]
             /\ \A x \in Paths : dep'[d].vols[x] \in {dep[d].vols[x], None}
  BY <1>4 DEF UnmountSucceeds, Emptied
<1> QED BY <1>1, <1>2, <1>3, <1>4

\* What the clean-up has to do is what it finds.
LEMMA ListedRecords ==
    ASSUME Types, EditInv, RecordInv, ListAnnotated
    PROVE  WorkAgrees' /\ Progress'
<1>1. /\ pc = "list" /\ pc' = "remove" /\ work' = Unwanted /\ item = None
      /\ UNCHANGED <<dep, cur, goal, finalizing, err>> /\ \A d \in Deps : cdep[d] = dep[d]
  BY DEF ListAnnotated, reqVars, resultVars, depVars, Types, ItemInLoop, EditInv, CacheIsCurrent
<1>2. WorkAgrees'
  <2>1. ASSUME NEW w \in Unwanted
        PROVE  /\ w.conts = dep[w.dep].ann[cur][w.trap] /\ w.conts # {}
               /\ w.already = {} /\ Unneeded(w.trap)
    BY <1>1, <2>1 DEF Unwanted, Unneeded, WorkItem
  <2> QED BY <1>1, <2>1 DEF WorkAgrees, Cleaning, Mounting, Unneeded
<1>3. ASSUME NEW d \in Deps, NEW t \in Traps, Unneeded(t), dep[d].ann[cur][t] # {}
      PROVE  \E w \in Unwanted : w.dep = d /\ w.trap = t
  <2> DEFINE w == [dep |-> d, trap |-> t, conts |-> dep[d].ann[cur][t], already |-> {}]
  <2>1. dep[d].ann[cur][t] \in SUBSET Containers
    BY <1>1 DEF Types, TypeOK, DeploymentObject, Annotation
  <2>2. w \in WorkItem
    BY <2>1 DEF WorkItem
  <2>3. w \in Unwanted
    BY <1>1, <1>3, <2>2 DEF Unwanted, Unneeded
  <2> QED BY <2>3
<1>4. Progress'
  BY <1>1, <1>3 DEF Progress, Cleaning, Mounting, Unneeded
<1> QED BY <1>2, <1>4

\* The clean-up of an item.
LEMMA UnmountRecords ==
    ASSUME Types, EditInv, MountInv, RecordInv, NEW c \in Containers,
           UnmountAndUpdate(c) \/ UnmountFails(c)
    PROVE  WorkAgrees' /\ ItemAgrees' /\ Progress'
<1>1. /\ item # None /\ pc = "remove" /\ pc' = "drop" /\ c \in left /\ cont' = c /\ cont = None
      /\ left' = left \ {c} /\ UNCHANGED <<cur, goal, finalizing, work, item, acc, err>>
  BY DEF UnmountAndUpdate, UnmountFails, Unmount, Take, reqVars, resultVars
<1>2. /\ Dep \in Deps /\ Volume \in Paths /\ \A w \in work : w.dep \in Deps
      /\ left \subseteq Containers /\ None \notin Containers
  BY <1>1, ItemType, VolumeNoneAssumption DEF Types, TypeOK, WorkItem
<1>3. \A d \in Deps : dep'[d].ann = dep[d].ann /\ \A x \in Paths : dep'[d].vols[x] \in {dep[d].vols[x], None}
  BY CleansFrame DEF Cleans
<1>4. WorkAgrees' /\ Progress'
  BY <1>1, <1>2, <1>3 DEF RecordInv, WorkAgrees, Progress, Cleaning, Mounting, Unneeded
<1>5. bad' = "none" => dep'[Dep].vols[Volume] = None
  <2>1. UnmountFails(c) => bad' = "other"
    BY DEF UnmountFails
  <2>2. UnmountSucceeds(c) => dep'[Dep].vols[Volume] = None
    BY <1>2 DEF UnmountSucceeds, Emptied
  <2> QED BY <2>1, <2>2, UnmountEffect DEF MountInv
<1>6. ItemAgrees'
  <2>1. Cleaning /\ Dep' = Dep /\ Volume' = Volume
    BY <1>1 DEF Cleaning, Dep, Volume
  <2>2. dep'[Dep].vols[Volume] \in {dep[Dep].vols[Volume], None}
    BY <1>2, <1>3
  <2>3. /\ acc \subseteq item.conts /\ left \subseteq item.conts
        /\ err = "none" => item.conts \subseteq acc \cup left \cup {cont}
        /\ acc # {} => dep[Dep].vols[Volume] = None
    BY <1>1, <2>1 DEF RecordInv, ItemAgrees
  <2>4. err = "none" => item.conts \subseteq acc \cup left' \cup {c}
    BY <1>1, <1>2, <2>3, ItemType
  <2> QED BY <1>1, <1>5, <2>1, <2>2, <2>3, <2>4 DEF ItemAgrees, Mounting
<1> QED BY <1>4, <1>6

\* The rest of it.
LEMMA DropRecords ==
    ASSUME Types, EditInv, MountInv, RecordInv, NoSecretLeft \/ DeleteSecret \/ DeleteSecretFails
    PROVE  WorkAgrees' /\ ItemAgrees' /\ Progress'
<1>1. PICK e \in {"none", "notfound"} : EndContainer(e)
  BY DEF NoSecretLeft, DeleteSecret, DeleteSecretFails
<1>2. /\ item # None /\ pc = "drop" /\ pc' = "remove" /\ cont' = None /\ cont \in Containers
      /\ UNCHANGED <<cur, goal, finalizing, work, item, left, dep>>
      /\ err' = JoinErr(err, JoinErr(bad, e))
      /\ acc' = IF bad = "none" /\ e = "none" THEN acc \cup {cont} ELSE acc
  BY <1>1 DEF EndContainer, reqVars, depVars, Types, TypeOK
<1>3. err' = "none" => err = "none" /\ bad = "none" /\ e = "none"
  BY <1>2 DEF JoinErr
<1>4. WorkAgrees' /\ Progress'
  BY <1>2, <1>3 DEF RecordInv, WorkAgrees, Progress, Cleaning, Mounting, Unneeded
<1>5. ItemAgrees'
  <2>1. Cleaning /\ ~Mounting' /\ Dep' = Dep /\ Volume' = Volume
    BY <1>2 DEF Cleaning, Mounting, Dep, Volume
  <2>2. /\ acc \subseteq item.conts /\ left \subseteq item.conts /\ cont \in item.conts
        /\ err = "none" => item.conts \subseteq acc \cup left \cup {cont}
        /\ acc # {} \/ bad = "none" => dep[Dep].vols[Volume] = None
    BY <1>2, <2>1, VolumeNoneAssumption DEF RecordInv, ItemAgrees
  <2>3. acc' \subseteq item.conts /\ (acc' # {} => dep[Dep].vols[Volume] = None)
    BY <1>2, <2>2
  <2>4. err' = "none" => item.conts \subseteq acc' \cup left \cup {None}
    BY <1>2, <1>3, <2>2
  <2> QED BY <1>2, <2>1, <2>2, <2>3, <2>4 DEF ItemAgrees
<1> QED BY <1>4, <1>5

\* The clean-up.
LEMMA CleansRecords ==
    ASSUME Types, EditInv, MountInv, RecordInv, Cleans
    PROVE  RecordInv'
<1> USE CleansFrame
<1>1. RecordsFit'
  BY DEF RecordInv, RecordsFit
<1>2. WorkAgrees' /\ ItemAgrees' /\ Progress'
  <2>1. CASE ListAnnotated
    <3>1. item' = None
      BY <2>1 DEF ListAnnotated, Types, ItemInLoop
    <3> QED BY <2>1, <3>1, ListedRecords DEF ItemAgrees
  <2>2. CASE FinishRemoval
    <3>1. /\ item' = None /\ work = {} /\ work' = {} /\ pc = "remove" /\ err = "none" /\ err' = "none"
          /\ UNCHANGED <<dep, cur, goal, finalizing>> /\ pc' \in {"release", "deploy"}
          /\ pc' = "deploy" => todo' = goal
      BY <2>2 DEF FinishRemoval, depVars, reqVars
    <3> QED BY <3>1 DEF RecordInv, WorkAgrees, ItemAgrees, Progress, Cleaning, Mounting, Unneeded
  <2>3. CASE AbortRemoval /\ ~finalizing
    <3>1. item' = None /\ work' = {} /\ err' # "none" /\ pc' = "status"
      BY <2>3 DEF AbortRemoval, resultVars
    <3> QED BY <3>1 DEF WorkAgrees, ItemAgrees, Progress, Cleaning, Mounting
  <2> QED BY <2>1, <2>2, <2>3, UnmountRecords, DropRecords DEF Cleans
<1>3. PoliciesAgree'
  <2>1. /\ pc \in {"list", "remove", "drop"} /\ pc' \in {"remove", "drop", "release", "deploy", "status"}
        /\ (finalizing => pc' \in {"remove", "drop", "release"}) /\ (pc' = "release" => finalizing)
    BY DEF Cleans, ListAnnotated, FinishRemoval, AbortRemoval, UnmountAndUpdate, UnmountFails, Unmount,
       NoSecretLeft, DeleteSecret, DeleteSecretFails, EndContainer
  <2> QED BY <2>1 DEF RecordInv, PoliciesAgree, Held, Exists
<1>4. MountsKnown'
  <2>1. ~Mounting \/ item = None
    BY DEF Cleans, ListAnnotated, FinishRemoval, AbortRemoval, UnmountAndUpdate, UnmountFails, Unmount,
       NoSecretLeft, DeleteSecret, DeleteSecretFails, EndContainer, Mounting
  <2> QED BY <2>1 DEF RecordInv, MountsKnown, Records
<1> QED BY <1>1, <1>2, <1>3, <1>4 DEF RecordInv

\* What the worker does to Deployments and policies while it mounts.
LEMMA MountsFrame ==
    ASSUME Types, EditInv, MountInv, Mounts
    PROVE  /\ UNCHANGED <<policy, cur, goal, finalizing, lost, err>>
           /\ \A d \in Deps : dep'[d].ann = dep[d].ann
           /\ pc = "deploy" => dep' = dep
           /\ Mounting /\ (Mounting' \/ FinishDeploy)
<1>1. UNCHANGED <<policy, cur, goal, finalizing, lost, err>>
  BY DEF Mounts, MatchTrap, FinishDeploy, CreateSecret, SecretExists, CreateSecretFails,
     FailContainer, MountAndUpdate, MountConflict, MountFails, EndMount, reqVars, resultVars, history
<1>2. dep' = dep \/ (MountAndUpdate /\ Filled)
  BY MountEffect DEF Mounts, MatchTrap, FinishDeploy, CreateSecret, SecretExists, CreateSecretFails,
     FailContainer, MountConflict, MountFails, depVars, MountInv
<1>3. Mounting /\ (Mounting' \/ FinishDeploy) /\ (MountAndUpdate => pc = "mount")
  BY DEF Mounts, MatchTrap, FinishDeploy, CreateSecret, SecretExists, CreateSecretFails,
     FailContainer, MountAndUpdate, MountConflict, MountFails, EndMount, Mounting
<1> QED BY <1>1, <1>2, <1>3 DEF Filled

\* A container after the other.
LEMMA MountItem ==
    ASSUME Types, EditInv, MountInv, RecordInv, Mounts
    PROVE  WorkAgrees' /\ ItemAgrees' /\ todo' \subseteq todo
<1> USE MountsFrame
<1>1. \A w \in work : w.dep \in Deps
  BY DEF Types, TypeOK, WorkItem
<1>2. ASSUME UNCHANGED work PROVE WorkAgrees'
  BY <1>1, <1>2 DEF RecordInv, WorkAgrees, Cleaning, Mounting, FinishDeploy
<1>3. ASSUME NEW t \in Traps, MatchTrap(t) PROVE WorkAgrees' /\ ItemAgrees' /\ todo' \subseteq todo
  <2>1. /\ item = None /\ UNCHANGED <<item, dep>> /\ pc' = "deploy" /\ pc = "deploy" /\ todo' = todo \ {t}
        /\ t \in todo /\ \A d \in Deps : cdep[d] = dep[d]
    BY <1>3 DEF MatchTrap, depVars, Types, TypeOK, EditInv, CacheIsCurrent
  <2>2. \A w \in work' : /\ w \in WorkItem /\ w.trap = t /\ w.conts = SelectedBy[t]
                         /\ w.already = cdep[w.dep].ann[cur][t]
    BY <1>3 DEF MatchTrap
  <2>3. \A w \in work' : w.dep \in Deps
    BY <2>2 DEF WorkItem
  <2>4. t \in goal
    BY <2>1 DEF RecordInv, Progress, Mounting
  <2> QED BY <2>1, <2>2, <2>3, <2>4 DEF WorkAgrees, ItemAgrees, Cleaning, Mounting
<1>4. CASE FinishDeploy
  <2>1. work = {} /\ UNCHANGED <<work, item, todo>> /\ item = None
    BY <1>4 DEF FinishDeploy, itemVars, resultVars, Types, TypeOK
  <2> QED BY <2>1 DEF WorkAgrees, ItemAgrees
<1>5. ASSUME NEW c \in Containers, CreateSecret(c) \/ SecretExists(c) \/ CreateSecretFails(c)
      PROVE  WorkAgrees' /\ ItemAgrees' /\ todo' \subseteq todo
  <2>1. /\ item # None /\ pc = "deploy" /\ pc' \in {"deploy", "mount"} /\ c \in left
        /\ UNCHANGED <<work, item, acc, todo>> /\ left' = left \ {c} /\ cont' \in {None, c}
    BY <1>5 DEF CreateSecret, SecretExists, CreateSecretFails, FailContainer, Take, resultVars
  <2> QED BY <1>2, <2>1 DEF RecordInv, ItemAgrees, Cleaning, Mounting
<1>6. CASE MountAndUpdate \/ MountConflict \/ MountFails
  <2>1. /\ item # None /\ pc = "mount" /\ pc' = "deploy" /\ cont # None /\ cont' = None
        /\ UNCHANGED <<work, item, left, todo>> /\ acc' \in {acc, acc \cup {cont}}
    BY <1>6 DEF MountAndUpdate, MountConflict, MountFails, EndMount, Types, TypeOK
  <2> QED BY <1>2, <2>1 DEF RecordInv, ItemAgrees, Cleaning, Mounting
<1> QED BY <1>3, <1>4, <1>5, <1>6 DEF Mounts

\* The deployment.
LEMMA MountsRecords ==
    ASSUME Types, EditInv, MountInv, RecordInv, Mounts
    PROVE  RecordInv'
<1> USE MountsFrame
<1>1. RecordsFit'
  BY DEF RecordInv, RecordsFit
<1>2. Progress'
  BY MountItem DEF RecordInv, Progress, Mounting, Cleaning, FinishDeploy, Unneeded
<1>3. PoliciesAgree'
  BY DEF RecordInv, PoliciesAgree, Mounting, FinishDeploy, Held, Exists
<1>4. MountsKnown'
  <2>1. CASE MountAndUpdate
    <3>1. /\ item # None /\ item' = item /\ acc' = acc \cup {cont} /\ Filled /\ Mounting /\ Mounting'
          /\ Dep' = Dep /\ Volume' = Volume
      BY <2>1, MountEffect DEF MountAndUpdate, EndMount, Types, TypeOK, Mounting, MountInv, Dep, Volume
    <3>2. ASSUME NEW d \in Deps \ lost, NEW c \in Containers, NEW x \in dep'[d].mounts[c]
          PROVE  \/ x \in dep[d].mounts[c]
                 \/ d = Dep /\ x = Volume /\ c \in acc'
      BY <3>1 DEF Filled
    <3> QED BY <3>1, <3>2 DEF RecordInv, MountsKnown, Records
  <2>2. CASE ~MountAndUpdate
    <3>1. UNCHANGED <<dep, item>>
      BY <2>2 DEF Mounts, MatchTrap, FinishDeploy, CreateSecret, SecretExists, CreateSecretFails,
         FailContainer, MountConflict, MountFails, EndMount, depVars, itemVars
    <3>2. item # None => acc' = acc /\ Mounting'
      BY <2>2 DEF Mounts, MatchTrap, FinishDeploy, CreateSecret, SecretExists, CreateSecretFails,
         FailContainer, MountConflict, MountFails, EndMount, Mounting, Types, TypeOK
    <3> QED BY <3>1, <3>2 DEF RecordInv, MountsKnown, Records, Dep, Volume
  <2> QED BY <2>1, <2>2
<1> QED BY <1>1, <1>2, <1>3, <1>4, MountItem DEF RecordInv

\* What is recorded for an item that is done.
LEMMA RecordedParts ==
    ASSUME Types, RecordInv, item # None, pc \in {"remove", "deploy"}, NEW p \in Policies, NEW t \in Traps
    PROVE  Recorded(dep[Dep].ann)[p][t] =
              IF p = cur /\ t = item.trap
              THEN IF pc = "deploy" THEN acc ELSE item.conts \ acc
              ELSE dep[Dep].ann[p][t]
<1> DEFINE a == dep[Dep].ann
<1>1. /\ a \in Annotation /\ cur \in Policies /\ item.trap \in Traps /\ item \in work
  BY ItemType DEF Types, TypeOK, DeploymentObject
<1>2. pc = "remove" => item.conts = a[cur][item.trap] /\ item.conts # {}
  BY <1>1 DEF RecordInv, WorkAgrees, Cleaning, Dep
<1> HIDE DEF a
<1>3. Recorded(a)[p][t] = IF p = cur /\ t = item.trap
                          THEN IF pc = "deploy" THEN acc ELSE item.conts \ acc ELSE a[p][t]
  <2>1. CASE pc = "deploy"
    BY <1>1, <2>1 DEF Recorded, AddTrap, Annotation
  <2>2. CASE pc = "remove" /\ acc = item.conts
    BY <1>1, <1>2, <2>2 DEF Recorded, RemoveTrap, Annotation
  <2>3. CASE pc = "remove" /\ acc # item.conts
    <3>1. IsAnnotated(a, cur)
      BY <1>1, <1>2, <2>3 DEF IsAnnotated
    <3> QED BY <1>1, <2>3, <3>1 DEF Recorded, UpdateContainers, Annotation
  <2> QED BY <2>1, <2>2, <2>3
<1> QED BY <1>3 DEF a

\* The record of an item.
LEMMA AnnotateRecords ==
    ASSUME Types, EditInv, MountInv, RecordInv, Annotate
    PROVE  RecordInv'
<1>1. /\ item # None /\ cont = None /\ left = {} /\ pc \in {"remove", "deploy"} /\ item' = None /\ pc' = pc
      /\ work' = work \ {item} /\ UNCHANGED <<policy, cur, goal, finalizing, err, lost, todo>>
  BY DEF Annotate, EndItem, ForgetItem, reqVars, Types, TypeOK, ItemInLoop
<1>2. Noted
  BY AnnotateEffect
<1>3. /\ item \in work /\ Dep \in Deps /\ item.trap \in Traps /\ Volume \in Paths /\ cur \in Policies
      /\ acc \subseteq item.conts /\ item.conts \subseteq Containers /\ None \notin Containers
      /\ work \subseteq WorkItem
  BY <1>1, ItemType, VolumeNoneAssumption DEF RecordInv, ItemAgrees, Types, TypeOK
<1> DEFINE new == IF pc = "deploy" THEN acc ELSE item.conts \ acc
<1>4. \A p \in Policies, d \in Deps, t \in Traps :
         dep'[d].ann[p][t] = IF d = Dep /\ p = cur /\ t = item.trap THEN new ELSE dep[d].ann[p][t]
  <2>1. \A d \in Deps : dep'[d].ann = IF d = Dep THEN Recorded(dep[d].ann) ELSE dep[d].ann
    BY <1>2 DEF Noted
  <2> HIDE DEF new
  <2>2. \A p \in Policies, t \in Traps : Recorded(dep[Dep].ann)[p][t] =
           IF p = cur /\ t = item.trap THEN new ELSE dep[Dep].ann[p][t]
    BY <1>1, RecordedParts DEF new
  <2> QED BY <2>1, <2>2
<1>5. /\ item.conts \subseteq SelectedBy[item.trap]
      /\ pc = "remove" => item.conts = dep[Dep].ann[cur][item.trap] /\ Unneeded(item.trap)
      /\ pc = "deploy" => dep[Dep].ann[cur][item.trap] \subseteq acc /\ item.trap \in goal
      /\ pc = "remove" /\ acc # {} => dep[Dep].vols[Volume] = None
      /\ pc = "remove" /\ err = "none" => item.conts = acc
  <2>1. /\ pc = "remove" => item.conts = dep[Dep].ann[cur][item.trap] /\ Unneeded(item.trap)
        /\ pc = "deploy" => /\ item.conts = SelectedBy[item.trap] /\ item.trap \in goal
                            /\ item.already = dep[Dep].ann[cur][item.trap]
    BY <1>3 DEF RecordInv, WorkAgrees, Cleaning, Mounting, Dep
  <2>2. /\ pc = "deploy" => item.already \subseteq acc
        /\ pc = "remove" /\ acc # {} => dep[Dep].vols[Volume] = None
        /\ pc = "remove" /\ err = "none" => item.conts \subseteq acc \cup left \cup {cont}
    BY <1>1 DEF RecordInv, ItemAgrees, Cleaning, Mounting
  <2>3. item.conts \subseteq SelectedBy[item.trap]
    BY <1>1, <1>3, <2>1 DEF RecordInv, RecordsFit
  <2> QED BY <1>1, <1>3, <2>1, <2>2, <2>3
<1>6. \A w \in work' : /\ w \in work /\ w.dep \in Deps /\ w.trap \in Traps
                       /\ ~(w.dep = Dep /\ w.trap = item.trap)
  <2>1. ASSUME NEW w \in work, w.dep = Dep, w.trap = item.trap PROVE w = item
    <3>1. w.conts = item.conts /\ w.already = item.already
      BY <1>1, <1>3, <2>1 DEF RecordInv, WorkAgrees, Cleaning, Mounting, Dep
    <3> QED BY <1>3, <2>1, <3>1 DEF WorkItem, Dep
  <2> QED BY <1>1, <1>3, <2>1 DEF WorkItem
<1> HIDE DEF new
<1>7. RecordsFit'
  <2>1. new \subseteq SelectedBy[item.trap]
    BY <1>3, <1>5 DEF new
  <2> QED BY <1>4, <2>1 DEF RecordInv, RecordsFit
<1>8. WorkAgrees' /\ ItemAgrees'
  <2>1. \A w \in work' : dep'[w.dep].ann[cur][w.trap] = dep[w.dep].ann[cur][w.trap]
    BY <1>3, <1>4, <1>6
  <2> QED BY <1>1, <1>6, <2>1 DEF RecordInv, WorkAgrees, ItemAgrees, Cleaning, Mounting, Unneeded
<1>9. PoliciesAgree'
  <2>1. Held(cur)
    BY <1>1 DEF RecordInv, PoliciesAgree
  <2> QED BY <1>1, <1>3, <1>4, <2>1 DEF RecordInv, PoliciesAgree, Held, Exists
<1>10. Progress'
  <2>1. CASE pc = "deploy"
    <3>1. ~Unneeded(item.trap)
      BY <1>5, <2>1 DEF RecordInv, PoliciesAgree, Unneeded
    <3> QED BY <1>1, <1>3, <1>4, <2>1, <3>1 DEF RecordInv, Progress, Cleaning, Mounting, Unneeded
  <2>2. CASE pc = "remove" /\ err = "none"
    <3>1. new = {}
      BY <1>5, <2>2 DEF new
    <3>2. ASSUME NEW d \in Deps, NEW t \in Traps, Unneeded(t), dep'[d].ann[cur][t] # {}
          PROVE  \E w \in work' : w.dep = d /\ w.trap = t
      <4>1. dep[d].ann[cur][t] # {} /\ ~(d = Dep /\ t = item.trap)
        BY <1>3, <1>4, <3>1, <3>2
      <4>2. PICK w \in work : w.dep = d /\ w.trap = t
        BY <2>2, <3>2, <4>1 DEF RecordInv, Progress, Cleaning
      <4> QED BY <1>1, <4>1, <4>2 DEF Dep
    <3> QED BY <1>1, <2>2, <3>2 DEF Progress, Cleaning, Mounting, Unneeded
  <2>3. CASE pc = "remove" /\ err # "none"
    BY <1>1, <2>3 DEF Progress, Cleaning, Mounting
  <2> QED BY <1>1, <2>1, <2>2, <2>3
<1>11. MountsKnown'
  <2>1. ASSUME NEW d \in Deps \ lost, NEW c \in Containers, NEW x \in dep[d].mounts[c]
        PROVE  \E p \in Policies, t \in Traps : PathOf[t] = x /\ c \in dep'[d].ann[p][t]
    <3>1. CASE Mounting /\ d = Dep /\ x = Volume /\ c \in acc
      <4>1. pc = "deploy" /\ c \in new
        BY <1>1, <3>1 DEF Mounting, new
      <4> QED BY <1>3, <1>4, <3>1, <4>1 DEF Volume
    <3>2. CASE ~(Mounting /\ d = Dep /\ x = Volume /\ c \in acc)
      <4>1. PICK p \in Policies, t \in Traps : PathOf[t] = x /\ c \in dep[d].ann[p][t]
        BY <2>1, <3>2 DEF RecordInv, MountsKnown, Records
      <4>2. CASE ~(d = Dep /\ p = cur /\ t = item.trap)
        BY <1>4, <4>1, <4>2
      <4>3. CASE d = Dep /\ p = cur /\ t = item.trap
        <5>1. CASE pc = "deploy"
          BY <1>4, <1>5, <4>1, <4>3, <5>1 DEF new
        <5>2. CASE pc = "remove"
          <6>1. x = Volume /\ x \in Paths /\ dep[d].vols[x] # None
            BY <1>3, <2>1, <4>1, <4>3 DEF Volume, MountInv, VolumesHaveMounts
          <6>2. acc = {}
            BY <1>5, <4>3, <5>2, <6>1
          <6> QED BY <1>4, <1>5, <4>1, <4>3, <5>2, <6>2 DEF new
        <5> QED BY <1>1, <5>1, <5>2
      <4> QED BY <4>2, <4>3
    <3> QED BY <3>1, <3>2
  <2>2. \A d \in Deps : dep'[d].mounts = dep[d].mounts
    BY <1>2 DEF Noted
  <2> QED BY <1>1, <2>1, <2>2 DEF MountsKnown, Records
<1> QED BY <1>7, <1>8, <1>9, <1>10, <1>11 DEF RecordInv

\* The other steps of the loops, and the beginning of a request.
LEMMA LoopRecords ==
    ASSUME Types, EditInv, MountInv, RecordInv,
           SkipRecord \/ AnnotateFails \/ \E w \in work : StartItem(w)
    PROVE  RecordInv'
<1>1. /\ UNCHANGED <<policy, dep, cur, goal, finalizing, pc, todo>> /\ work' \subseteq work
      /\ lost \subseteq lost' /\ (err' = "none" => err = "none") /\ (pc = "deploy" => err' = err)
      /\ pc \in {"remove", "deploy"}
  <2>1. CASE SkipRecord
    BY <2>1 DEF SkipRecord, EndItem, reqVars, depVars
  <2>2. CASE AnnotateFails
    BY <2>2 DEF AnnotateFails, EndItem, reqVars, depVars, JoinErr, Unrecorded, Types, TypeOK, ItemInLoop
  <2>3. CASE \E w \in work : StartItem(w)
    BY <2>3 DEF StartItem, reqVars, resultVars, depVars, history
  <2> QED BY <2>1, <2>2, <2>3
<1>2. RecordsFit' /\ PoliciesAgree'
  BY <1>1 DEF RecordInv, RecordsFit, PoliciesAgree, Held, Exists
<1>3. \A w \in work : w.dep \in Deps
  BY DEF Types, TypeOK, WorkItem
<1>4. WorkAgrees'
  BY <1>1, <1>3 DEF RecordInv, WorkAgrees, Cleaning, Mounting, Unneeded
<1>5. (pc = "remove" /\ err' = "none") => work' = work
  BY DEF SkipRecord, AnnotateFails, StartItem, JoinErr
<1>6. Progress'
  BY <1>1, <1>5 DEF RecordInv, Progress, Cleaning, Mounting, Unneeded
<1>7. ASSUME NEW w \in work, StartItem(w) PROVE ItemAgrees' /\ MountsKnown'
  <2>1. /\ item = None /\ item' = w /\ left' = w.conts \ w.already /\ acc' = w.conts \cap w.already
        /\ cont' = None /\ lost' = lost
    BY <1>7 DEF StartItem, history, Types, TypeOK
  <2>2. /\ pc = "remove" => w.already = {}
        /\ pc = "deploy" => w.already \subseteq w.conts
    <3>1. w.dep \in Deps /\ w.trap \in Traps
      BY DEF Types, TypeOK, WorkItem
    <3>2. pc = "deploy" => cur \in Policies
      BY DEF Types, TypeOK
    <3> QED BY <3>1, <3>2 DEF RecordInv, WorkAgrees, RecordsFit, Cleaning, Mounting
  <2>3. ItemAgrees'
    BY <1>1, <2>1, <2>2 DEF ItemAgrees, Cleaning, Mounting
  <2> QED BY <1>1, <2>1, <2>3 DEF RecordInv, MountsKnown, Records
<1>8. CASE SkipRecord \/ AnnotateFails
  <2>1. /\ item' = None /\ (Mounting /\ acc # {} => Dep \in lost') /\ item # None
    BY <1>8 DEF SkipRecord, AnnotateFails, EndItem, ForgetItem, Unrecorded, Mounting
  <2>2. MountsKnown'
    BY <1>1, <2>1 DEF RecordInv, MountsKnown, Records
  <2> QED BY <1>2, <1>4, <1>6, <2>1, <2>2 DEF RecordInv, ItemAgrees
<1> QED BY <1>2, <1>4, <1>6, <1>7, <1>8 DEF RecordInv

\* A request begins.
LEMMA FetchRecords ==
    ASSUME Types, RecordInv, NEW p \in Policies, Fetch(p)
    PROVE  RecordInv'
<1>1. /\ pc = "idle" /\ item' = None /\ UNCHANGED <<policy, dep, lost>> /\ finalizing = FALSE
      /\ pc' \in {"idle", "adopt", "list"}
      /\ (pc' = "list" => Exists(p) /\ policy[p].fin /\ cur' = p)
      /\ (finalizing' => Exists(p) /\ policy[p].phase = "deleting" /\ cur' = p)
      /\ (pc' = "adopt" => ~policy[p].fin) /\ (pc' = "idle" => finalizing' = FALSE) /\ item = None
  BY DEF Fetch, Exists, depVars, reqVars, itemVars, history, Types, TypeOK, ItemInLoop, RecordInv, PoliciesAgree
<1>2. policy[p].phase = "deleting" => policy[p].fin
  BY DEF RecordInv, PoliciesAgree
<1>3. PoliciesAgree'
  BY <1>1, <1>2 DEF RecordInv, PoliciesAgree, Held, Exists
<1> QED BY <1>1, <1>3 DEF RecordInv, RecordsFit, WorkAgrees, ItemAgrees, Progress, MountsKnown, Records,
           Cleaning, Mounting

\* Every step keeps records and work right.
LEMMA RecordStep == Types /\ EditInv /\ MountInv /\ RecordInv /\ [Next]_vars => RecordInv'
BY StepKinds, OutsideRecords, EndingRecords, CleansRecords, MountsRecords, AnnotateRecords, LoopRecords,
   FetchRecords DEF Loops

\* Nothing is mounted or recorded at first.
LEMMA InitRecords == Init => MountInv /\ RecordInv
<1> SUFFICES ASSUME Init PROVE MountInv /\ RecordInv
  OBVIOUS
<1>1. \A d \in Deps : /\ dep[d].vols = [x \in Paths |-> None] /\ dep[d].mounts = [c \in Containers |-> {}]
                      /\ dep[d].ann = NoAnnotation
  BY DEF Init, NewDeployment
<1>2. \A p \in Policies, d \in Deps, t \in Traps : dep[d].ann[p][t] = {}
  BY <1>1 DEF NoAnnotation
<1>3. /\ pc = "idle" /\ item = None /\ work = {} /\ finalizing = FALSE
      /\ \A p \in Policies : policy[p].phase = "unborn"
  BY DEF Init
<1> QED BY <1>1, <1>2, <1>3 DEF MountInv, VolumesHaveMounts, CopiesMatch, RecordInv, RecordsFit, WorkAgrees,
           ItemAgrees, PoliciesAgree, Progress, MountsKnown, Cleaning, Mounting

\* No mount is forgotten: at rest a volume has mounts, and each mount is in the record
\* of a policy that still exists and still has the finalizer, whatever has failed in
\* between, except where the controller stopped or the API server refused a write just
\* between mounting and recording (DeployDecoy, RemoveDecoy).
THEOREM MountsAreRecorded == Spec => []MountedIsRecorded
<1>1. Types /\ MountInv /\ RecordInv => MountedIsRecorded
  <2> SUFFICES ASSUME Types, MountInv, RecordInv, \A p \in Policies : ~Pending(p)
               PROVE  \A d \in Deps \ lost, x \in Paths :
                         /\ dep[d].vols[x] # None => \E c \in Containers : x \in dep[d].mounts[c]
                         /\ \A c \in Containers : x \in dep[d].mounts[c] =>
                               \E p \in Policies, t \in Traps :
                                  Exists(p) /\ PathOf[t] = x /\ Records(p, d, c, t)
    BY DEF MountedIsRecorded
  <2>1. ~Mounting
    BY DEF Pending, Types, TypeOK, Mounting
  <2>2. \A p \in Policies, d \in Deps, c \in Containers, t \in Traps : Records(p, d, c, t) => Exists(p)
    BY DEF RecordInv, PoliciesAgree, Held, Records
  <2> QED BY <2>1, <2>2 DEF MountInv, VolumesHaveMounts, RecordInv, MountsKnown
<1>2. Init => EditInv
  BY DEF Init, EditInv, CacheIsCurrent, CopiesAreCurrent
<1> QED BY <1>1, <1>2, InitTypes, StepTypes, StepKeeps, InitRecords, MountStep, RecordStep, PTL DEF Spec
-----------------------------------------------------------------------------
(* Traps of one path.  RecordedIsMounted and VolumesAreBacked hold if no    *)
(* path has two decoys at a time, and if a decoy that has been taken out of *)
(* a policy stays out.                                                      *)

TrapsIn(p) == UNION {PlanOf[p][i] : i \in 1..Len(PlanOf[p])}
OwnPaths ==
    /\ \A p, q \in Policies : \A t \in TrapsIn(p), u \in TrapsIn(q) : PathOf[t] = PathOf[u] => p = q
    /\ \A p \in Policies : \A i \in 1..Len(PlanOf[p]) : \A t, u \in PlanOf[p][i] :
          PathOf[t] = PathOf[u] => t = u
NothingReturns ==
    \A p \in Policies : \A i, j, k \in 1..Len(PlanOf[p]) :
       i < j /\ j < k => PlanOf[p][i] \cap PlanOf[p][k] \subseteq PlanOf[p][j]

IsRecorded(p, d, t) == dep[d].ann[p][t] # {}

\* Records come from the plan, those of a policy in progress not from a later one.
RecordsPlanned ==
    \A p \in Policies, d \in Deps, t \in Traps :
       IsRecorded(p, d, t) => \E k \in 1..policy[p].plan : t \in PlanOf[p][k]
GoalPlanned ==
    pc # "idle" => \E i \in 1..policy[cur].plan :
       /\ goal = PlanOf[cur][i]
       /\ \A d \in Deps, t \in Traps :
             IsRecorded(cur, d, t) => \E k \in 1..i : t \in PlanOf[cur][k]

\* A policy never has records of two decoys with one path.
NeverTwice ==
    \A p \in Policies, d, e \in Deps, t, u \in Traps :
       IsRecorded(p, d, t) /\ IsRecorded(p, e, u) /\ PathOf[t] = PathOf[u] => t = u

PlanInv == RecordsPlanned /\ GoalPlanned /\ NeverTwice
Base == Types /\ EditInv /\ MountInv /\ RecordInv

\* A request begins, ends or goes on.
LEMMA RequestSteps ==
    ASSUME Base, [Next]_vars
    PROVE  \/ pc' = "idle"
           \/ \E p \in Policies : Fetch(p)
           \/ pc # "idle" /\ UNCHANGED <<cur, goal, finalizing>>
<1> USE DEF Base
<1>1. CASE Outside
  BY <1>1, OutsideSteps DEF reqVars
<1>2. CASE Cleans
  <2>1. pc # "idle"
    BY <1>2 DEF Cleans, ListAnnotated, FinishRemoval, AbortRemoval, UnmountAndUpdate, UnmountFails, Unmount,
       NoSecretLeft, DeleteSecret, DeleteSecretFails, EndContainer
  <2> QED BY <1>2, <2>1, CleansFrame
<1>3. CASE Mounts
  BY <1>3, MountsFrame DEF Mounting
<1>4. CASE Loops
  BY <1>4 DEF Loops, StartItem, SkipRecord, Annotate, AnnotateFails, EndItem, reqVars, Types, ItemInLoop
<1> QED BY <1>1, <1>2, <1>3, <1>4, EndingSteps, StepKinds

\* Only Annotate makes a record.
LEMMA RecordsGrow ==
    ASSUME Base, [Next]_vars, NEW p \in Policies, NEW d \in Deps, NEW t \in Traps, IsRecorded(p, d, t)'
    PROVE  \/ IsRecorded(p, d, t)
           \/ Annotate /\ pc = "deploy" /\ item # None /\ p = cur /\ t = item.trap /\ d = Dep
<1> USE DEF Base
<1>1. CASE Annotate /\ Noted
  <2>1. item # None /\ pc \in {"remove", "deploy"}
    BY <1>1 DEF Annotate, EndItem, Types, TypeOK, ItemInLoop
  <2>2. dep'[d].ann[p][t] = IF d = Dep THEN Recorded(dep[d].ann)[p][t] ELSE dep[d].ann[p][t]
    BY <1>1 DEF Noted
  <2>3. CASE d = Dep /\ p = cur /\ t = item.trap /\ pc = "remove"
    BY <2>1, <2>3, ItemType DEF RecordInv, WorkAgrees, Cleaning, IsRecorded, Dep
  <2> QED BY <1>1, <2>1, <2>2, <2>3, RecordedParts DEF IsRecorded
<1>2. CASE \A x \in Deps : dep'[x].ann = dep[x].ann
  BY <1>2 DEF IsRecorded
<1>3. (\A x \in Deps : dep'[x].ann = dep[x].ann) \/ (Annotate /\ Noted)
  BY DeploymentSteps DEF MountInv, Stays, UnmountSucceeds, Emptied, Filled
<1> QED BY <1>1, <1>2, <1>3

\* Edits go on in the plan.
LEMMA PlansGrow ==
    ASSUME Base, [Next]_vars, NEW p \in Policies
    PROVE  policy'[p].plan \in Nat /\ policy[p].plan \in Nat /\ policy'[p].plan >= policy[p].plan
<1> USE DEF Base, Types, TypeOK, PolicyObject
<1>1. policy[p] \in PolicyObject /\ policy[p].plan \in Nat
  OBVIOUS
<1>2. UNCHANGED policy \/ (\E q \in Policies : CreatePolicy(q) \/ EditPolicy(q) \/ DeletePolicy(q))
         \/ PutFinalizer \/ ReleasePolicy \/ UpdateStatus
  <2>1. CASE Outside
    BY <2>1 DEF Outside, UserStep, LabelDeployment, EditDeployment, BecomeAvailable, BecomeUnavailable,
       DeploymentStep, SyncDeployment, SyncSecret, FireTimer, vars
  <2>2. CASE Ending
    BY <2>2 DEF Ending, Crash, AbortRemoval
  <2>3. CASE Loops \/ \E q \in Policies : Fetch(q)
    BY <2>3 DEF Loops, StartItem, SkipRecord, Annotate, AnnotateFails, EndItem, Fetch
  <2> QED BY <2>1, <2>2, <2>3, CleansFrame, MountsFrame, StepKinds
<1>3. ASSUME NEW q \in Policies, EditPolicy(q) PROVE policy'[p].plan \in {policy[p].plan, policy[p].plan + 1}
  BY <1>1, <1>3 DEF EditPolicy
<1>4. ASSUME NEW q \in Policies, CreatePolicy(q) \/ DeletePolicy(q) PROVE policy'[p].plan = policy[p].plan
  BY <1>1, <1>4 DEF CreatePolicy, DeletePolicy
<1>5. ASSUME PutFinalizer PROVE policy'[p].plan = policy[p].plan
  <2>1. policy' = policy \/ policy' = [policy EXCEPT ![cur] = [policy[cur] EXCEPT !.fin = TRUE]]
    BY <1>5 DEF PutFinalizer
  <2>2. [policy[p] EXCEPT !.fin = TRUE].plan = policy[p].plan
    BY <1>1
  <2>3. policy'[p] = policy[p] \/ policy'[p] = [policy[p] EXCEPT !.fin = TRUE]
    BY <2>1
  <2> QED BY <2>2, <2>3
<1>6. ASSUME ReleasePolicy PROVE policy'[p].plan = policy[p].plan
  BY <1>6 DEF ReleasePolicy
<1>7. ASSUME UpdateStatus PROVE policy'[p].plan = policy[p].plan
  <2>1. \/ policy' = policy
        \/ policy' = [policy EXCEPT ![cur] = [policy[cur] EXCEPT !.status = DecoysReason]]
    BY <1>7 DEF UpdateStatus
  <2>2. [policy[p] EXCEPT !.status = DecoysReason].plan = policy[p].plan
    BY <1>1
  <2>3. policy'[p] = policy[p] \/ policy'[p] = [policy[p] EXCEPT !.status = DecoysReason]
    BY <2>1
  <2> QED BY <2>2, <2>3
<1>8. CASE UNCHANGED policy
  BY <1>1, <1>8
<1> QED BY <1>1, <1>2, <1>3, <1>4, <1>5, <1>6, <1>7, <1>8

\* What has been recorded was in the plan.
LEMMA RecordsPlannedStep ==
    ASSUME Base, PlanInv, [Next]_vars
    PROVE  RecordsPlanned' /\ GoalPlanned'
<1> USE DEF Base
<1>1. pc # "idle" => cur \in Policies
  BY DEF Types, TypeOK
<1>2. pc # "idle" =>
         \E i \in 1..policy[cur].plan :
            /\ goal = PlanOf[cur][i]
            /\ \A d \in Deps, t \in Traps :
                  dep'[d].ann[cur][t] # {} => \E k \in 1..i : t \in PlanOf[cur][k]
  <2> SUFFICES ASSUME pc # "idle"
               PROVE  \E i \in 1..policy[cur].plan :
                         /\ goal = PlanOf[cur][i]
                         /\ \A d \in Deps, t \in Traps :
                               dep'[d].ann[cur][t] # {} => \E k \in 1..i : t \in PlanOf[cur][k]
    OBVIOUS
  <2>1. PICK i \in 1..policy[cur].plan :
           /\ goal = PlanOf[cur][i]
           /\ \A d \in Deps, t \in Traps : IsRecorded(cur, d, t) => \E k \in 1..i : t \in PlanOf[cur][k]
    BY DEF PlanInv, GoalPlanned
  <2>2. policy[cur].plan \in Nat
    BY <1>1, PlansGrow
  <2>3. ASSUME NEW d \in Deps, NEW t \in Traps, NEW q, q = cur, IsRecorded(q, d, t)'
        PROVE  \E k \in 1..i : t \in PlanOf[cur][k]
    <3>1. CASE IsRecorded(cur, d, t)
      BY <2>1, <3>1
    <3>2. CASE pc = "deploy" /\ item # None /\ t = item.trap
      <4>1. t \in goal
        BY <3>2, ItemType DEF RecordInv, WorkAgrees, Mounting
      <4> QED BY <2>1, <2>2, <4>1
    <3> QED BY <1>1, <2>3, <3>1, <3>2, RecordsGrow
  <2> QED BY <2>1, <2>3 DEF IsRecorded
<1>3. RecordsPlanned'
  <2> SUFFICES ASSUME NEW p \in Policies, NEW d \in Deps, NEW t \in Traps, IsRecorded(p, d, t)'
               PROVE  \E k \in 1..policy'[p].plan : t \in PlanOf[p][k]
    BY DEF RecordsPlanned
  <2>1. policy'[p].plan \in Nat /\ policy[p].plan \in Nat /\ policy'[p].plan >= policy[p].plan
    BY PlansGrow
  <2>2. CASE IsRecorded(p, d, t)
    BY <2>1, <2>2 DEF PlanInv, RecordsPlanned
  <2>3. CASE pc = "deploy" /\ p = cur
    BY <1>2, <2>1, <2>3 DEF IsRecorded
  <2> QED BY <2>2, <2>3, RecordsGrow
<1>4. GoalPlanned'
  <2>1. CASE pc' = "idle"
    BY <2>1 DEF GoalPlanned
  <2>2. CASE pc # "idle" /\ UNCHANGED <<cur, goal, finalizing>>
    <3>1. policy'[cur].plan \in Nat /\ policy[cur].plan \in Nat /\ policy'[cur].plan >= policy[cur].plan
      BY <1>1, <2>2, PlansGrow
    <3> QED BY <1>2, <2>2, <3>1 DEF GoalPlanned, IsRecorded
  <2>3. ASSUME NEW p \in Policies, Fetch(p), pc' # "idle" PROVE GoalPlanned'
    <3>1. cur' = p /\ goal' = PlanOf[p][policy[p].plan] /\ UNCHANGED <<policy, dep>>
      BY <2>3 DEF Fetch, TrapsOf, depVars
    <3>2. policy[p].plan \in 1..Len(PlanOf[p])
      BY DEF Types, InPlan
    <3> QED BY <1>3, <3>1, <3>2 DEF GoalPlanned, RecordsPlanned, IsRecorded
  <2> QED BY <2>1, <2>2, <2>3, RequestSteps
<1> QED BY <1>3, <1>4
\* A record with the path of the item in progress is a record of the item.
LEMMA OnePath ==
    ASSUME Base, PlanInv, OwnPaths, item # None,
           NEW p \in Policies, NEW d \in Deps, NEW t \in Traps, IsRecorded(p, d, t), PathOf[t] = Volume
    PROVE  p = cur /\ t = item.trap
<1> USE DEF Base
<1>1. /\ item \in work /\ Dep \in Deps /\ item.trap \in Traps /\ cur \in Policies /\ pc # "idle"
      /\ Cleaning \/ Mounting
  BY ItemType DEF Types, TypeOK, ItemInLoop, Cleaning, Mounting
<1>2. \A q \in Policies : Len(PlanOf[q]) \in Nat /\ policy[q].plan \in 1..Len(PlanOf[q])
  BY VolumePoliciesAssumption DEF Types, InPlan
<1>3. t \in TrapsIn(p)
  BY <1>2 DEF PlanInv, RecordsPlanned, TrapsIn
<1>4. PICK i \in 1..Len(PlanOf[cur]) : goal = PlanOf[cur][i]
  <2>1. PICK i \in 1..policy[cur].plan : goal = PlanOf[cur][i]
    BY <1>1 DEF PlanInv, GoalPlanned
  <2> QED BY <1>1, <1>2, <2>1
<1>5. CASE Cleaning
  <2>1. IsRecorded(cur, Dep, item.trap)
    BY <1>1, <1>5 DEF RecordInv, WorkAgrees, IsRecorded, Dep
  <2>2. item.trap \in TrapsIn(cur)
    BY <1>1, <1>2, <2>1 DEF PlanInv, RecordsPlanned, TrapsIn
  <2>3. p = cur
    BY <1>1, <1>3, <2>2 DEF OwnPaths, Volume
  <2> QED BY <1>1, <2>1, <2>3 DEF PlanInv, NeverTwice, Volume
<1>6. CASE Mounting
  <2>1. item.trap \in goal
    BY <1>1, <1>6 DEF RecordInv, WorkAgrees
  <2>2. p = cur
    BY <1>1, <1>3, <1>4, <2>1 DEF OwnPaths, TrapsIn, Volume
  <2>3. t \in goal
    BY <1>6, <2>2 DEF RecordInv, Progress, Unneeded, IsRecorded
  <2> QED BY <1>1, <1>4, <2>1, <2>2, <2>3 DEF OwnPaths, Volume
<1> QED BY <1>1, <1>5, <1>6

\* A decoy replaces another one of the same path only after the clean-up of that one.
LEMMA NeverTwiceStep ==
    ASSUME Base, PlanInv, OwnPaths, [Next]_vars
    PROVE  NeverTwice'
<1> SUFFICES ASSUME NEW p \in Policies, NEW d \in Deps, NEW e \in Deps, NEW t \in Traps, NEW u \in Traps,
                    IsRecorded(p, d, t)', IsRecorded(p, e, u)', PathOf[t] = PathOf[u]
             PROVE  t = u
  BY DEF NeverTwice
<1> DEFINE Made(x, v) == pc = "deploy" /\ item # None /\ p = cur /\ v = item.trap
<1>1. IsRecorded(p, d, t) \/ Made(d, t)
  BY RecordsGrow
<1>2. IsRecorded(p, e, u) \/ Made(e, u)
  BY RecordsGrow
<1>3. CASE IsRecorded(p, d, t) /\ Made(e, u)
  BY <1>3, OnePath DEF Volume
<1>4. CASE IsRecorded(p, e, u) /\ Made(d, t)
  BY <1>4, OnePath DEF Volume
<1> QED BY <1>1, <1>2, <1>3, <1>4 DEF PlanInv, NeverTwice

\* Every step keeps the traps of one path apart.
LEMMA PlanStep == Base /\ PlanInv /\ OwnPaths /\ [Next]_vars => PlanInv'
BY RecordsPlannedStep, NeverTwiceStep DEF PlanInv

-----------------------------------------------------------------------------
(* Decoys in place, and the requests that mend those that are not.          *)

\* The decoy is in the container and new pods get it.
Backed(s) == s \in secret \cup misled
Fine(d, c, t) == InPlace(d, c, t) /\ Backed(SecretOf[t])

\* The decoy has been taken out of the policy, or the policy is going.
Past(p, t) == \A j \in policy[p].plan..Len(PlanOf[p]) : t \notin PlanOf[p][j]
Departing(p, t) == policy[p].phase = "deleting" \/ Past(p, t)

\* A request for policy p is queued, an event that leads to one on its way.
DueNow(p) == p \in queue \/ \E d \in Deps : depEvent[d]
Due(p) == DueNow(p) \/ p \in delayed
InHand(p) == pc # "idle" /\ cur = p

\* A volume has an entry for its path, in the copies of the worker as well.
Fits(o) == \A x \in Paths : o.vols[x] # None => \E t \in Traps : PathOf[t] = x /\ SecretOf[t] = o.vols[x]
VolumesFit == \A d \in Deps : Fits(dep[d]) /\ Fits(copy[d])

\* The volume of a recorded decoy has no other content.
ContentsAgree ==
    \A p \in Policies, d \in Deps \ lost, t \in Traps :
       IsRecorded(p, d, t) => dep[d].vols[PathOf[t]] \in {None, SecretOf[t]}

\* The containers that are going to be recorded have the decoy.
DoneIsFine ==
    /\ Mounting /\ item # None /\ Dep \notin lost => \A c \in acc : Fine(Dep, c, item.trap)
    /\ pc = "mount" => Backed(Secret)

\* A decoy that is recorded but not in place is on its way out.
StaleIsSeen ==
    \A p \in Policies, d \in Deps \ lost, t \in Traps : \A c \in dep[d].ann[p][t] :
       ~Fine(d, c, t) => Departing(p, t) /\ (InHand(p) => Unneeded(t)) /\ (InHand(p) \/ Due(p))

\* The errors after which finalization is not tried again come after an update that
\* brings another request.
ErrorsAgree ==
    /\ pc \in {"idle", "adopt", "list"} => err = "none"
    /\ bad # "notfound"
    /\ Cleaning /\ finalizing /\ err = "notfound" => DueNow(cur)
    /\ pc = "drop" /\ bad = "none" /\ copy[Dep].vols[Volume] # None => DueNow(cur)

FileInv == VolumesFit /\ ContentsAgree /\ DoneIsFine /\ StaleIsSeen /\ ErrorsAgree

\* Secrets go only in DeleteSecret.
LEMMA BackedStep ==
    ASSUME Base, [Next]_vars, NEW s, Backed(s)
    PROVE  Backed(s)' \/ (DeleteSecret /\ s = copy[Dep].vols[Volume])
<1>1. CASE DeleteSecret
  BY <1>1 DEF DeleteSecret, WriteSecrets, EndContainer, history, Backed
<1>2. CASE \E c \in Containers : CreateSecret(c)
  BY <1>2 DEF CreateSecret, WriteSecrets, secretVars, Backed
<1>3. CASE ~DeleteSecret /\ ~\E c \in Containers : CreateSecret(c)
  <2>1. UNCHANGED <<secret, misled>>
    <3>1. CASE Cleans
      BY <1>3, <3>1 DEF Cleans, ListAnnotated, FinishRemoval, AbortRemoval, UnmountAndUpdate, UnmountFails,
         Unmount, NoSecretLeft, DeleteSecretFails, EndContainer, secretVars, history
    <3>2. CASE Mounts
      BY <1>3, <3>2 DEF Mounts, MatchTrap, FinishDeploy, SecretExists, CreateSecretFails, FailContainer,
         MountAndUpdate, MountConflict, MountFails, EndMount, secretVars, history
    <3>3. CASE Loops \/ \E q \in Policies : Fetch(q)
      BY <3>3 DEF Loops, StartItem, SkipRecord, Annotate, AnnotateFails, EndItem, Fetch, secretVars, history
    <3>4. CASE Outside
      BY <3>4, OutsideSteps DEF history, Base
    <3> QED BY <3>1, <3>2, <3>3, <3>4, EndingSteps, StepKinds
  <2> QED BY <2>1 DEF Backed
<1> QED BY <1>1, <1>2, <1>3

\* Mounts go only in the clean-up of their path.
LEMMA PlaceStep ==
    ASSUME Base, [Next]_vars, NEW d \in Deps, NEW c \in Containers, NEW t \in Traps, InPlace(d, c, t)
    PROVE  InPlace(d, c, t)' \/ \E k \in Containers : UnmountSucceeds(k) /\ d = Dep /\ PathOf[t] = Volume
<1> DEFINE x == PathOf[t]
<1>1. x \in Paths /\ SecretOf[t] # None
  BY VolumeTrapsAssumption, VolumeNoneAssumption
<1>2. CASE (\A e \in Deps : Stays(e)) \/ Noted
  BY <1>1, <1>2 DEF Stays, Noted, InPlace
<1>3. CASE Filled
  <2>1. dep'[d].vols[x] = dep[d].vols[x]
    BY <1>1, <1>3 DEF Filled, InPlace
  <2>2. dep[d].mounts[c] \subseteq dep'[d].mounts[c]
    BY <1>3 DEF Filled
  <2> QED BY <2>1, <2>2 DEF InPlace
<1>4. ASSUME NEW k \in Containers, UnmountSucceeds(k), ~(d = Dep /\ x = Volume) PROVE InPlace(d, c, t)'
  <2>1. /\ dep'[d].vols[x] = dep[d].vols[x]
        /\ dep'[d].mounts[c] = IF d = Dep THEN dep[d].mounts[c] \ {Volume} ELSE dep[d].mounts[c]
    BY <1>1, <1>4 DEF UnmountSucceeds, Emptied
  <2> QED BY <1>4, <2>1 DEF InPlace
<1> QED BY <1>2, <1>3, <1>4, DeploymentSteps DEF Base, MountInv

\* A decoy that is in place ceases to be so only in the clean-up of its path.
LEMMA FineStep ==
    ASSUME Base, VolumesFit, [Next]_vars, NEW d \in Deps, NEW c \in Containers, NEW t \in Traps,
           Fine(d, c, t), ~Fine(d, c, t)'
    PROVE  /\ item # None /\ PathOf[t] = Volume /\ Cleaning /\ Cleaning' /\ pc # "idle"
           /\ UNCHANGED <<policy, cur, goal, finalizing>>
<1>1. SecretOf[t] # None
  BY VolumeTrapsAssumption, VolumeNoneAssumption
<1>2. CASE DeleteSecret /\ SecretOf[t] = copy[Dep].vols[Volume]
  <2>1. /\ item # None /\ Cleaning /\ Cleaning' /\ Dep \in Deps /\ Volume \in Paths /\ pc # "idle" /\ Cleans
    BY <1>2, ItemType DEF DeleteSecret, EndContainer, Base, Types, TypeOK, Cleaning, Cleans
  <2>2. PICK u \in Traps : PathOf[u] = Volume /\ SecretOf[u] = SecretOf[t]
    BY <1>1, <1>2, <2>1 DEF VolumesFit, Fits
  <2> QED BY <2>1, <2>2, CleansFrame, VolumeTrapsAssumption DEF Base
<1>3. ASSUME NEW k \in Containers, UnmountSucceeds(k), PathOf[t] = Volume
      PROVE  /\ item # None /\ PathOf[t] = Volume /\ Cleaning /\ Cleaning' /\ pc # "idle"
             /\ UNCHANGED <<policy, cur, goal, finalizing>>
  BY <1>3, CleansFrame DEF UnmountSucceeds, UnmountAndUpdate, Unmount, Take, Cleaning, Base, Cleans
<1> QED BY <1>2, <1>3, BackedStep, PlaceStep DEF Fine
\* Copies are copies of Deployments.
LEMMA VolumesFitStep ==
    ASSUME Base, VolumesFit, [Next]_vars
    PROVE  VolumesFit'
<1> USE DEF Base
<1>1. Fits(NewDeployment) /\ \A d \in Deps : NoCopies[d] = NewDeployment
  BY DEF Fits, NewDeployment, NoCopies
<1>2. \A a, b : Fits(a) /\ a.vols = b.vols => Fits(b)
  BY DEF Fits
<1>3. ASSUME NEW d \in Deps PROVE Fits(dep[d])'
  <2>1. CASE (\A e \in Deps : Stays(e)) \/ Noted
    <3>1. dep'[d].vols = dep[d].vols
      BY <2>1 DEF Stays, Noted
    <3> QED BY <3>1 DEF VolumesFit, Fits
  <2>2. ASSUME NEW c \in Containers, UnmountSucceeds(c) PROVE Fits(dep[d])'
    BY <2>2 DEF UnmountSucceeds, Emptied, VolumesFit, Fits
  <2>3. CASE MountAndUpdate /\ Filled
    <3>1. item.trap \in Traps
      BY <2>3, ItemType DEF MountAndUpdate, EndMount, Types, TypeOK
    <3> QED BY <2>3, <3>1 DEF Filled, VolumesFit, Fits, Volume, Secret
  <2> QED BY <2>1, <2>2, <2>3, DeploymentSteps DEF MountInv
<1>4. ASSUME NEW d \in Deps PROVE Fits(copy[d])'
  <2>1. CASE copy' = copy \/ copy' = NoCopies
    BY <1>1, <2>1 DEF VolumesFit, Fits
  <2>2. CASE ListAnnotated
    <3>1. copy'[d] \in {cdep[d], NewDeployment} /\ cdep[d] = dep[d]
      BY <2>2 DEF ListAnnotated, EditInv, CacheIsCurrent
    <3> QED BY <1>1, <3>1 DEF VolumesFit, Fits
  <2>3. ASSUME NEW c \in Containers, UnmountAndUpdate(c) \/ UnmountFails(c) PROVE Fits(copy[d])'
    <3>1. /\ item # None /\ Dep \in Deps /\ copy \in [Deps -> DeploymentObject]
          /\ copy' = [copy EXCEPT ![Dep] = Unmounted(@, c)]
      BY <2>3, ItemType DEF UnmountAndUpdate, UnmountFails, Unmount, Take, Types, TypeOK
    <3>2. Unmounted(copy[Dep], c).vols = copy[Dep].vols
      BY <3>1, UnmountedParts
    <3>3. copy'[d].vols = copy[d].vols
      BY <3>1, <3>2
    <3> QED BY <3>3 DEF VolumesFit, Fits
  <2>4. ASSUME NEW c \in Containers, CreateSecret(c) PROVE Fits(copy[d])'
    <3>1. /\ item # None /\ depFresh[Dep] /\ copy' = [copy EXCEPT ![Dep] = cdep[Dep]]
          /\ copy \in [Deps -> DeploymentObject]
      BY <2>4 DEF CreateSecret, Take, Types, TypeOK
    <3>2. copy'[d] \in {copy[d], dep[d]}
      BY <3>1, ItemType DEF EditInv, CacheIsCurrent
    <3> QED BY <3>2 DEF VolumesFit, Fits
  <2>5. CASE Annotate
    <3>1. copy' = (IF pc = "deploy" THEN NoCopies ELSE [copy EXCEPT ![Dep] = dep'[Dep]])
      BY <2>5, AnnotateEffect
    <3>2. copy \in [Deps -> DeploymentObject]
      BY DEF Types, TypeOK
    <3>3. copy'[d] \in {NewDeployment, copy[d], dep'[d]}
      BY <1>1, <3>1, <3>2
    <3> QED BY <1>1, <1>3, <3>3 DEF VolumesFit, Fits
  <2>6. CASE Outside
    BY <2>1, <2>6, OutsideSteps DEF itemVars
  <2>7. CASE Ending
    BY <2>1, <2>7 DEF Ending, PutFinalizer, ReleasePolicy, UpdateStatus, Crash, AbortRemoval, Return,
       ForgetRequest
  <2>8. CASE Cleans
    BY <2>1, <2>2, <2>3, <2>8 DEF Cleans, FinishRemoval, AbortRemoval, NoSecretLeft, DeleteSecret,
       DeleteSecretFails, EndContainer
  <2>9. CASE Mounts \/ (\E p \in Policies : Fetch(p))
    BY <2>1, <2>4, <2>9 DEF Mounts, MatchTrap, FinishDeploy, SecretExists, CreateSecretFails, FailContainer,
       MountAndUpdate, MountConflict, MountFails, EndMount, Fetch, itemVars
  <2>10. CASE Loops
    BY <2>1, <2>5, <2>10 DEF Loops, StartItem, SkipRecord, AnnotateFails
  <2> QED BY <2>6, <2>7, <2>8, <2>9, <2>10, StepKinds
<1> QED BY <1>3, <1>4 DEF VolumesFit

\* What has been lost stays so.
LEMMA LostGrows == ASSUME Base, [Next]_vars PROVE lost \subseteq lost'
<1>1. CASE Outside
  BY <1>1, OutsideSteps DEF history, Base
<1>2. CASE Loops \/ \E p \in Policies : Fetch(p)
  BY <1>2 DEF Loops, StartItem, SkipRecord, Annotate, AnnotateFails, Unrecorded, Fetch, history
<1> QED BY <1>1, <1>2, CleansFrame, MountsFrame, EndingSteps, StepKinds DEF Base

\* A volume is recorded with the content it has.
LEMMA ContentsStep ==
    ASSUME Base, PlanInv, FileInv, OwnPaths, [Next]_vars
    PROVE  ContentsAgree'
<1> USE DEF Base
<1> SUFFICES ASSUME NEW p \in Policies, NEW d \in Deps \ lost', NEW t \in Traps, IsRecorded(p, d, t)'
             PROVE  dep'[d].vols[PathOf[t]] \in {None, SecretOf[t]}
  BY DEF ContentsAgree
<1>1. d \in Deps \ lost /\ PathOf[t] \in Paths
  BY LostGrows, VolumeTrapsAssumption
<1>2. CASE IsRecorded(p, d, t)
  <2>1. dep[d].vols[PathOf[t]] \in {None, SecretOf[t]}
    BY <1>1, <1>2 DEF FileInv, ContentsAgree
  <2>2. CASE MountAndUpdate /\ Filled
    <3>1. item # None
      BY <2>2 DEF MountAndUpdate, EndMount, Types, TypeOK
    <3>2. PathOf[t] = Volume => t = item.trap
      BY <1>1, <1>2, <3>1, OnePath
    <3> QED BY <1>1, <2>1, <2>2, <3>2 DEF Filled, Secret
  <2>3. CASE (\A e \in Deps : Stays(e)) \/ Noted
    BY <1>1, <2>1, <2>3 DEF Stays, Noted
  <2>4. ASSUME NEW c \in Containers, UnmountSucceeds(c) PROVE dep'[d].vols[PathOf[t]] \in {None, SecretOf[t]}
    BY <1>1, <2>1, <2>4 DEF UnmountSucceeds, Emptied
  <2> QED BY <2>2, <2>3, <2>4, DeploymentSteps DEF MountInv
<1>3. CASE Annotate /\ pc = "deploy" /\ item # None /\ p = cur /\ t = item.trap /\ d = Dep
  <2>1. PICK c \in acc : TRUE
    BY <1>3 DEF Annotate, MustRecord
  <2>2. Fine(Dep, c, item.trap)
    BY <1>1, <1>3 DEF FileInv, DoneIsFine, Mounting
  <2>3. dep'[d].vols = dep[d].vols
    BY <1>1, <1>3, AnnotateEffect DEF Noted, MountInv
  <2> QED BY <1>3, <2>2, <2>3 DEF Fine, InPlace
<1> QED BY <1>2, <1>3, RecordsGrow

\* What is mounted on a path is the decoy of this path: the clean-up is over.
LEMMA MountIsFine ==
    ASSUME Base, PlanInv, FileInv, OwnPaths, MountAndUpdate, Dep \notin lost
    PROVE  \A k \in Containers : k = cont => Fine(Dep, k, item.trap)'
<1> USE DEF Base
<1>1. /\ item # None /\ pc = "mount" /\ cont \in Containers /\ Dep \in Deps /\ item.trap \in Traps
      /\ Volume \in Paths /\ Volume = PathOf[item.trap] /\ Secret = SecretOf[item.trap] /\ Secret # None
      /\ UNCHANGED <<item, secret, misled>>
  BY ItemType, VolumeNoneAssumption DEF MountAndUpdate, EndMount, Types, TypeOK, Volume, Secret,
     secretVars, history
<1>2. Backed(Secret) /\ Mounting
  BY <1>1 DEF FileInv, DoneIsFine, Mounting
<1>3. dep[Dep].vols[Volume] \in {None, Secret}
  <2> SUFFICES ASSUME dep[Dep].vols[Volume] # None PROVE dep[Dep].vols[Volume] = Secret
    OBVIOUS
  <2>1. PICK c \in Containers : Volume \in dep[Dep].mounts[c]
    BY <1>1 DEF MountInv, VolumesHaveMounts
  <2>2. CASE c \in acc
    BY <1>1, <1>2, <2>2 DEF FileInv, DoneIsFine, Fine, InPlace
  <2>3. CASE c \notin acc
    <3>1. PICK p \in Policies, t \in Traps : PathOf[t] = Volume /\ Records(p, Dep, c, t)
      BY <1>1, <2>1, <2>3 DEF RecordInv, MountsKnown
    <3>2. IsRecorded(p, Dep, t)
      BY <3>1 DEF Records, IsRecorded
    <3>3. t = item.trap
      BY <1>1, <3>1, <3>2, OnePath
    <3> QED BY <1>1, <3>2, <3>3 DEF FileInv, ContentsAgree
  <2> QED BY <2>2, <2>3
<1>4. Filled
  BY MountEffect DEF MountInv
<1>5. Volume \in dep'[Dep].mounts[cont] /\ dep'[Dep].vols[Volume] = Secret
  BY <1>1, <1>3, <1>4 DEF Filled
<1>6. ASSUME NEW k \in Containers, k = cont PROVE Fine(Dep, k, item.trap)'
  BY <1>1, <1>2, <1>5, <1>6 DEF Fine, InPlace, Backed, Dep
<1> QED BY <1>6

\* A container that is done has the decoy, until it is recorded.
LEMMA DoneStep ==
    ASSUME Base, PlanInv, FileInv, OwnPaths, [Next]_vars
    PROVE  DoneIsFine'
<1> USE DEF Base
<1>1. lost \subseteq lost'
  BY LostGrows
<1>2. ASSUME Mounting \/ ~Cleaning', NEW d \in Deps, NEW c \in Containers, NEW t \in Traps, Fine(d, c, t)
      PROVE  Fine(d, c, t)'
  BY <1>2, FineStep DEF FileInv, Mounting, Cleaning
<1>3. ASSUME Mounting, Mounting', item # None, item' = item, NEW c \in acc, Dep \notin lost'
      PROVE  Fine(Dep, c, item.trap)'
  <2>1. Fine(Dep, c, item.trap) /\ Dep \in Deps /\ c \in Containers /\ item.trap \in Traps
    BY <1>1, <1>3, ItemType DEF FileInv, DoneIsFine, Types, TypeOK
  <2>2. \A d \in Deps, k \in Containers, t \in Traps : Fine(d, k, t) => Fine(d, k, t)'
    BY <1>2, <1>3
  <2>3. Dep' = Dep
    BY <1>3 DEF Dep
  <2>4. ASSUME NEW d \in Deps, NEW t \in Traps, d = Dep, t = item.trap PROVE Fine(d, c, t)'
    BY <2>1, <2>2, <2>4
  <2> QED BY <1>3, <2>1, <2>3, <2>4
<1> DEFINE Done == Mounting' /\ item' # None /\ Dep' \notin lost' => \A c \in acc' : Fine(Dep, c, item.trap)'
<1>4. CASE item' = item /\ acc' = acc /\ (Mounting' => Mounting)
  <2>1. Done
    BY <1>3, <1>4 DEF Dep
  <2>2. ASSUME pc = "mount", pc' = "mount" PROVE Backed(Secret)'
    <3>1. Backed(Secret) /\ item # None /\ Secret \in Secrets
      BY <2>2, ItemType DEF FileInv, DoneIsFine, Types, TypeOK
    <3>2. ASSUME NEW s, s = Secret PROVE Backed(s)'
      BY <2>2, <3>1, <3>2, BackedStep DEF DeleteSecret
    <3>3. Secret' = Secret
      BY <1>4 DEF Secret
    <3> QED BY <3>2, <3>3
  <2>3. pc' = "mount" => pc = "mount" \/ \E c \in Containers : CreateSecret(c)
    <3>1. CASE Outside
      BY <3>1, OutsideSteps
    <3>2. CASE Loops \/ \E p \in Policies : Fetch(p)
      BY <3>2 DEF Loops, StartItem, SkipRecord, Annotate, AnnotateFails, EndItem, Fetch
    <3>3. CASE Cleans
      BY <3>3 DEF Cleans, ListAnnotated, FinishRemoval, AbortRemoval, UnmountAndUpdate, UnmountFails, Unmount,
         NoSecretLeft, DeleteSecret, DeleteSecretFails, EndContainer
    <3>4. CASE Mounts
      BY <3>4 DEF Mounts, MatchTrap, FinishDeploy, SecretExists, CreateSecretFails, FailContainer,
         MountAndUpdate, MountConflict, MountFails, EndMount
    <3> QED BY <3>1, <3>2, <3>3, <3>4, EndingSteps, StepKinds
  <2>4. ASSUME NEW c \in Containers, CreateSecret(c) PROVE Backed(Secret)'
    <3>1. item' = item /\ Secret \in secret' \cup misled'
      BY <2>4 DEF CreateSecret, WriteSecrets, secretVars
    <3> QED BY <3>1 DEF Backed, Secret
  <2> QED BY <2>1, <2>2, <2>3, <2>4 DEF DoneIsFine
<1>5. ASSUME NEW w \in work, StartItem(w) PROVE DoneIsFine'
  <2>1. /\ item' = w /\ acc' = w.conts \cap w.already /\ pc' = pc /\ UNCHANGED <<dep, lost>>
        /\ w.dep \in Deps /\ w.trap \in Traps /\ item = None /\ pc # "mount"
    BY <1>5 DEF StartItem, depVars, history, Types, TypeOK, WorkItem
  <2>2. ASSUME Mounting, w.dep \notin lost, NEW c \in acc' PROVE Fine(w.dep, c, w.trap)'
    <3>1. /\ w.already = dep[w.dep].ann[cur][w.trap] /\ ~Unneeded(w.trap) /\ cur \in Policies /\ pc # "idle"
      BY <2>2 DEF RecordInv, WorkAgrees, PoliciesAgree, Unneeded, Mounting, Types, TypeOK
    <3>2. c \in dep[w.dep].ann[cur][w.trap] /\ c \in Containers
      BY <2>1, <3>1 DEF Types, TypeOK, DeploymentObject, Annotation
    <3>3. Fine(w.dep, c, w.trap)
      BY <2>1, <2>2, <3>1, <3>2 DEF FileInv, StaleIsSeen, InHand
    <3> QED BY <1>2, <2>1, <2>2, <3>2, <3>3
  <2> QED BY <2>1, <2>2 DEF DoneIsFine, Mounting, Dep
<1>6. CASE MountAndUpdate
  <2>1. /\ item' = item /\ acc' = acc \cup {cont} /\ Mounting /\ Mounting' /\ item # None /\ pc' = "deploy"
        /\ cont \in Containers /\ lost' = lost
    BY <1>6 DEF MountAndUpdate, EndMount, Mounting, Types, TypeOK, history
  <2>2. Dep \notin lost => \A k \in Containers : k = cont => Fine(Dep, k, item.trap)'
    BY <1>6, MountIsFine
  <2>3. acc \subseteq Containers
    BY DEF Types, TypeOK
  <2>4. Dep' = Dep
    BY <2>1 DEF Dep
  <2>5. Done
    BY <1>3, <2>1, <2>2, <2>3, <2>4
  <2> QED BY <2>1, <2>5 DEF DoneIsFine
<1>7. CASE item' = None \/ ~Mounting'
  <2>1. pc' = "mount" => item' # None
    BY StepTypes DEF Types, TypeOK
  <2> QED BY <1>7, <2>1 DEF DoneIsFine, Mounting
<1> QED
  <2>1. CASE Outside
    BY <1>4, <2>1, OutsideSteps DEF itemVars, Mounting
  <2>2. CASE Ending
    BY <1>7, <2>2, EndingSteps
  <2>3. CASE Cleans
    BY <1>7, <2>3 DEF Cleans, ListAnnotated, FinishRemoval, AbortRemoval, UnmountAndUpdate, UnmountFails, Unmount,
       NoSecretLeft, DeleteSecret, DeleteSecretFails, EndContainer, Mounting
  <2>4. CASE Mounts
    <3>1. Mounting
      BY <2>4, MountsFrame
    <3> QED BY <1>4, <1>6, <2>4, <3>1 DEF Mounts, MatchTrap, FinishDeploy, CreateSecret, SecretExists,
       CreateSecretFails, FailContainer, MountConflict, MountFails, EndMount, itemVars
  <2>5. CASE Loops
    BY <1>5, <1>7, <2>5 DEF Loops, SkipRecord, Annotate, AnnotateFails, EndItem, ForgetItem
  <2>6. CASE \E p \in Policies : Fetch(p)
    BY <1>7, <2>6 DEF Fetch, Mounting
  <2> QED BY <2>1, <2>2, <2>3, <2>4, <2>5, <2>6, StepKinds

\* Requests that are due stay so.
LEMMA WritesAreSeen ==
    ASSUME Base, NEW d \in Deps, NEW o, NEW e, WriteDeployment(d, o, e)
    PROVE  \A x \in Deps : depEvent[x] => depEvent'[x]
BY DEF WriteDeployment, depVars, Base, Types, TypeOK

\* Only the request itself takes itself from the queue.
LEMMA DueStep ==
    ASSUME Base, [Next]_vars, NEW p \in Policies, Exists(p)'
    PROVE  \/ Fetch(p)
           \/ (DueNow(p) => DueNow(p)') /\ (Due(p) => Due(p)')
<1> USE DEF Base
<1> DEFINE Grow == queue \subseteq queue' /\ delayed \subseteq delayed' /\ \A x \in Deps : depEvent[x] => depEvent'[x]
<1>1. ASSUME Grow PROVE (DueNow(p) => DueNow(p)') /\ (Due(p) => Due(p)')
  BY <1>1 DEF Due, DueNow
<1>2. CASE Outside
  <2>1. ASSUME NEW d \in Deps, SyncDeployment(d) PROVE (DueNow(p) => DueNow(p)') /\ (Due(p) => Due(p)')
    <3>1. Exists(p) /\ delayed' = delayed /\ queue \subseteq queue'
      BY <2>1 DEF SyncDeployment, Exists
    <3>2. ASSUME NEW x \in Deps, depEvent[x] PROVE depEvent'[x] \/ p \in queue'
      BY <2>1, <3>1, <3>2 DEF SyncDeployment, Exists, Types, TypeOK
    <3> QED BY <3>1, <3>2 DEF Due, DueNow
  <2>2. ASSUME NEW q \in Policies, FireTimer(q) PROVE (DueNow(p) => DueNow(p)') /\ (Due(p) => Due(p)')
    BY <2>2 DEF FireTimer, Due, DueNow, depVars
  <2>3. ASSUME NEW d \in Deps,
               LabelDeployment(d) \/ EditDeployment(d) \/ BecomeAvailable(d) \/ BecomeUnavailable(d)
        PROVE  Grow
    <3>1. PICK o, e : DeploymentStep(d, o, e)
      BY <2>3 DEF LabelDeployment, EditDeployment, BecomeAvailable, BecomeUnavailable
    <3> QED BY <3>1, WritesAreSeen DEF DeploymentStep, queueVars
  <2>4. CASE \/ \E q \in Policies : CreatePolicy(q) \/ EditPolicy(q) \/ DeletePolicy(q)
             \/ (\E s \in Secrets : SyncSecret(s)) \/ UNCHANGED vars
    BY <1>1, <2>4 DEF CreatePolicy, EditPolicy, DeletePolicy, PolicyStep, SyncSecret, vars, queueVars, depVars
  <2> QED BY <1>1, <1>2, <2>1, <2>2, <2>3, <2>4 DEF Outside, UserStep
<1>3. CASE Crash
  <2>1. p \in queue'
    BY <1>3 DEF Crash, Exists
  <2> QED BY <2>1 DEF Due, DueNow
<1>4. CASE PutFinalizer \/ ReleasePolicy \/ UpdateStatus \/ AbortRemoval
  BY <1>1, <1>4 DEF PutFinalizer, ReleasePolicy, UpdateStatus, AbortRemoval, Return, depVars
<1>5. CASE Cleans
  <2>1. UNCHANGED <<queue, delayed>>
    BY <1>5 DEF Cleans, ListAnnotated, FinishRemoval, AbortRemoval, UnmountAndUpdate, UnmountFails, Unmount,
       NoSecretLeft, DeleteSecret, DeleteSecretFails, EndContainer, queueVars
  <2>2. UNCHANGED depEvent \/ (Dep \in Deps /\ \E o, e : WriteDeployment(Dep, o, e))
    <3>1. CASE \E c \in Containers : UnmountAndUpdate(c)
      BY <3>1, ItemType DEF UnmountAndUpdate, Unmount, Take, depVars
    <3>2. CASE ~\E c \in Containers : UnmountAndUpdate(c)
      BY <1>5, <3>2 DEF Cleans, ListAnnotated, FinishRemoval, AbortRemoval, UnmountFails,
         NoSecretLeft, DeleteSecret, DeleteSecretFails, EndContainer, depVars
    <3> QED BY <3>1, <3>2
  <2> QED BY <1>1, <2>1, <2>2, WritesAreSeen
<1>6. CASE Mounts
  <2>1. UNCHANGED <<queue, delayed>>
    BY <1>6 DEF Mounts, MatchTrap, FinishDeploy, CreateSecret, SecretExists, CreateSecretFails, FailContainer,
       MountAndUpdate, MountConflict, MountFails, EndMount, queueVars
  <2>2. UNCHANGED depEvent \/ (Dep \in Deps /\ \E o, e : WriteDeployment(Dep, o, e))
    <3>1. CASE MountAndUpdate
      BY <3>1, ItemType DEF MountAndUpdate, EndMount, Types, TypeOK
    <3>2. CASE ~MountAndUpdate
      BY <1>6, <3>2 DEF Mounts, MatchTrap, FinishDeploy, CreateSecret, SecretExists, CreateSecretFails,
         FailContainer, MountConflict, MountFails, EndMount, depVars
    <3> QED BY <3>1, <3>2
  <2> QED BY <1>1, <2>1, <2>2, WritesAreSeen
<1>7. CASE Loops
  BY <1>1, <1>7 DEF Loops, StartItem, SkipRecord, Annotate, AnnotateFails, EndItem, depVars, queueVars
<1>8. ASSUME NEW q \in Policies, Fetch(q), q # p PROVE (DueNow(p) => DueNow(p)') /\ (Due(p) => Due(p)')
  BY <1>8 DEF Fetch, Due, DueNow, depVars
<1> QED BY <1>2, <1>3, <1>4, <1>5, <1>6, <1>7, <1>8, StepKinds DEF Ending

\* A successful update brings an event if there was a volume.
LEMMA UnmountIsSeen ==
    ASSUME Base, NEW c \in Containers, UnmountAndUpdate(c), bad' = "none", copy'[Dep].vols[Volume] # None
    PROVE  \E d \in Deps : depEvent'[d]
<1> USE DEF Base
<1>1. /\ item # None /\ pc = "remove" /\ Dep \in Deps /\ Volume \in Paths /\ copy \in [Deps -> DeploymentObject]
      /\ copy' = [copy EXCEPT ![Dep] = Unmounted(@, c)]
  BY ItemType DEF UnmountAndUpdate, Unmount, Take, Types, TypeOK
<1>2. Unmounted(copy[Dep], c).vols = copy[Dep].vols
  BY <1>1, UnmountedParts
<1>3. copy[Dep].vols[Volume] # None
  BY <1>1, <1>2
<1>4. Dep \in valid /\ Emptied
  BY UnmountEffect DEF UnmountSucceeds, MountInv
<1>5. copy[Dep].vols = dep[Dep].vols
  BY <1>1, <1>4 DEF MountInv, CopiesMatch, Cleaning
<1>6. dep' # dep
  BY <1>1, <1>3, <1>4, <1>5 DEF Emptied
<1>7. PICK o : WriteDeployment(Dep, o, TRUE)
  BY <1>6 DEF UnmountAndUpdate, depVars
<1> QED BY <1>1, <1>6, <1>7 DEF WriteDeployment, depVars, Types, TypeOK

\* A request that ends without another one has met no error, or one after which an
\* event is on its way.
LEMMA ErrorsStep ==
    ASSUME Base, FileInv, [Next]_vars
    PROVE  ErrorsAgree'
<1> USE DEF Base, FileInv
<1>1. RecordInv' /\ Types'
  BY RecordStep, StepTypes
<1>2. ASSUME ~(\E p \in Policies : Fetch(p)), cur \in Policies, cur' = cur, Exists(cur)', DueNow(cur)
      PROVE  DueNow(cur)'
  <2>1. ASSUME NEW p \in Policies, p = cur PROVE DueNow(p)'
    BY <1>2, <2>1, DueStep DEF Exists
  <2> QED BY <1>2, <2>1 DEF DueNow
<1>3. CASE Ending
  BY <1>3, EndingSteps DEF ErrorsAgree, Cleaning, Ending, PutFinalizer, ReleasePolicy, UpdateStatus, Crash,
     AbortRemoval, Return, ForgetRequest, ForgetItem
<1>4. CASE \E p \in Policies : Fetch(p)
  BY <1>4 DEF ErrorsAgree, Cleaning, Fetch, itemVars, resultVars
<1>5. Cleaning' => Exists(cur)' /\ cur' \in Policies
  BY <1>1 DEF RecordInv, PoliciesAgree, Held, Cleaning, Types, TypeOK
<1>6. CASE Outside
  <2>1. UNCHANGED <<pc, cur, finalizing, item, copy, bad, err>>
    BY <1>6, OutsideSteps DEF reqVars, itemVars, resultVars
  <2>2. Cleaning' /\ DueNow(cur) => DueNow(cur)'
    <3>1. ASSUME NEW p \in Policies, Fetch(p), Cleaning' PROVE FALSE
      BY <3>1 DEF Fetch, Cleaning
    <3> QED BY <1>2, <1>5, <2>1, <3>1
  <2> QED BY <2>1, <2>2 DEF ErrorsAgree, Cleaning, Dep, Volume
<1>7. CASE Mounts
  <2>1. ~Cleaning' /\ pc' \notin {"idle", "adopt", "list"} /\ bad' = bad /\ pc' # "drop"
    BY <1>7 DEF Mounts, MatchTrap, FinishDeploy, CreateSecret, SecretExists, CreateSecretFails, FailContainer,
       MountAndUpdate, MountConflict, MountFails, EndMount, Cleaning, itemVars
  <2> QED BY <2>1 DEF ErrorsAgree
<1>8. CASE Loops
  <2>1. /\ pc' = pc /\ UNCHANGED <<cur, finalizing>> /\ (bad' = bad \/ bad' = "none") /\ pc \in {"remove", "deploy"}
        /\ err' \in {err, JoinErr(err, "other")}
    BY <1>8 DEF Loops, StartItem, SkipRecord, Annotate, AnnotateFails, EndItem, ForgetItem, reqVars, resultVars,
       Types, TypeOK, ItemInLoop
  <2>2. err' = "notfound" => err = "notfound"
    BY <2>1 DEF JoinErr
  <2>3. Cleaning' /\ DueNow(cur) => DueNow(cur)'
    <3>1. ASSUME NEW p \in Policies, Fetch(p) PROVE FALSE
      BY <2>1, <3>1 DEF Fetch
    <3> QED BY <1>2, <1>5, <2>1, <3>1
  <2> QED BY <2>1, <2>2, <2>3 DEF ErrorsAgree, Cleaning
<1>9. CASE Cleans
  <2>1. UNCHANGED <<cur, finalizing>> /\ pc' \notin {"idle", "adopt", "list"}
    BY <1>9, CleansFrame DEF Cleans, ListAnnotated, FinishRemoval, AbortRemoval, UnmountAndUpdate, UnmountFails,
       Unmount, NoSecretLeft, DeleteSecret, DeleteSecretFails, EndContainer
  <2>2. Cleaning' /\ DueNow(cur) => DueNow(cur)'
    <3>1. ASSUME NEW p \in Policies, Fetch(p), Cleaning' PROVE FALSE
      BY <3>1 DEF Fetch, Cleaning
    <3> QED BY <1>2, <1>5, <2>1, <3>1
  <2>3. CASE ListAnnotated
    BY <2>1, <2>3 DEF ErrorsAgree, ListAnnotated, resultVars
  <2>4. CASE FinishRemoval \/ (AbortRemoval /\ ~finalizing)
    BY <2>1, <2>4 DEF ErrorsAgree, FinishRemoval, AbortRemoval, Cleaning
  <2>5. ASSUME NEW c \in Containers, UnmountAndUpdate(c) \/ UnmountFails(c) PROVE ErrorsAgree'
    <3>1. /\ pc = "remove" /\ pc' = "drop" /\ UNCHANGED <<item, err>> /\ bad' \in {"none", "other"}
          /\ UnmountFails(c) => bad' = "other"
      BY <2>5 DEF UnmountAndUpdate, UnmountFails, Unmount, resultVars
    <3>2. bad' = "none" /\ copy'[Dep].vols[Volume] # None => DueNow(cur)'
      BY <2>5, <3>1, UnmountIsSeen DEF DueNow
    <3> QED BY <2>1, <2>2, <3>1, <3>2 DEF ErrorsAgree, Cleaning, Dep, Volume
  <2>6. CASE NoSecretLeft \/ DeleteSecret \/ DeleteSecretFails
    <3>1. PICK e \in {"none", "notfound"} : /\ EndContainer(e)
                                           /\ (e = "notfound" => copy[Dep].vols[Volume] # None)
      BY <2>6 DEF NoSecretLeft, DeleteSecret, DeleteSecretFails
    <3>2. /\ pc = "drop" /\ pc' = "remove" /\ bad' = "none" /\ err' = JoinErr(err, JoinErr(bad, e))
      BY <3>1 DEF EndContainer
    <3>3. err' = "notfound" => err = "notfound" \/ (bad = "none" /\ copy[Dep].vols[Volume] # None)
      BY <3>1, <3>2 DEF JoinErr, ErrorsAgree
    <3> QED BY <2>1, <2>2, <3>2, <3>3 DEF ErrorsAgree, Cleaning
  <2> QED BY <1>9, <2>3, <2>4, <2>5, <2>6 DEF Cleans
<1> QED BY <1>3, <1>4, <1>6, <1>7, <1>8, <1>9, StepKinds
\* What has been taken out of a policy stays out.
LEMMA DepartingStep ==
    ASSUME Base, [Next]_vars, NEW p \in Policies, NEW t \in Traps, Departing(p, t), Held(p)'
    PROVE  Departing(p, t)'
<1> USE DEF Base
<1>1. CASE Past(p, t)
  <2>1. policy'[p].plan \in Nat /\ policy[p].plan \in Nat /\ policy'[p].plan >= policy[p].plan /\ Len(PlanOf[p]) \in Nat
    BY PlansGrow, VolumePoliciesAssumption
  <2> QED BY <1>1, <2>1 DEF Past, Departing
<1>2. CASE policy[p].phase = "deleting"
  <2>1. policy'[p].phase # "gone"
    BY DEF Held, Exists
  <2>2. CASE Outside
    BY <1>2, <2>2, OutsidePolicies DEF Departing
  <2>3. CASE PutFinalizer
    <3>1. policy' = policy \/ policy' = [policy EXCEPT ![cur] = [policy[cur] EXCEPT !.fin = TRUE]]
      BY <2>3 DEF PutFinalizer
    <3> QED BY <1>2, <3>1 DEF Departing, Types, TypeOK, PolicyObject
  <2>4. CASE UpdateStatus
    <3>1. \/ policy' = policy
          \/ policy' = [policy EXCEPT ![cur] = [policy[cur] EXCEPT !.status = DecoysReason]]
      BY <2>4 DEF UpdateStatus
    <3> QED BY <1>2, <3>1 DEF Departing, Types, TypeOK, PolicyObject
  <2>5. CASE ReleasePolicy
    BY <1>2, <2>1, <2>5 DEF ReleasePolicy, Departing, Types, TypeOK, PolicyObject
  <2>6. CASE Crash \/ (AbortRemoval /\ finalizing)
    BY <1>2, <2>6 DEF Crash, AbortRemoval, Departing
  <2>7. CASE Loops \/ \E q \in Policies : Fetch(q)
    BY <1>2, <2>7 DEF Loops, StartItem, SkipRecord, Annotate, AnnotateFails, EndItem, Fetch, Departing
  <2>8. CASE Cleans \/ Mounts
    BY <1>2, <2>8, CleansFrame, MountsFrame DEF Departing
  <2> QED BY <2>2, <2>3, <2>4, <2>5, <2>6, <2>7, <2>8, StepKinds DEF Ending
<1> QED BY <1>1, <1>2 DEF Departing

\* So does a decoy that is recorded and that the request in progress does not want.
LEMMA UnneededDeparts ==
    ASSUME Base, PlanInv, NothingReturns, pc # "idle", NEW d \in Deps, NEW t \in Traps,
           IsRecorded(cur, d, t), Unneeded(t)
    PROVE  Departing(cur, t)
<1> USE DEF Base
<1>1. CASE finalizing
  BY <1>1 DEF RecordInv, PoliciesAgree, Departing
<1>2. CASE t \notin goal
  <2>1. cur \in Policies /\ Len(PlanOf[cur]) \in Nat /\ policy[cur].plan \in 1..Len(PlanOf[cur])
    BY VolumePoliciesAssumption DEF Types, TypeOK, InPlan
  <2>2. PICK i \in 1..policy[cur].plan :
           goal = PlanOf[cur][i] /\ \E k \in 1..i : t \in PlanOf[cur][k]
    BY DEF PlanInv, GoalPlanned
  <2>3. PICK k \in 1..i : t \in PlanOf[cur][k]
    BY <2>2
  <2>4. k < i
    BY <1>2, <2>1, <2>2, <2>3
  <2>5. ASSUME NEW j \in policy[cur].plan..Len(PlanOf[cur]), t \in PlanOf[cur][j] PROVE FALSE
    <3>1. i < j
      BY <1>2, <2>1, <2>2, <2>5
    <3>2. t \in PlanOf[cur][i]
      BY <2>1, <2>3, <2>4, <2>5, <3>1 DEF NothingReturns
    <3> QED BY <1>2, <2>2, <3>2
  <2> QED BY <2>5 DEF Departing, Past
<1> QED BY <1>1, <1>2 DEF Unneeded

\* A request ends with another one due, or with nothing left to remove.
LEMMA EndingIsDue ==
    ASSUME Base, FileInv, Ending, pc # "idle", NEW d \in Deps, NEW t \in Traps,
           IsRecorded(cur, d, t), Unneeded(t), NEW p \in Policies, p = cur
    PROVE  Due(p)'
<1> USE DEF Base
<1>1. CASE PutFinalizer
  BY <1>1 DEF PutFinalizer, Return, Due, DueNow
<1>2. CASE ReleasePolicy
  BY <1>2 DEF ReleasePolicy, RecordInv, Progress, IsRecorded
<1>3. CASE UpdateStatus
  <2>1. pc = "status" => err # "none"
    BY DEF RecordInv, Progress, IsRecorded
  <2> QED BY <1>3, <2>1 DEF UpdateStatus, Return, Requeue, Due, DueNow
<1>4. CASE Crash
  <2>1. Exists(cur)
    BY DEF RecordInv, PoliciesAgree, Held, IsRecorded, Types, TypeOK
  <2> QED BY <1>4, <2>1 DEF Crash, Exists, Due, DueNow
<1>5. CASE AbortRemoval /\ finalizing
  <2>1. CASE err = "notfound"
    <3>1. DueNow(p) /\ UNCHANGED <<queue, depEvent>>
      BY <1>5, <2>1 DEF AbortRemoval, FileInv, ErrorsAgree, Cleaning, depVars
    <3> QED BY <3>1 DEF Due, DueNow
  <2>2. CASE err # "notfound"
    BY <1>5, <2>2 DEF AbortRemoval, Return, Due, DueNow
  <2> QED BY <2>1, <2>2
<1> QED BY <1>1, <1>2, <1>3, <1>4, <1>5 DEF Ending

\* A decoy that is not in place is on its way out, and stays so.
LEMMA StaleStep ==
    ASSUME Base, PlanInv, FileInv, OwnPaths, NothingReturns, [Next]_vars
    PROVE  StaleIsSeen'
<1> USE DEF Base
<1>1. RecordInv' /\ Types'
  BY RecordStep, StepTypes
<1> SUFFICES ASSUME NEW p \in Policies, NEW d \in Deps \ lost', NEW t \in Traps, NEW c \in dep'[d].ann[p][t],
                    ~Fine(d, c, t)'
             PROVE  Departing(p, t)' /\ (InHand(p)' => Unneeded(t)') /\ (InHand(p)' \/ Due(p)')
  BY DEF StaleIsSeen
<1>2. d \in Deps \ lost /\ c \in Containers
  BY <1>1, LostGrows DEF Types, TypeOK, DeploymentObject, Annotation
<1>3. IsRecorded(p, d, t)' /\ Held(p)' /\ Exists(p)'
  BY <1>1 DEF IsRecorded, RecordInv, PoliciesAgree, Held
<1>4. ASSUME Annotate, pc = "deploy", p = cur, d = Dep, item # None, t = item.trap PROVE FALSE
  <2>1. dep'[d].ann = Recorded(dep[d].ann)
    BY <1>2, <1>4, AnnotateEffect DEF Noted, MountInv
  <2>2. c \in acc
    BY <1>4, <2>1, RecordedParts
  <2>3. Fine(d, c, t)
    BY <1>2, <1>4, <2>2 DEF FileInv, DoneIsFine, Mounting
  <2> QED BY <1>2, <1>4, <2>3, FineStep DEF FileInv, Cleaning
<1>5. c \in dep[d].ann[p][t]
  <2>1. CASE Annotate
    <3>1. /\ item # None /\ pc \in {"remove", "deploy"} /\ Noted
      BY <2>1, AnnotateEffect DEF Annotate, EndItem, ItemInLoop, Types, TypeOK, MountInv
    <3>2. dep'[d].ann = IF d = Dep THEN Recorded(dep[d].ann) ELSE dep[d].ann
      BY <1>2, <3>1 DEF Noted
    <3>3. CASE p = cur /\ t = item.trap /\ d = Dep
      <4>1. pc = "remove" => item.conts = dep[d].ann[p][t]
        BY <3>1, <3>3, ItemType DEF RecordInv, WorkAgrees, Cleaning, Dep
      <4> QED BY <1>4, <2>1, <3>1, <3>2, <3>3, <4>1, RecordedParts
    <3> QED BY <3>1, <3>2, <3>3, RecordedParts
  <2>2. CASE ~Annotate
    BY <1>2, <2>2, DeploymentSteps DEF MountInv, Stays, UnmountSucceeds, Emptied, Filled
  <2> QED BY <2>1, <2>2
<1>6. IsRecorded(p, d, t)
  BY <1>5 DEF IsRecorded
<1>7. CASE Fine(d, c, t)
  <2>1. /\ item # None /\ PathOf[t] = Volume /\ Cleaning /\ Cleaning' /\ pc # "idle"
        /\ UNCHANGED <<policy, cur, goal, finalizing>>
    BY <1>2, <1>7, FineStep DEF FileInv
  <2>2. p = cur /\ t = item.trap
    BY <1>2, <1>6, <2>1, OnePath
  <2>3. Unneeded(t)
    BY <2>1, <2>2, ItemType DEF RecordInv, WorkAgrees
  <2>4. Departing(p, t)
    BY <1>2, <1>6, <2>1, <2>2, <2>3, UnneededDeparts
  <2> QED BY <1>3, <2>1, <2>2, <2>3, <2>4, DepartingStep DEF InHand, Unneeded, Cleaning
<1>8. CASE ~Fine(d, c, t)
  <2>1. Departing(p, t) /\ (InHand(p) => Unneeded(t)) /\ (InHand(p) \/ Due(p))
    BY <1>2, <1>5, <1>8 DEF FileInv, StaleIsSeen
  <2>2. Departing(p, t)'
    BY <1>3, <2>1, DepartingStep
  <2>3. ASSUME NEW q \in Policies, Fetch(q)
        PROVE  (InHand(p)' => Unneeded(t)') /\ (InHand(p)' \/ Due(p)')
    <3>1. UNCHANGED policy /\ pc = "idle"
      BY <2>3 DEF Fetch
    <3>2. CASE q = p
      <4>1. /\ pc' # "idle" /\ cur' = p /\ goal' = PlanOf[p][policy[p].plan]
            /\ finalizing' = (policy[p].phase = "deleting")
        BY <1>3, <2>3, <3>1, <3>2 DEF Fetch, Exists, TrapsOf
      <4>2. policy[p].plan \in policy[p].plan..Len(PlanOf[p])
        BY VolumePoliciesAssumption DEF Types, InPlan
      <4> QED BY <2>1, <4>1, <4>2 DEF InHand, Unneeded, Departing, Past
    <3>3. CASE q # p
      <4>1. ~InHand(p) /\ ~InHand(p)'
        BY <2>3, <3>1, <3>3 DEF Fetch, InHand, reqVars
      <4>2. Due(p)'
        BY <2>1, <2>3, <3>3, <4>1 DEF Fetch, Due, DueNow, depVars
      <4> QED BY <4>1, <4>2
    <3> QED BY <3>2, <3>3
  <2>4. ASSUME ~\E q \in Policies : Fetch(q), Due(p) PROVE Due(p)'
    BY <1>3, <2>4, DueStep
  <2>5. CASE pc' = "idle" /\ ~\E q \in Policies : Fetch(q)
    <3>1. ~InHand(p)'
      BY <2>5 DEF InHand
    <3>2. CASE InHand(p) /\ Ending
      <4>1. pc # "idle" /\ cur = p /\ Unneeded(t) /\ IsRecorded(cur, d, t)
        BY <1>6, <2>1, <3>2 DEF InHand
      <4>2. Due(p)'
        BY <1>2, <3>2, <4>1, EndingIsDue
      <4> QED BY <2>2, <3>1, <4>2
    <3>3. CASE InHand(p) /\ ~Ending
      <4>1. pc' # "idle"
        <5>1. CASE Outside
          BY <3>3, <5>1, OutsideSteps DEF InHand
        <5>2. CASE Loops
          BY <3>3, <5>2 DEF Loops, StartItem, SkipRecord, Annotate, AnnotateFails, EndItem, InHand
        <5>3. CASE Cleans
          BY <5>3 DEF Cleans, ListAnnotated, FinishRemoval, AbortRemoval, UnmountAndUpdate, UnmountFails, Unmount,
             NoSecretLeft, DeleteSecret, DeleteSecretFails, EndContainer
        <5>4. CASE Mounts
          BY <5>4, MountsFrame DEF Mounting, FinishDeploy
        <5> QED BY <2>5, <3>3, <5>1, <5>2, <5>3, <5>4, StepKinds
      <4> QED BY <2>5, <4>1
    <3> QED BY <2>1, <2>2, <2>4, <2>5, <3>1, <3>2, <3>3
  <2>6. CASE /\ pc # "idle" /\ pc' # "idle" /\ UNCHANGED <<cur, goal, finalizing>>
             /\ ~\E q \in Policies : Fetch(q)
    BY <2>1, <2>2, <2>4, <2>6 DEF InHand, Unneeded
  <2> QED BY <2>2, <2>3, <2>5, <2>6, RequestSteps
<1> QED BY <1>7, <1>8

\* Every step.
LEMMA FileStep == Base /\ PlanInv /\ FileInv /\ OwnPaths /\ NothingReturns /\ [Next]_vars => FileInv'
BY VolumesFitStep, ContentsStep, DoneStep, StaleStep, ErrorsStep DEF FileInv

\* No decoy is stale at first.
LEMMA InitFiles == Init => PlanInv /\ FileInv
<1> SUFFICES ASSUME Init PROVE PlanInv /\ FileInv
  OBVIOUS
<1>1. \A d \in Deps : /\ dep[d].vols = [x \in Paths |-> None] /\ dep[d].ann = NoAnnotation
                      /\ copy[d].vols = [x \in Paths |-> None]
  BY DEF Init, NewDeployment, NoCopies
<1>2. \A p \in Policies, d \in Deps, t \in Traps : dep[d].ann[p][t] = {}
  BY <1>1 DEF NoAnnotation
<1>3. pc = "idle" /\ bad = "none" /\ err = "none"
  BY DEF Init
<1> QED BY <1>1, <1>2, <1>3 DEF PlanInv, RecordsPlanned, GoalPlanned, NeverTwice, IsRecorded, FileInv, VolumesFit,
           Fits, ContentsAgree, DoneIsFine, StaleIsSeen, ErrorsAgree, Cleaning, Mounting

\* The invariants hold together.
LEMMA FilesStayRight ==
    ASSUME OwnPaths, NothingReturns
    PROVE  /\ Init => Base /\ PlanInv /\ FileInv
           /\ Base /\ PlanInv /\ FileInv /\ [Next]_vars => (Base /\ PlanInv /\ FileInv)'
<1>1. Init => EditInv
  BY DEF Init, EditInv, CacheIsCurrent, CopiesAreCurrent
<1>2. Base /\ [Next]_vars => Base'
  BY StepTypes, StepKeeps, MountStep, RecordStep DEF Base
<1> QED BY <1>1, <1>2, InitTypes, InitRecords, InitFiles, PlanStep, FileStep DEF Base

\* If no path has two decoys at a time and no decoy comes back, what a policy at rest
\* has recorded is mounted with the right content: whatever calls fail, the clean-up is
\* tried again until the record is gone (RemoveDecoy, removeDecoyWithVolumeMount).
THEOREM RecordsAreMounted ==
    ASSUME OwnPaths, NothingReturns
    PROVE  Spec => []RecordedIsMounted
<1>1. Base /\ FileInv => RecordedIsMounted
  BY DEF RecordedIsMounted, Records, Pending, FileInv, StaleIsSeen, Fine, InHand, Due, DueNow
<1> QED BY <1>1, FilesStayRight, PTL DEF Spec

\* If no path has two decoys at a time and no decoy comes back, each volume of a template
\* has its Secret at rest, although the clean-up deletes the Secret whether or not the
\* Deployment could be updated (removeDecoyWithVolumeMount, createSecret).
THEOREM SecretsAreThere ==
    ASSUME OwnPaths, NothingReturns
    PROVE  Spec => []VolumesAreBacked
<1>1. Base /\ PlanInv /\ FileInv => VolumesAreBacked
  <2> USE DEF Base
  <2> SUFFICES ASSUME Base, PlanInv, FileInv, \A p \in Policies : ~Pending(p), NEW d \in Deps \ lost,
                      NEW x \in Paths, dep[d].vols[x] # None
               PROVE  dep[d].vols[x] \in secret \cup misled
    BY DEF VolumesAreBacked
  <2>1. PICK c \in Containers : x \in dep[d].mounts[c]
    BY DEF MountInv, VolumesHaveMounts
  <2>2. ~Mounting
    BY DEF Pending, Types, TypeOK, Mounting
  <2>3. PICK p \in Policies, t \in Traps : PathOf[t] = x /\ Records(p, d, c, t)
    BY <2>1, <2>2 DEF RecordInv, MountsKnown
  <2>4. ~InHand(p) /\ ~Due(p)
    BY DEF Pending, InHand, Due, DueNow
  <2>5. Fine(d, c, t)
    BY <2>3, <2>4 DEF Records, FileInv, StaleIsSeen
  <2> QED BY <2>3, <2>5 DEF Fine, InPlace, Backed
<1> QED BY <1>1, FilesStayRight, PTL DEF Spec
=============================================================================
