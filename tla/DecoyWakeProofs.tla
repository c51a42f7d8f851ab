-------------------------- MODULE DecoyWakeProofs --------------------------
(***************************************************************************)
(* No wake-up is lost: when nothing more will happen for a policy by       *)
(* itself, the annotations are as its spec wants them, or its status says  *)
(* that a command has failed.  A proof for every instance in which caches  *)
(* follow and events are as the code expects them, over restarts, failing  *)
(* commands, and containers that come, go and become ready in any order.   *)
(***************************************************************************)
EXTENDS DecoyReconcilerProofs

\* The worker hears of what matters to it: caches follow, putting the finalizer changes
\* the generation of a policy, labels of running pods stay, and pods stay while their
\* decoys are removed.
Heard == Env \cap {"lag", "canonical", "relabel", "poddelete"} = {}

-----------------------------------------------------------------------------
(* Events.                                                                 *)

\* An event of policy p is on its way, or one of a new pod.
Coming(p) == polEvent[p] \/ \E d \in Pods : Live(d) /\ cpod[d].phase = "unborn"

\* Another request for policy p is certain.
Due(p) == p \in queue \cup delayed \/ Coming(p)

\* Events are of changes that a cache does not show yet; the first one of a policy
\* makes it known.  Only the finalizer makes the stored spec canonical, and a policy
\* without it is gone when it is deleted.
PoliciesAgree ==
    \A p \in Policies :
       /\ polEvent[p] => ~polFresh[p]
       /\ policy[p].phase # "absent" /\ cpolicy[p].phase = "absent" => polEvent[p]
       /\ policy[p].phase = "live" /\ ~policy[p].fin => ~policy[p].canon
       /\ policy[p].phase = "deleting" => policy[p].fin

\* A cache knows no pod before it is created, and pods stay.
PodsAgree ==
    \A d \in Pods : /\ pod[d].phase # "gone"
                    /\ pod[d].phase = "unborn" => cpod[d].phase = "unborn"

-----------------------------------------------------------------------------
(* The request in progress.                                                *)

Working == pc # "idle"

\* What a request does fits what it has read first.
RequestFits ==
    /\ err \in {"none", "plain"}
    /\ Working =>
       /\ goal.phase # "absent" /\ (finalizing <=> goal.phase = "deleting")
       /\ finalizing => policy[cur].phase = "deleting"
       /\ goal.fin <=> pc # "adopt"
       /\ pc \in {"deploy", "status"} => ~finalizing
       /\ pc = "release" => finalizing

\* A policy that has changed since brings another request.
SamePolicy(o, q) == o.phase = q.phase /\ o.spec = q.spec /\ o.fin = q.fin /\ o.old = q.old
ChangesAreHeard ==
    Working => cur \in queue \cup delayed \/ polEvent[cur] \/ SamePolicy(goal, policy[cur])

\* The plan of a deployment has the wanted containers of each pod, unless the trap is
\* going to be tried again; a container is left out only when the trap is reported.
GivenUp(t) == res[t] \in {"fail", "retry"}
PlanFits ==
    pc = "deploy" => \A w \in work :
       /\ w.conts # {} /\ (GivenUp(w.trap) \/ w.conts = goal.spec.sel[w.trap])
       /\ \A v \in work : w.trap = v.trap /\ (w.pod = v.pod => w = v)
ItemFits ==
    pc = "deploy" /\ item # None => res[item.trap] = "fail" \/ item.conts \subseteq acc \cup left

\* What is recorded in the end are wanted traps.
Cleaned ==
    pc = "status" /\ err = "none" =>
       \A d \in Pods, t \in Traps : Live(d) /\ OnPod(d, cur)[t] # {} => t \in goal.spec.traps

\* Where a trap has been looked at, it is recorded in all containers that it selects,
\* or will be, unless the trap is reported or another pod has come.
Suits(d, t) == /\ Live(d) /\ pod[d].labelled /\ goal.spec.sel[t] # {}
               /\ goal.spec.mutate \/ d \notin goal.old
Deployed(d, t) == \/ goal.spec.sel[t] \subseteq OnPod(d, cur)[t]
                  \/ pc = "deploy" /\ \E w \in work : w.pod = d /\ w.trap = t
Deploying == pc = "deploy" \/ (pc = "status" /\ err = "none" /\ ~Blocked(goal.spec))
Tried ==
    Deploying /\ ~Due(cur) =>
       \A t \in goal.spec.traps \cap ValidTraps :
          (pc = "deploy" /\ t \in todo) \/ GivenUp(t) \/ \A d \in Pods : Suits(d, t) => Deployed(d, t)

-----------------------------------------------------------------------------
(* A policy for which nothing is due is as its user wants it.              *)

AtRest == \A p \in Policies : ~(Working /\ cur = p) /\ ~Due(p) => Settled(p)

WakeInv == /\ PoliciesAgree /\ PodsAgree /\ RequestFits /\ ChangesAreHeard
           /\ PlanFits /\ ItemFits /\ Cleaned /\ Tried /\ AtRest

\* What it is for.
LEMMA WakeMeans == Coherent /\ WakeInv => NothingForgotten
<1> SUFFICES ASSUME Coherent, WakeInv, NEW p \in Policies, Forgotten(p)
             PROVE  Settled(p)
  BY DEF NothingForgotten
<1>1. ~Due(p)
  BY DEF Due, Coming, Forgotten, WakeInv, PoliciesAgree, Coherent, Live
<1>2. cur # p
  BY DEF Forgotten
<1> QED BY <1>1, <1>2 DEF WakeInv, AtRest

-----------------------------------------------------------------------------
(* What steps do to policies.                                              *)

\* Policy p has been written, and its cached copy is out of date.
Written(p) == ~polFresh'[p] /\ cpolicy' = cpolicy /\ UNCHANGED <<pod, cpod, podFresh>>

\* Its user has changed it.
UserChange(p) ==
    /\ Written(p) /\ polEvent'[p] /\ UNCHANGED <<localVars, queueVars>>
    /\ policy[p].phase # "deleting"
    /\ policy'[p].phase = "deleting" => policy'[p].fin
    /\ policy'[p].phase = "live" /\ ~policy'[p].fin => ~policy'[p].canon

\* The cache has caught up with it.
CaughtUp(p) ==
    /\ policy'[p] = policy[p] /\ cpolicy'[p] = policy[p] /\ polFresh'[p] /\ ~polEvent'[p]
    /\ SyncPolicy(p) \/ Crash

\* The worker has written it.
Adopted(p) ==
    /\ PutFinalizer /\ p = cur /\ Written(p) /\ polEvent'[p]
    /\ policy'[p].phase = "live" /\ policy'[p].fin /\ cpolicy[p].phase = "live"
Released(p) ==
    /\ ReleasePolicy /\ p = cur /\ Written(p) /\ polEvent'[p] /\ policy'[p] = NoPolicy
StatusSet(p) ==
    /\ UpdateStatus /\ p = cur /\ Written(p) /\ polEvent'[p] = polEvent[p]
    /\ policy'[p] = [policy[p] EXCEPT !.status = NewStatus] /\ cpolicy[p].phase # "absent"

\* A user's step changes a policy in this way or not at all.
LEMMA UserChanges ==
    ASSUME Heard, TypeOK, PoliciesAgree, UserStep, NEW p \in Policies, ~UNCHANGED policy[p]
    PROVE  UserChange(p)
<1>1. /\ policy \in [Policies -> PolicyObject] /\ polFresh \in [Policies -> BOOLEAN]
      /\ polEvent \in [Policies -> BOOLEAN]
  BY DEF TypeOK, ObjectTypes
<1> DEFINE Good(o) == /\ o.phase = "deleting" => o.fin
                      /\ o.phase = "live" /\ ~o.fin => ~o.canon
<1>2. ASSUME NEW q \in Policies, NEW o, WritePolicy(q, o, TRUE), Good(o),
             policy[q].phase # "deleting", UNCHANGED <<pod, podFresh, cacheVars, localVars, queueVars>>
      PROVE  UserChange(p)
  <2>1. p = q
    BY <1>1, <1>2 DEF WritePolicy
  <2>2. policy'[q] = o /\ ~polFresh'[q] /\ polEvent'[q]
    BY <1>1, <1>2 DEF WritePolicy
  <2> QED BY <1>2, <2>1, <2>2 DEF UserChange, Written, cacheVars
<1>3. ASSUME NEW q \in Policies, NEW s \in Specs, EditPolicy(q, s) PROVE UserChange(p)
  <2>1. Good([policy[q] EXCEPT !.spec = s])
    BY <1>1, <1>3 DEF EditPolicy, PolicyObject, PoliciesAgree
  <2> HIDE DEF Good
  <2> QED BY <1>2, <1>3, <2>1 DEF EditPolicy
<1>4. ASSUME NEW q \in Policies, NEW s \in Specs, NEW b \in BOOLEAN, CreatePolicy(q, s, b)
      PROVE  UserChange(p)
  <2>1. ~b
    BY <1>4 DEF CreatePolicy, Heard
  <2> QED BY <1>2, <1>4, <2>1 DEF CreatePolicy
<1>5. ASSUME NEW q \in Policies, DeletePolicy(q) PROVE UserChange(p)
  <2>1. Good(NoPolicy) /\ (policy[q].fin => Good([policy[q] EXCEPT !.phase = "deleting"]))
    BY <1>1 DEF NoPolicy, PolicyObject
  <2> HIDE DEF Good
  <2> QED BY <1>2, <1>5, <2>1 DEF DeletePolicy
<1>6. (\E d \in Pods : LabelPod(d) \/ DeletePod(d) \/ \E b \in BOOLEAN : CreatePod(d, b))
        => UNCHANGED policy
  BY DEF CreatePod, LabelPod, DeletePod
<1> QED BY <1>3, <1>4, <1>5, <1>6 DEF UserStep

\* A policy stays as it is, or one of those steps changes it.
LEMMA PolicyKinds ==
    ASSUME Heard, TypeOK, Coherent, GuardInv, PoliciesAgree, RequestFits, [Next]_vars,
           NEW p \in Policies
    PROVE  \/ UNCHANGED <<policy[p], polFresh[p], polEvent[p], cpolicy[p]>>
           \/ CaughtUp(p) \/ UserChange(p) \/ Adopted(p) \/ Released(p) \/ StatusSet(p)
<1>1. /\ policy \in [Policies -> PolicyObject] /\ polFresh \in [Policies -> BOOLEAN]
      /\ polEvent \in [Policies -> BOOLEAN] /\ cpolicy \in [Policies -> PolicyObject]
      /\ (pc # "idle" => cur \in Policies)
  BY DEF TypeOK, ObjectTypes, RequestTypes
<1> DEFINE Same == UNCHANGED <<policy[p], polFresh[p], polEvent[p], cpolicy[p]>>
           Goal == \/ Same \/ CaughtUp(p) \/ UserChange(p)
                   \/ Adopted(p) \/ Released(p) \/ StatusSet(p)
<1>2. UNCHANGED <<policy, polFresh, polEvent, cpolicy>> => Same
  OBVIOUS
<1>3. ASSUME NEW q, NEW o, NEW e, WritePolicy(q, o, e), UNCHANGED <<pod, podFresh, cacheVars>>
      PROVE  \/ Same
             \/ /\ p = q /\ policy'[p] = o /\ Written(p)
                /\ (e => polEvent'[p]) /\ (~e => polEvent'[p] = polEvent[p])
  <2>1. CASE p # q
    BY <1>1, <1>3, <2>1 DEF WritePolicy, cacheVars
  <2>2. CASE p = q
    <3>1. policy'[p] = o /\ ~polFresh'[p] /\ polEvent'[p] = (polEvent[p] \/ e)
      BY <1>1, <1>3, <2>2 DEF WritePolicy
    <3>2. (e => polEvent'[p]) /\ (~e => polEvent'[p] = polEvent[p])
      BY <1>1, <3>1
    <3>3. Written(p)
      BY <1>3, <3>1 DEF Written, cacheVars
    <3> QED BY <2>2, <3>1, <3>2, <3>3
  <2> QED BY <2>1, <2>2
<1>4. CASE UserStep
  <2>1. CASE policy'[p] # policy[p]
    BY <1>4, <2>1, UserChanges
  <2>2. CASE policy'[p] = policy[p]
    <3>1. ASSUME NEW q \in Policies, NEW s \in Specs, EditPolicy(q, s) PROVE Goal
      <4>1. [policy[q] EXCEPT !.spec = s] # policy[q]
        BY <1>1, <3>1 DEF EditPolicy, PolicyObject
      <4> QED BY <1>3, <2>2, <3>1, <4>1 DEF EditPolicy
    <3>2. ASSUME NEW q \in Policies, NEW s \in Specs, NEW b \in BOOLEAN, CreatePolicy(q, s, b)
          PROVE  Goal
      <4> DEFINE o == [phase |-> "live", fin |-> FALSE, spec |-> s, canon |-> b,
                       old |-> {d \in Pods : pod[d].phase # "unborn"}, status |-> None]
      <4>1. o.phase = "live"
        OBVIOUS
      <4>2. WritePolicy(q, o, TRUE) /\ policy[q].phase = "absent"
            /\ UNCHANGED <<pod, podFresh, cacheVars>>
        BY <3>2 DEF CreatePolicy
      <4> HIDE DEF o
      <4> QED BY <1>3, <2>2, <4>1, <4>2
    <3>3. ASSUME NEW q \in Policies, DeletePolicy(q) PROVE Goal
      <4>1. NoPolicy # policy[q] /\ [policy[q] EXCEPT !.phase = "deleting"] # policy[q]
        BY <1>1, <3>3 DEF DeletePolicy, PolicyObject, NoPolicy
      <4> QED BY <1>3, <2>2, <3>3, <4>1 DEF DeletePolicy
    <3>4. (\E d \in Pods : LabelPod(d) \/ DeletePod(d) \/ \E b \in BOOLEAN : CreatePod(d, b))
            => Same
      BY DEF CreatePod, LabelPod, DeletePod, cacheVars
    <3> QED BY <1>4, <3>1, <3>2, <3>3, <3>4 DEF UserStep
  <2> QED BY <2>1, <2>2
<1>5. CASE Crash
  BY <1>1, <1>5 DEF Crash, CaughtUp
<1>6. ASSUME NEW q \in Policies, SyncPolicy(q) PROVE Goal
  BY <1>1, <1>6 DEF SyncPolicy, CaughtUp
<1>7. ASSUME PutFinalizer, ~Same PROVE Adopted(p)
  <2>1. /\ pc = "adopt" /\ cpolicy[cur].phase = "live" /\ ~cpolicy[cur].fin
        /\ cpolicy[cur] = policy[cur] /\ cur \in Policies
        /\ WritePolicy(cur, [cpolicy[cur] EXCEPT !.fin = TRUE, !.canon = TRUE], ~cpolicy[cur].canon)
        /\ UNCHANGED <<pod, podFresh, cacheVars>>
    BY <1>1, <1>7 DEF PutFinalizer, Coherent, cacheVars
  <2>2. ~cpolicy[cur].canon
    BY <2>1 DEF PoliciesAgree
  <2>3. /\ [cpolicy[cur] EXCEPT !.fin = TRUE, !.canon = TRUE].phase = "live"
        /\ [cpolicy[cur] EXCEPT !.fin = TRUE, !.canon = TRUE].fin
    BY <1>1, <2>1 DEF PolicyObject
  <2> QED BY <1>3, <1>7, <2>1, <2>2, <2>3 DEF Adopted
<1>8. ASSUME ReleasePolicy, ~Same PROVE Released(p)
  <2>1. /\ cpolicy[cur] = policy[cur] /\ cur \in Policies /\ pc = "release"
        /\ WritePolicy(cur, WithoutFinalizer(cpolicy[cur]), TRUE)
        /\ UNCHANGED <<pod, podFresh, cacheVars>>
    BY <1>1, <1>8 DEF ReleasePolicy, Coherent, cacheVars
  <2>2. policy[cur].phase = "deleting"
    BY <2>1 DEF RequestFits, Working
  <2> QED BY <1>3, <1>8, <2>1, <2>2 DEF Released, WithoutFinalizer
<1>9. ASSUME UpdateStatus, ~Same PROVE StatusSet(p)
  <2>1. /\ cpolicy[cur] = policy[cur] /\ cur \in Policies /\ cpolicy[cur].phase # "absent"
        /\ WritePolicy(cur, [cpolicy[cur] EXCEPT !.status = NewStatus], FALSE)
        /\ UNCHANGED <<pod, podFresh, cacheVars>>
    BY <1>1, <1>9 DEF UpdateStatus, Coherent, cacheVars
  <2> QED BY <1>3, <1>9, <2>1 DEF StatusSet
<1>10. \/ KubeletStep \/ UNCHANGED vars \/ (\E d \in Pods : SyncPod(d))
       \/ (\E q \in Policies : FireTimer(q) \/ Fetch(q))
       \/ (FaultStep /\ ~Crash)
       => Same
  BY DEF KubeletStep, Start, SyncPod, FireTimer, Fetch, FaultStep, Unready, RestartContainer,
         ExecFails, ExecHalfDone, vars, apiVars, cacheVars, freshVars
<1>11. WorkerStep /\ ~PutFinalizer /\ ~ReleasePolicy /\ ~UpdateStatus => Same
  BY DEF WorkerStep, PutFinalizerFails, ListAnnotated, StartItem, ExecOk, ExecUnreachable,
         SkipRecord, Annotate, AnnotateFails, AbortRemoval, FinishRemoval, ReleaseConflict,
         MatchTrap, FinishDeploy, UpdateStatusFails, apiVars, cacheVars, freshVars
<1> QED BY <1>4, <1>5, <1>6, <1>7, <1>8, <1>9, <1>10, <1>11 DEF Next, InformerStep

\* Every step keeps the agreement of policies, copies and events.
LEMMA PoliciesStep ==
    ASSUME Heard, TypeOK, Coherent, GuardInv, PoliciesAgree, RequestFits, [Next]_vars
    PROVE  PoliciesAgree'
<1> SUFFICES ASSUME NEW p \in Policies
             PROVE  /\ polEvent'[p] => ~polFresh'[p]
                    /\ policy'[p].phase # "absent" /\ cpolicy'[p].phase = "absent" => polEvent'[p]
                    /\ policy'[p].phase = "live" /\ ~policy'[p].fin => ~policy'[p].canon
                    /\ policy'[p].phase = "deleting" => policy'[p].fin
  BY DEF PoliciesAgree
<1>1. policy[p] \in PolicyObject
  BY DEF TypeOK, ObjectTypes
<1>2. CASE StatusSet(p)
  <2>1. /\ policy'[p].phase = policy[p].phase /\ policy'[p].fin = policy[p].fin
        /\ policy'[p].canon = policy[p].canon
    BY <1>1, <1>2 DEF StatusSet, PolicyObject
  <2> QED BY <1>2, <2>1 DEF StatusSet, Written, PoliciesAgree
<1>3. CASE Adopted(p) \/ Released(p) \/ UserChange(p)
  BY <1>3 DEF Adopted, Released, UserChange, Written, NoPolicy
<1>4. CASE CaughtUp(p)
  BY <1>4 DEF CaughtUp, PoliciesAgree
<1>5. CASE UNCHANGED <<policy[p], polFresh[p], polEvent[p], cpolicy[p]>>
  BY <1>5 DEF PoliciesAgree
<1> QED BY <1>2, <1>3, <1>4, <1>5, PolicyKinds

-----------------------------------------------------------------------------
(* What steps do to pods.                                                  *)

\* A pod is created and stays; its labels stay, and only the worker changes its
\* annotation, in the entry of the policy in progress.
PodKept(d) ==
    /\ pod'[d].phase = "live" /\ pod'[d].labelled = pod[d].labelled
    /\ \A p \in Policies : p # cur \/ ~Annotate => pod'[d].ann[p] = pod[d].ann[p]
PodBorn(d) ==
    /\ pod'[d].phase = "live" /\ pod'[d].ann = NoAnnotation
    /\ cpod' = cpod /\ UNCHANGED <<localVars, queueVars, policy, polEvent>>

\* A pod is created once and kept.
LEMMA PodKinds ==
    ASSUME Heard, TypeOK, Coherent, [Next]_vars, NEW d \in Pods
    PROVE  /\ pod[d].phase = "unborn" => UNCHANGED pod[d] \/ PodBorn(d)
           /\ Live(d) => PodKept(d)
<1>1. pod \in [Pods -> PodObject]
  BY DEF TypeOK, ObjectTypes
<1>2. CASE UNCHANGED pod
  BY <1>2 DEF PodKept, Live
<1>3. CASE Annotate
  <2>1. item.pod \in Pods /\ OnlyItsEntry(item.pod) /\ \A e \in Pods : e # item.pod => pod'[e] = pod[e]
    BY <1>3, AnnotateFrame
  <2>2. pod[item.pod].phase = "live"
    BY <1>3 DEF Annotate
  <2>3. CASE d = item.pod
    <3>1. pod'[d] = [pod[d] EXCEPT !.ann = pod'[d].ann]
      BY <2>1, <2>3 DEF OnlyItsEntry
    <3>2. pod'[d].phase = pod[d].phase /\ pod'[d].labelled = pod[d].labelled
      BY <1>1, <3>1 DEF PodObject
    <3> QED BY <1>3, <2>1, <2>2, <2>3, <3>2 DEF OnlyItsEntry, PodKept
  <2> QED BY <2>1, <2>3 DEF PodKept, Live
<1>4. ASSUME NEW e \in Pods, NEW b \in BOOLEAN, CreatePod(e, b)
      PROVE  /\ pod[d].phase = "unborn" => UNCHANGED pod[d] \/ PodBorn(d)
             /\ Live(d) => PodKept(d)
  <2> DEFINE o == [NoPod EXCEPT !.phase = "live", !.labelled = b]
  <2>1. o.phase = "live" /\ o.ann = NoAnnotation
    BY DEF NoPod
  <2>2. WritePod(e, o) /\ pod[e].phase = "unborn"
        /\ cpod' = cpod /\ UNCHANGED <<localVars, queueVars, policy, polEvent>>
    BY <1>4 DEF CreatePod, cacheVars
  <2> HIDE DEF o
  <2>3. pod'[d] = IF d = e THEN o ELSE pod[d]
    BY <1>1, <2>2 DEF WritePod
  <2> QED BY <2>1, <2>2, <2>3 DEF PodBorn, PodKept, Live
<1>5. ASSUME NEW e \in Pods, LabelPod(e) \/ DeletePod(e) PROVE FALSE
  BY <1>5 DEF LabelPod, DeletePod, Heard
<1>6. ASSUME NEW e \in Pods, KubeletWrite(e)
      PROVE  /\ pod[d].phase = "unborn" => UNCHANGED pod[d] \/ PodBorn(d)
             /\ Live(d) => PodKept(d)
  <2>1. PICK c \in Containers : Start(e, c) \/ Unready(e, c) \/ RestartContainer(e, c)
    BY <1>6 DEF KubeletWrite
  <2>2. \A s : /\ [pod[e] EXCEPT !.run[c] = s].ann = pod[e].ann
               /\ [pod[e] EXCEPT !.run[c] = s].phase = pod[e].phase
               /\ [pod[e] EXCEPT !.run[c] = s].labelled = pod[e].labelled
    BY <1>1 DEF PodObject
  <2>3. /\ \E s : pod' = [pod EXCEPT ![e] = [pod[e] EXCEPT !.run[c] = s]]
        /\ pod[e].phase = "live"
    BY <2>1 DEF Start, Unready, RestartContainer, WritePod
  <2>4. /\ d # e => pod'[d] = pod[d]
        /\ pod'[e].ann = pod[e].ann /\ pod'[e].phase = "live" /\ pod'[e].labelled = pod[e].labelled
    BY <1>1, <2>2, <2>3
  <2> QED BY <2>3, <2>4 DEF PodKept, Live
<1>7. UNCHANGED vars => UNCHANGED pod
  BY DEF vars, apiVars
<1> QED BY <1>2, <1>3, <1>4, <1>5, <1>6, <1>7, PodWriters

\* The cache of pods.
LEMMA PodCaches ==
    ASSUME TypeOK, [Next]_vars, NEW d \in Pods
    PROVE  \/ cpod'[d] = cpod[d]
           \/ UNCHANGED pod /\ cpod'[d] = pod[d] /\ (SyncPod(d) \/ Crash)
<1>1. cpod \in [Pods -> PodObject]
  BY DEF TypeOK, ObjectTypes
<1>2. ASSUME NEW e \in Pods, SyncPod(e) PROVE cpod'[d] = cpod[d] \/ (UNCHANGED pod /\ cpod'[d] = pod[d] /\ e = d)
  BY <1>1, <1>2 DEF SyncPod, apiVars
<1>3. CASE Crash
  BY <1>3 DEF Crash
<1>4. UserStep \/ KubeletStep \/ (\E p \in Policies : SyncPolicy(p) \/ FireTimer(p) \/ Fetch(p))
      \/ (FaultStep /\ ~Crash) \/ UNCHANGED vars
      => cpod' = cpod
  BY DEF UserStep, EditPolicy, CreatePolicy, DeletePolicy, CreatePod, LabelPod, DeletePod,
         KubeletStep, Start, SyncPolicy, FireTimer, Fetch, FaultStep, Unready, RestartContainer,
         ExecFails, ExecHalfDone, vars, cacheVars
<1>5. WorkerStep => cpod' = cpod
  BY DEF WorkerStep, PutFinalizer, PutFinalizerFails, ListAnnotated, StartItem, ExecOk,
         ExecUnreachable, SkipRecord, Annotate, AnnotateFails, AbortRemoval, FinishRemoval,
         ReleasePolicy, ReleaseConflict, MatchTrap, FinishDeploy, UpdateStatus,
         UpdateStatusFails, cacheVars
<1> QED BY <1>2, <1>3, <1>4, <1>5 DEF Next, InformerStep

\* Pods come, and the cache comes after them.
LEMMA PodsStep ==
    ASSUME Heard, TypeOK, Coherent, PodsAgree, [Next]_vars
    PROVE  PodsAgree'
<1> SUFFICES ASSUME NEW d \in Pods
             PROVE  /\ pod'[d].phase # "gone"
                    /\ pod'[d].phase = "unborn" => cpod'[d].phase = "unborn"
  BY DEF PodsAgree
<1>1. pod[d].phase \in {"unborn", "live"}
  BY DEF TypeOK, ObjectTypes, PodObject, PodsAgree
<1> QED BY <1>1, PodKinds, PodCaches DEF PodsAgree, PodKept, PodBorn, Live

-----------------------------------------------------------------------------
(* Requests and events.                                                    *)

\* Only Fetch takes a request from the queue.
LEMMA QueueStays ==
    ASSUME [Next]_vars, NEW p \in Policies, ~Fetch(p), ~Crash, p \in queue \cup delayed
    PROVE  p \in queue' \cup delayed'
<1>1. ASSUME NEW q \in Policies, Fetch(q) PROVE p \in queue' \cup delayed'
  BY <1>1 DEF Fetch
<1>2. UserStep \/ KubeletStep \/ (FaultStep /\ ~Crash) \/ UNCHANGED vars => UNCHANGED queueVars
  BY DEF UserStep, EditPolicy, CreatePolicy, DeletePolicy, CreatePod, LabelPod, DeletePod,
         KubeletStep, Start, FaultStep, Unready, RestartContainer, ExecFails, ExecHalfDone, vars
<1>3. (\E q \in Policies : SyncPolicy(q) \/ FireTimer(q)) \/ (\E d \in Pods : SyncPod(d))
        => queue \cup delayed \subseteq queue' \cup delayed'
  BY DEF SyncPolicy, SyncPod, FireTimer
<1>4. WorkerStep => queue' = queue /\ delayed \subseteq delayed'
  BY DEF WorkerStep, PutFinalizer, PutFinalizerFails, ListAnnotated, StartItem, ExecOk,
         ExecUnreachable, SkipRecord, Annotate, AnnotateFails, AbortRemoval, FinishRemoval,
         ReleasePolicy, ReleaseConflict, MatchTrap, FinishDeploy, UpdateStatus,
         UpdateStatusFails, Return, queueVars
<1> QED BY <1>1, <1>2, <1>3, <1>4 DEF Next, InformerStep, queueVars

\* An event of a policy becomes a request.
LEMMA EventStays ==
    ASSUME Heard, TypeOK, Coherent, GuardInv, PoliciesAgree, RequestFits, [Next]_vars,
           NEW p \in Policies, polEvent[p], ~Crash
    PROVE  polEvent'[p] \/ p \in queue'
<1>1. CASE CaughtUp(p)
  BY <1>1 DEF CaughtUp, SyncPolicy
<1> QED BY <1>1, PolicyKinds DEF UserChange, Adopted, Released, StatusSet

\* The policy is gone and no request for it is on its way.
NotExpected(p) == policy[p].phase = "absent" /\ p \notin queue \cup delayed /\ ~polEvent[p]

\* What is due stays due until it is fetched, unless the policy is gone.
LEMMA DueStays ==
    ASSUME Heard, TypeOK, Coherent, GuardInv, PoliciesAgree, PodsAgree, RequestFits, [Next]_vars,
           NEW p \in Policies, Due(p), ~Fetch(p)
    PROVE  Due(p)' \/ (policy'[p].phase = "absent" /\ (Crash \/ NotExpected(p)))
<1>1. CASE Crash
  BY <1>1 DEF Crash, Due
<1>2. CASE ~Crash /\ p \in queue \cup delayed
  BY <1>2, QueueStays DEF Due
<1>3. CASE ~Crash /\ polEvent[p]
  BY <1>3, EventStays DEF Due, Coming
<1>4. ASSUME ~Crash, p \notin queue \cup delayed, ~polEvent[p],
             NEW d \in Pods, Live(d), cpod[d].phase = "unborn"
      PROVE  Due(p)' \/ (policy'[p].phase = "absent" /\ NotExpected(p))
  <2>1. Live(d)'
    BY <1>4, PodKinds DEF PodKept, Live
  <2>2. CASE cpod'[d] = cpod[d]
    BY <1>4, <2>1, <2>2 DEF Due, Coming, Live
  <2>3. CASE SyncPod(d)
    <3>1. /\ queue' = queue \cup {q \in Policies : cpolicy[q].phase # "absent"}
          /\ policy' = policy
      BY <1>4, <2>3 DEF SyncPod, Live, apiVars
    <3>2. cpolicy[p].phase = "absent" => policy[p].phase = "absent"
      BY <1>4 DEF PoliciesAgree
    <3> QED BY <1>4, <3>1, <3>2 DEF Due, NotExpected
  <2> QED BY <1>4, <2>2, <2>3, PodCaches
<1> QED BY <1>1, <1>2, <1>3, <1>4 DEF Due, Coming

-----------------------------------------------------------------------------
(* The request in progress.                                                *)

\* A step of a request, which goes on, begins or ends.
LEMMA RequestKinds ==
    ASSUME [Next]_vars
    PROVE  \/ UNCHANGED localVars
           \/ pc' = "idle"
           \/ \E p \in Policies : Fetch(p)
           \/ Working /\ UNCHANGED <<cur, goal, finalizing>>
<1>1. UserStep \/ KubeletStep \/ InformerStep \/ (\E p \in Policies : FireTimer(p)) \/ UNCHANGED vars
      \/ (\E d \in Pods, c \in Containers : Unready(d, c) \/ RestartContainer(d, c))
      => UNCHANGED localVars
  BY DEF UserStep, EditPolicy, CreatePolicy, DeletePolicy, CreatePod, LabelPod, DeletePod,
         KubeletStep, Start, InformerStep, SyncPolicy, SyncPod, FireTimer, Unready,
         RestartContainer, vars
<1>2. \/ PutFinalizer \/ PutFinalizerFails \/ ReleaseConflict \/ ReleasePolicy \/ UpdateStatus
      \/ UpdateStatusFails \/ Crash \/ (AbortRemoval /\ finalizing)
      => pc' = "idle"
  BY DEF PutFinalizer, PutFinalizerFails, ReleaseConflict, ReleasePolicy, UpdateStatus,
         UpdateStatusFails, Crash, AbortRemoval, Return, ForgetRequest
<1>3. \/ ListAnnotated \/ FinishRemoval \/ FinishDeploy \/ (\E t \in Traps : MatchTrap(t))
      \/ (AbortRemoval /\ ~finalizing) \/ (\E w \in work : StartItem(w))
      => Working /\ UNCHANGED <<cur, goal, finalizing>>
  BY DEF ListAnnotated, FinishRemoval, FinishDeploy, MatchTrap, AbortRemoval, StartItem, Working
<1>4. \/ SkipRecord \/ Annotate \/ AnnotateFails
      \/ (\E c \in Containers : ExecOk(c) \/ ExecUnreachable(c) \/ ExecFails(c) \/ ExecHalfDone(c))
      => item # None /\ UNCHANGED <<pc, cur, goal, finalizing>>
  BY DEF SkipRecord, Annotate, AnnotateFails, MustRecord, ExecOk, ExecUnreachable, ExecFails,
         ExecHalfDone
<1> QED BY <1>1, <1>2, <1>3, <1>4 DEF Next, FaultStep, WorkerStep, localVars, Working

\* A request begins with what is in the API server.
LEMMA FetchReads ==
    ASSUME Heard, Coherent, NEW p \in Policies, Fetch(p)
    PROVE  /\ pc = "idle" /\ UNCHANGED <<policy, pod, cpod, polEvent, delayed>>
           /\ \/ UNCHANGED localVars /\ (policy[p].phase = "absent"
                                         \/ (policy[p].phase = "deleting" /\ ~policy[p].fin))
              \/ /\ cur' = p /\ goal' = policy[p] /\ finalizing' = (policy[p].phase = "deleting")
                 /\ policy[p].phase # "absent" /\ pc' = IF policy[p].fin THEN "list" ELSE "adopt"
                 /\ UNCHANGED <<todo, work, item, left, acc, err, res>>
<1>1. cpolicy[p] = policy[p]
  BY DEF Fetch, CanReadPolicy, Lagging, Heard, Coherent
<1> QED BY <1>1 DEF Fetch, apiVars, cacheVars

\* The policy of the request changes only with an event.
LEMMA ChangesStep ==
    ASSUME Heard, TypeOK, Coherent, GuardInv, PoliciesAgree, RequestFits, ChangesAreHeard,
           [Next]_vars
    PROVE  ChangesAreHeard'
<1> SUFFICES ASSUME pc' # "idle"
             PROVE  cur' \in queue' \cup delayed' \/ polEvent'[cur'] \/ SamePolicy(goal', policy'[cur'])
  BY DEF ChangesAreHeard, Working
<1>1. ASSUME pc # "idle", UNCHANGED <<cur, goal>>
      PROVE  cur \in queue' \cup delayed' \/ polEvent'[cur] \/ SamePolicy(goal, policy'[cur])
  <2>1. cur \in Policies
    BY <1>1 DEF TypeOK, RequestTypes
  <2> SUFFICES ASSUME NEW p \in Policies, p = cur
               PROVE  p \in queue' \cup delayed' \/ polEvent'[p] \/ SamePolicy(goal, policy'[p])
    BY <2>1
  <2>2. policy[p] \in PolicyObject /\ ~Crash /\ ~Fetch(p)
    BY <1>1 DEF TypeOK, ObjectTypes, Crash, ForgetRequest, Fetch
  <2>3. CASE SamePolicy(goal, policy[p])
    <3>1. CASE StatusSet(p)
      <4>1. SamePolicy(policy[p], policy'[p])
        BY <2>2, <3>1 DEF StatusSet, SamePolicy, PolicyObject
      <4> QED BY <2>3, <4>1 DEF SamePolicy
    <3>2. CASE policy'[p] = policy[p]
      BY <2>3, <3>2
    <3> QED BY <3>1, <3>2, PolicyKinds DEF CaughtUp, UserChange, Adopted, Released
  <2>4. CASE p \in queue \cup delayed
    BY <2>2, <2>4, QueueStays
  <2>5. CASE polEvent[p]
    BY <2>2, <2>5, EventStays
  <2> QED BY <1>1, <2>3, <2>4, <2>5 DEF ChangesAreHeard, Working
<1>2. ASSUME NEW p \in Policies, Fetch(p), ~UNCHANGED localVars
      PROVE  SamePolicy(goal', policy'[cur'])
  BY <1>2, FetchReads DEF SamePolicy
<1>3. UNCHANGED localVars => UNCHANGED <<pc, cur, goal>>
  BY DEF localVars
<1> QED BY <1>1, <1>2, <1>3, RequestKinds DEF Working

\* Errors are plain: pods do not vanish and no write meets a conflict.
LEMMA ErrorStep ==
    ASSUME Heard, TypeOK, GuardInv, PodsAgree, RequestFits, [Next]_vars
    PROVE  err' \in {"none", "plain"}
<1>1. err \in {"none", "plain"}
  BY DEF RequestFits
<1>2. ASSUME pc = "remove", item # None PROVE pod[item.pod].phase = "live"
  <2>1. item \in work /\ item.pod \in Pods
    BY <1>2, ItemType DEF WorkItem
  <2> QED BY <1>2, <2>1 DEF GuardInv, ListAgrees, PodsAgree, TypeOK, ObjectTypes, PodObject
<1>3. ASSUME NEW c \in Containers, ExecOk(c) \/ ExecUnreachable(c) \/ ExecFails(c) \/ ExecHalfDone(c)
      PROVE  err' \in {"none", "plain"}
  <2>1. item # None /\ pc \in {"remove", "deploy"}
    BY <1>3, ItemType DEF ExecOk, ExecUnreachable, ExecFails, ExecHalfDone
  <2> QED BY <1>1, <1>2, <1>3, <2>1 DEF ExecOk, ExecUnreachable, ExecFails, ExecHalfDone, Raise, JoinErr
<1>4. CASE AnnotateFails
  <2>1. item # None /\ pc \in {"remove", "deploy"}
    BY <1>4, ItemType DEF AnnotateFails, MustRecord
  <2> QED BY <1>1, <1>2, <1>4, <2>1 DEF AnnotateFails, Raise, JoinErr, Lagging, Heard
<1>5. UserStep \/ KubeletStep \/ InformerStep \/ (\E p \in Policies : FireTimer(p)) \/ UNCHANGED vars
      \/ (\E d \in Pods, c \in Containers : Unready(d, c) \/ RestartContainer(d, c))
      => UNCHANGED localVars
  BY DEF UserStep, EditPolicy, CreatePolicy, DeletePolicy, CreatePod, LabelPod, DeletePod,
         KubeletStep, Start, InformerStep, SyncPolicy, SyncPod, FireTimer, Unready,
         RestartContainer, vars
<1>6. \/ PutFinalizer \/ PutFinalizerFails \/ ReleaseConflict \/ ReleasePolicy \/ UpdateStatus
      \/ UpdateStatusFails \/ Crash \/ AbortRemoval \/ (\E p \in Policies : Fetch(p))
      \/ ListAnnotated \/ FinishRemoval \/ FinishDeploy \/ (\E t \in Traps : MatchTrap(t))
      \/ (\E w \in work : StartItem(w)) \/ SkipRecord \/ Annotate
      => err' \in {err, "none"}
  BY DEF PutFinalizer, PutFinalizerFails, ReleaseConflict, ReleasePolicy, UpdateStatus,
         UpdateStatusFails, Crash, AbortRemoval, Return, ForgetRequest, Fetch, ListAnnotated,
         FinishRemoval, FinishDeploy, MatchTrap, StartItem, SkipRecord, Annotate, localVars
<1> QED BY <1>1, <1>3, <1>4, <1>5, <1>6 DEF Next, FaultStep, WorkerStep, localVars

\* The course of a request.
LEMMA RequestStep ==
    ASSUME Heard, TypeOK, Coherent, GuardInv, PoliciesAgree, PodsAgree, RequestFits, [Next]_vars
    PROVE  RequestFits'
<1> SUFFICES ASSUME pc' # "idle"
             PROVE  /\ goal'.phase # "absent" /\ (finalizing' <=> goal'.phase = "deleting")
                    /\ finalizing' => policy'[cur'].phase = "deleting"
                    /\ goal'.fin <=> pc' # "adopt"
                    /\ pc' \in {"deploy", "status"} => ~finalizing'
                    /\ pc' = "release" => finalizing'
  BY ErrorStep DEF RequestFits, Working
<1>1. ASSUME pc # "idle", UNCHANGED <<cur, goal, finalizing>>
      PROVE  /\ goal.phase # "absent" /\ (finalizing <=> goal.phase = "deleting")
             /\ finalizing => policy'[cur].phase = "deleting"
             /\ goal.fin <=> pc # "adopt"
  <2>1. cur \in Policies
    BY <1>1 DEF TypeOK, RequestTypes
  <2>2. ASSUME NEW p \in Policies, p = cur, policy[p].phase = "deleting"
        PROVE  policy'[p].phase = "deleting"
    <3>1. policy[p] \in PolicyObject
      BY DEF TypeOK, ObjectTypes
    <3>2. CASE StatusSet(p)
      BY <2>2, <3>1, <3>2 DEF StatusSet, PolicyObject
    <3>3. ~Adopted(p) /\ ~Released(p)
      BY <1>1, <2>2 DEF Adopted, Released, PutFinalizer, ReleasePolicy, Return, ForgetRequest
    <3> QED BY <2>2, <3>2, <3>3, PolicyKinds DEF CaughtUp, UserChange
  <2> QED BY <1>1, <2>1, <2>2 DEF RequestFits, Working
<1>2. ASSUME NEW p \in Policies, Fetch(p), ~UNCHANGED localVars
      PROVE  /\ goal'.phase # "absent" /\ (finalizing' <=> goal'.phase = "deleting")
             /\ finalizing' => policy'[cur'].phase = "deleting"
             /\ goal'.fin <=> pc' # "adopt"
             /\ pc' \notin {"deploy", "status", "release"}
  BY <1>2, FetchReads
<1> DEFINE Onwards ==
             \/ pc' = pc
             \/ pc # "adopt" /\ pc' = "status" /\ ~finalizing
             \/ pc = "list" /\ pc' = "remove"
             \/ pc = "remove" /\ pc' = "release" /\ finalizing
             \/ pc = "remove" /\ pc' = "deploy" /\ ~finalizing
<1>3. ASSUME pc # "idle", UNCHANGED <<cur, goal, finalizing>>
      PROVE  Onwards
  <2>1. pc = "deploy" => ~finalizing
    BY <1>3 DEF RequestFits, Working
  <2>2. UserStep \/ KubeletStep \/ InformerStep \/ (\E p \in Policies : FireTimer(p)) \/ UNCHANGED vars
        \/ (FaultStep /\ ~Crash) => Onwards
    BY DEF UserStep, EditPolicy, CreatePolicy, DeletePolicy, CreatePod, LabelPod, DeletePod,
           KubeletStep, Start, InformerStep, SyncPolicy, SyncPod, FireTimer, FaultStep, Unready,
           RestartContainer, ExecFails, ExecHalfDone, vars, localVars
  <2>3. \/ PutFinalizer \/ PutFinalizerFails \/ ReleaseConflict \/ ReleasePolicy \/ UpdateStatus
        \/ UpdateStatusFails \/ Crash \/ (AbortRemoval /\ finalizing)
        => pc' = "idle"
    BY DEF PutFinalizer, PutFinalizerFails, ReleaseConflict, ReleasePolicy, UpdateStatus,
           UpdateStatusFails, Crash, AbortRemoval, Return, ForgetRequest
  <2>4. \/ SkipRecord \/ Annotate \/ AnnotateFails \/ (\E t \in Traps : MatchTrap(t))
        \/ (\E w \in work : StartItem(w)) \/ (\E c \in Containers : ExecOk(c) \/ ExecUnreachable(c))
        => Onwards
    BY DEF SkipRecord, Annotate, AnnotateFails, MatchTrap, StartItem, ExecOk, ExecUnreachable
  <2>5. (\E p \in Policies : Fetch(p)) => pc = "idle"
    BY DEF Fetch
  <2>6. FinishDeploy => Onwards
    BY <2>1 DEF FinishDeploy
  <2>7. FinishRemoval => Onwards
    BY DEF FinishRemoval
  <2>8. (AbortRemoval /\ ~finalizing) \/ ListAnnotated => Onwards
    BY DEF AbortRemoval, ListAnnotated
  <2> HIDE DEF Onwards
  <2>9. CASE WorkerStep
    BY <1>3, <2>3, <2>4, <2>6, <2>7, <2>8, <2>9 DEF WorkerStep
  <2>10. CASE \E p \in Policies : FireTimer(p) \/ Fetch(p)
    BY <1>3, <2>2, <2>5, <2>10
  <2> QED BY <2>2, <2>3, <2>9, <2>10 DEF Next
<1>4. UNCHANGED localVars => UNCHANGED <<pc, cur, goal, finalizing>>
  BY DEF localVars
<1>5. CASE pc # "idle" /\ UNCHANGED <<cur, goal, finalizing>>
  BY <1>1, <1>3, <1>5 DEF RequestFits, Working
<1> QED BY <1>2, <1>4, <1>5, RequestKinds DEF Working

-----------------------------------------------------------------------------
(* The plan of a deployment.                                               *)

\* The steps that a request takes to its end, one turn after the other, inside a turn.
Returns == \/ PutFinalizer \/ PutFinalizerFails \/ ReleaseConflict \/ ReleasePolicy
           \/ UpdateStatus \/ UpdateStatusFails \/ Crash \/ (AbortRemoval /\ finalizing)
Turns == \/ ListAnnotated \/ FinishRemoval \/ FinishDeploy \/ (AbortRemoval /\ ~finalizing)
         \/ (\E t \in Traps : MatchTrap(t)) \/ (\E w \in work : StartItem(w))
Executes == \E c \in Containers : ExecOk(c) \/ ExecUnreachable(c) \/ ExecFails(c) \/ ExecHalfDone(c)
Records == SkipRecord \/ Annotate \/ AnnotateFails

\* There are no other steps that touch a request.
LEMMA StepKinds ==
    ASSUME [Next]_vars
    PROVE  UNCHANGED localVars \/ (\E p \in Policies : Fetch(p)) \/ Returns \/ Turns \/ Executes \/ Records
<1>1. UserStep \/ KubeletStep \/ InformerStep \/ (\E p \in Policies : FireTimer(p)) \/ UNCHANGED vars
      \/ (\E d \in Pods, c \in Containers : Unready(d, c) \/ RestartContainer(d, c))
      => UNCHANGED localVars
  BY DEF UserStep, EditPolicy, CreatePolicy, DeletePolicy, CreatePod, LabelPod, DeletePod,
         KubeletStep, Start, InformerStep, SyncPolicy, SyncPod, FireTimer, Unready,
         RestartContainer, vars
<1> QED BY <1>1 DEF Next, FaultStep, WorkerStep, Returns, Turns, Executes, Records

\* What they do not touch.
LEMMA ReturnsEnd == Returns => pc' = "idle"
BY DEF Returns, PutFinalizer, PutFinalizerFails, ReleaseConflict, ReleasePolicy, UpdateStatus,
       UpdateStatusFails, Crash, AbortRemoval, Return, ForgetRequest

\* A command changes no object of the API server, and a failing one marks its trap.
LEMMA ExecutesKeep ==
    ASSUME TypeOK, Executes
    PROVE  /\ item # None /\ item \in work /\ item.trap \in Traps /\ pc \in {"remove", "deploy"}
           /\ UNCHANGED <<pc, cur, goal, finalizing, todo, work, item, pod, cpod, podFresh,
                          policy, queue, delayed, polEvent>>
           /\ pc = "deploy" => \/ left' \cup acc' = left \cup acc /\ res' = res
                               \/ res' = [res EXCEPT ![item.trap] = "fail"]
           /\ pc = "remove" => res' = res
<1>1. PICK c \in Containers : ExecOk(c) \/ ExecUnreachable(c) \/ ExecFails(c) \/ ExecHalfDone(c)
  BY DEF Executes
<1>2. item # None
  BY <1>1 DEF ExecOk, ExecUnreachable, ExecFails, ExecHalfDone
<1>3. item \in work /\ item.trap \in Traps /\ pc \in {"remove", "deploy"}
  BY <1>2, ItemType DEF WorkItem
<1> QED BY <1>1, <1>2, <1>3 DEF ExecOk, ExecUnreachable, ExecFails, ExecHalfDone, Raise, apiVars,
       cacheVars, freshVars, queueVars

\* Recording an item ends it.
LEMMA RecordsKeep ==
    ASSUME TypeOK, Records
    PROVE  /\ item # None /\ item \in work /\ item.trap \in Traps /\ pc \in {"remove", "deploy"}
           /\ item' = None /\ work' = work \ {item}
           /\ UNCHANGED <<pc, cur, goal, finalizing, todo, cpod, policy, queue, delayed, polEvent>>
           /\ res' \in {res, [res EXCEPT ![item.trap] = "fail"]}
<1>1. item # None
  BY DEF Records, SkipRecord, Annotate, AnnotateFails, MustRecord
<1>2. item \in work /\ item.trap \in Traps /\ pc \in {"remove", "deploy"}
  BY <1>1, ItemType DEF WorkItem
<1> QED BY <1>1, <1>2 DEF Records, SkipRecord, Annotate, AnnotateFails, NextItem, Raise, apiVars,
       cacheVars, queueVars

\* The specs of requests.
LEMMA GoalSpec ==
    ASSUME SpecsAreUsers, Working
    PROVE  /\ goal.spec.traps \subseteq Traps
           /\ \A t \in Traps : goal.spec.sel[t] \subseteq Containers
BY SpecsAssumption DEF SpecsAreUsers, Working, DeceptionPolicySpec

\* A deployment leaves out the containers that are not ready, and then asks to be
\* called again.
LEMMA PlanMatch ==
    ASSUME TypeOK, SpecsAreUsers, NEW t \in Traps, MatchTrap(t)
    PROVE  PlanFits'
<1>1. /\ pc = "deploy" /\ goal' = goal /\ res' = [res EXCEPT ![t] = Outcome(t)]
      /\ work' = {w \in WorkItem : /\ w.trap = t /\ w.pod \in Matched(t)
                                   /\ w.conts = Deployable(w.pod, t) /\ w.conts # {}
                                   /\ w.already = cpod[w.pod].ann[cur][t]}
  BY DEF MatchTrap
<1> SUFFICES ASSUME NEW w \in work'
             PROVE  /\ w.conts # {} /\ (GivenUp(w.trap)' \/ w.conts = goal.spec.sel[w.trap])
                    /\ \A v \in work' : w.trap = v.trap /\ (w.pod = v.pod => w = v)
  BY <1>1 DEF PlanFits
<1>2. w \in WorkItem /\ w.trap = t /\ w.pod \in Matched(t) /\ w.conts = Deployable(w.pod, t) /\ w.conts # {}
  BY <1>1
<1>3. \A v \in work' : w.trap = v.trap /\ (w.pod = v.pod => w = v)
  BY <1>1, <1>2 DEF WorkItem
<1>4. res'[t] = Outcome(t)
  BY <1>1 DEF TypeOK, RequestTypes
<1>5. CASE Outcome(t) = "ok"
  <2>1. \A c \in Containers : cpod[w.pod].run[c] = "ready"
    BY <1>2, <1>5 DEF Outcome
  <2>2. w.conts = goal.spec.sel[t]
    BY <1>1, <1>2, <2>1, GoalSpec DEF Deployable, Working
  <2> QED BY <1>2, <1>3, <2>2
<1>6. CASE Outcome(t) = "retry"
  BY <1>2, <1>3, <1>4, <1>6 DEF GivenUp
<1> QED BY <1>2, <1>5, <1>6 DEF Outcome

\* The plan is worked off, and an error is reported.
LEMMA PlanStep ==
    ASSUME TypeOK, SpecsAreUsers, PlanFits, ItemFits, [Next]_vars
    PROVE  PlanFits' /\ ItemFits'
<1>1. CASE UNCHANGED localVars
  BY <1>1 DEF PlanFits, ItemFits, GivenUp, localVars
<1>2. pc' # "deploy" => PlanFits' /\ ItemFits'
  BY DEF PlanFits, ItemFits
<1>3. CASE Returns \/ (\E p \in Policies : Fetch(p)) \/ ListAnnotated \/ FinishDeploy \/ (AbortRemoval /\ ~finalizing)
  BY <1>1, <1>2, <1>3, ReturnsEnd DEF Fetch, ListAnnotated, FinishDeploy, AbortRemoval
<1>4. res \in [Traps -> Results]
  BY DEF TypeOK, RequestTypes
<1>5. CASE Executes
  <2>1. \A t \in Traps : GivenUp(t) => GivenUp(t)'
    BY <1>4, <1>5, ExecutesKeep DEF GivenUp
  <2>2. \A w \in work : w.trap \in Traps
    BY DEF TypeOK, ItemTypes, WorkItem
  <2>3. PlanFits'
    BY <1>5, <2>1, <2>2, ExecutesKeep DEF PlanFits
  <2>4. ItemFits'
    BY <1>4, <1>5, ExecutesKeep DEF ItemFits
  <2> QED BY <2>3, <2>4
<1>6. CASE Records
  <2>1. \A t \in Traps : GivenUp(t) => GivenUp(t)'
    BY <1>4, <1>6, RecordsKeep DEF GivenUp
  <2>2. \A w \in work : w.trap \in Traps
    BY DEF TypeOK, ItemTypes, WorkItem
  <2>3. PlanFits'
    BY <1>6, <2>1, <2>2, RecordsKeep DEF PlanFits
  <2> QED BY <1>6, <2>3, RecordsKeep DEF ItemFits
<1>7. CASE FinishRemoval
  BY <1>7 DEF FinishRemoval, PlanFits, ItemFits
<1>8. ASSUME NEW w \in work, StartItem(w) PROVE PlanFits' /\ ItemFits'
  <2>1. UNCHANGED <<pc, goal, work, res>> /\ item' = w /\ w.conts \subseteq acc' \cup left'
    BY <1>8 DEF StartItem
  <2> QED BY <2>1 DEF PlanFits, ItemFits, GivenUp
<1>9. ASSUME NEW t \in Traps, MatchTrap(t) PROVE PlanFits' /\ ItemFits'
  <2>1. item' = None
    BY <1>9 DEF MatchTrap, TypeOK, ItemTypes
  <2> QED BY <1>9, <2>1, PlanMatch DEF ItemFits
<1> QED BY <1>1, <1>3, <1>5, <1>6, <1>7, <1>8, <1>9, StepKinds DEF Turns

-----------------------------------------------------------------------------
(* What a request achieves.                                                *)

\* After the clean-up only wanted traps are recorded, and nobody adds others.
LEMMA CleanedStep ==
    ASSUME TypeOK, GuardInv, OnlyWanted, Cleaned, [Next]_vars
    PROVE  Cleaned'
<1> SUFFICES ASSUME pc' = "status", err' = "none", NEW d \in Pods, NEW t \in Traps,
                    Live(d)', pod'[d].ann[cur'][t] # {}
             PROVE  t \in goal'.spec.traps
  BY DEF Cleaned, OnPod
<1>1. CASE UNCHANGED localVars
  <2>1. ~Annotate /\ cur \in Policies
    BY <1>1 DEF Annotate, MustRecord, NextItem, localVars, TypeOK, RequestTypes
  <2>2. Live(d) /\ pod[d].ann[cur][t] # {}
    BY <1>1, <2>1, RecordsStay DEF Kept, NoAnnotation, localVars
  <2> QED BY <1>1, <2>2 DEF Cleaned, OnPod, localVars
<1>2. CASE FinishDeploy
  <2>1. pc = "deploy" /\ UNCHANGED <<cur, goal, pod>>
    BY <1>2 DEF FinishDeploy, apiVars
  <2> QED BY <2>1 DEF OnlyWanted, OnPod, Live
<1>3. CASE FinishRemoval
  <2>1. pc = "remove" /\ work = {} /\ err = "none" /\ UNCHANGED <<cur, goal, pod>>
    BY <1>3 DEF FinishRemoval, apiVars
  <2> QED BY <2>1 DEF GuardInv, ListComplete, Listed, Unwanted, OnPod, Live
<1>4. ~AbortRemoval \/ finalizing
  BY DEF AbortRemoval
<1>5. ~Executes /\ ~Records /\ ~Returns
  BY ExecutesKeep, RecordsKeep, ReturnsEnd
<1>6. ~ListAnnotated /\ \A p \in Policies : Fetch(p) => UNCHANGED localVars
  BY DEF ListAnnotated, Fetch
<1>7. /\ \A u \in Traps : ~MatchTrap(u)
      /\ \A w \in work : ~StartItem(w)
  BY DEF MatchTrap, StartItem
<1> QED BY <1>1, <1>2, <1>3, <1>4, <1>5, <1>6, <1>7, StepKinds DEF Turns

\* What is due for the policy in progress stays due.
LEMMA CurrentDueStays ==
    ASSUME Heard, TypeOK, Coherent, GuardInv, PoliciesAgree, PodsAgree, RequestFits,
           ChangesAreHeard, [Next]_vars, Working, Working', cur' = cur, Due(cur)
    PROVE  Due(cur)'
<1> SUFFICES ASSUME NEW p \in Policies, p = cur PROVE Due(p)'
  <2>1. cur \in Policies
    BY DEF TypeOK, RequestTypes, Working
  <2> QED BY <2>1 DEF Due, Coming, Live
<1>1. ~Fetch(p) /\ ~Crash
  BY DEF Fetch, Crash, ForgetRequest, Working
<1>2. ~NotExpected(p)
  BY DEF NotExpected, ChangesAreHeard, SamePolicy, RequestFits
<1> QED BY <1>1, <1>2, DueStays DEF Due

\* A pod that suits a trap has suited it before, or it is new.
LEMMA SuitsBefore ==
    ASSUME Heard, TypeOK, Coherent, PodsAgree, [Next]_vars, goal' = goal,
           NEW d \in Pods, NEW t \in Traps, Suits(d, t)'
    PROVE  (Suits(d, t) /\ PodKept(d)) \/ \A p : Due(p)'
<1>1. CASE Live(d)
  BY <1>1, PodKinds DEF Suits, PodKept, Live
<1>2. CASE pod[d].phase = "unborn"
  <2>1. PodBorn(d)
    BY <1>2, PodKinds DEF Suits, Live
  <2> QED BY <1>2, <2>1 DEF PodBorn, PodsAgree, Due, Coming, Suits
<1> QED BY <1>1, <1>2 DEF PodsAgree, Live, TypeOK, ObjectTypes, PodObject

\* What was planned for a pod is recorded there, or the trap is reported.
LEMMA TriedRecords ==
    ASSUME Heard, TypeOK, Coherent, GuardInv, PodsAgree, PlanFits, ItemFits, [Next]_vars,
           pc = "deploy", Records, ~Due(cur)', NEW t \in Traps, ~GivenUp(t)',
           \A d \in Pods : Suits(d, t) => Deployed(d, t)
    PROVE  \A d \in Pods : Suits(d, t)' => Deployed(d, t)'
<1> SUFFICES ASSUME NEW d \in Pods, Suits(d, t)' PROVE Deployed(d, t)'
  OBVIOUS
<1>1. /\ item # None /\ item \in work /\ item.trap \in Traps /\ work' = work \ {item}
      /\ UNCHANGED <<pc, cur, goal>> /\ cur \in Policies /\ res \in [Traps -> Results]
      /\ res' \in {res, [res EXCEPT ![item.trap] = "fail"]}
  BY RecordsKeep DEF TypeOK, RequestTypes
<1>2. Suits(d, t) /\ PodKept(d)
  BY <1>1, SuitsBefore
<1>3. ~GivenUp(t)
  BY <1>1 DEF GivenUp
<1>4. Deployed(d, t)
  BY <1>2
<1>5. CASE item.pod = d /\ item.trap = t
  <2>1. item.conts # {} /\ item.conts = goal.spec.sel[t] /\ item.conts \subseteq acc \cup left
    BY <1>1, <1>3, <1>5 DEF PlanFits, ItemFits, GivenUp
  <2>2. CASE Annotate
    <3>1. pod'[d].ann[cur][t] = acc /\ left = {}
      BY <1>5, <2>2, RecordedParts, AnnotateEffect
    <3> QED BY <1>1, <2>1, <3>1 DEF Deployed, OnPod
  <2>3. ~SkipRecord
    BY <2>1 DEF SkipRecord
  <2>4. CASE AnnotateFails
    <3>1. res' = [res EXCEPT ![item.trap] = "fail"]
      BY <2>4 DEF AnnotateFails, Raise
    <3> QED BY <1>1, <1>5, <3>1 DEF GivenUp
  <2> QED BY <2>2, <2>3, <2>4 DEF Records
<1>6. CASE ~(item.pod = d /\ item.trap = t)
  <2>1. pod'[d].ann[cur][t] = pod[d].ann[cur][t]
    <3>1. CASE Annotate
      BY <1>1, <1>6, <3>1, RecordedParts, AnnotateEffect
    <3>2. CASE ~Annotate
      BY <1>1, <1>2, <3>2 DEF PodKept
    <3> QED BY <3>1, <3>2
  <2> QED BY <1>1, <1>4, <1>6, <2>1 DEF Deployed, OnPod
<1> QED BY <1>5, <1>6

\* A trap that is looked at is planned for every pod that suits it.
LEMMA TriedMatch ==
    ASSUME Heard, TypeOK, Coherent, SpecsAreUsers, NEW t \in Traps, MatchTrap(t), ~GivenUp(t)',
           NEW d \in Pods, Suits(d, t)
    PROVE  Deployed(d, t)'
<1>1. /\ pc = "deploy" /\ UNCHANGED <<pc, goal, cur, pod>> /\ res' = [res EXCEPT ![t] = Outcome(t)]
      /\ work' = {w \in WorkItem : /\ w.trap = t /\ w.pod \in Matched(t)
                                   /\ w.conts = Deployable(w.pod, t) /\ w.conts # {}
                                   /\ w.already = cpod[w.pod].ann[cur][t]}
      /\ cpod[d] = pod[d] /\ cur \in Policies
  BY DEF MatchTrap, CanReadPods, Lagging, Heard, Coherent, apiVars, TypeOK, RequestTypes
<1>2. d \in Matched(t)
  BY <1>1 DEF Matched, Suits, Live
<1>3. res'[t] = Outcome(t)
  BY <1>1 DEF TypeOK, RequestTypes
<1>4. \A c \in Containers : cpod[d].run[c] = "ready"
  BY <1>2, <1>3 DEF Outcome, GivenUp
<1>5. Deployable(d, t) = goal.spec.sel[t] /\ goal.spec.sel[t] \subseteq Containers /\ goal.spec.sel[t] # {}
  BY <1>1, <1>4, GoalSpec DEF Deployable, Working, Suits
<1> DEFINE v == [pod |-> d, trap |-> t, conts |-> Deployable(d, t), already |-> cpod[d].ann[cur][t]]
<1>6. cpod[d].ann[cur][t] \subseteq Containers
  BY <1>1 DEF TypeOK, ObjectTypes, PodObject, Annotation
<1>7. v \in WorkItem
  BY <1>5, <1>6 DEF WorkItem
<1>8. v \in work'
  BY <1>1, <1>2, <1>5, <1>7
<1> QED BY <1>1, <1>8 DEF Deployed

\* A request that is not going to be followed by another tries every valid trap in
\* every pod that suits it.
LEMMA TriedStep ==
    ASSUME Heard, TypeOK, Coherent, GuardInv, SpecsAreUsers, PoliciesAgree, PodsAgree, RequestFits,
           ChangesAreHeard, PlanFits, ItemFits, Tried, [Next]_vars
    PROVE  Tried'
<1> SUFFICES ASSUME Deploying', ~Due(cur)', NEW t \in goal'.spec.traps \cap ValidTraps,
                    ~(pc' = "deploy" /\ t \in todo'), ~GivenUp(t)',
                    NEW d \in Pods, Suits(d, t)'
             PROVE  Deployed(d, t)'
  BY DEF Tried
<1>1. t \in Traps /\ res \in [Traps -> Results]
  BY TrapsAssumption DEF TypeOK, RequestTypes
\* Steps after which a trap that was tried before was tried in the same way.
<1>2. ASSUME Deploying, UNCHANGED <<cur, goal>>, ~Annotate, pc = "deploy" /\ t \in todo => FALSE,
             ~GivenUp(t), pc' = pc \/ work = {}, pc' = pc => work \subseteq work'
      PROVE  Deployed(d, t)'
  <2>1. cur \in Policies /\ Working /\ Working'
    BY <1>2 DEF Deploying, Working, TypeOK, RequestTypes
  <2>2. ~Due(cur)
    BY <1>2, <2>1, CurrentDueStays DEF Due, Coming, Live
  <2>3. Suits(d, t) /\ PodKept(d)
    BY <1>1, <1>2, SuitsBefore
  <2>4. Deployed(d, t)
    BY <1>2, <2>2, <2>3 DEF Tried
  <2>5. pod'[d].ann[cur] = pod[d].ann[cur]
    BY <1>2, <2>1, <2>3 DEF PodKept
  <2> QED BY <1>2, <2>4, <2>5 DEF Deployed, OnPod
<1>3. CASE UNCHANGED localVars
  <2>1. ~Annotate
    BY <1>3 DEF Annotate, MustRecord, NextItem, localVars
  <2> QED BY <1>2, <1>3, <2>1 DEF localVars, Deploying, GivenUp
<1>4. CASE Executes
  <2>1. ~Annotate /\ pc = "deploy" /\ pc' = pc
    BY <1>4, ExecutesKeep DEF Annotate, NextItem, Deploying
  <2>2. ~GivenUp(t)
    BY <1>1, <1>4, ExecutesKeep DEF GivenUp
  <2> QED BY <1>2, <1>4, <2>1, <2>2, ExecutesKeep DEF Deploying
<1>5. CASE Records
  <2>1. /\ pc = "deploy" /\ UNCHANGED <<pc, cur, goal, todo>> /\ item.trap \in Traps
        /\ res' \in {res, [res EXCEPT ![item.trap] = "fail"]}
    BY <1>5, RecordsKeep DEF Deploying
  <2>2. ~Due(cur)
    BY <2>1, CurrentDueStays DEF Due, Coming, Live, Working
  <2>3. ~GivenUp(t)
    BY <1>1, <2>1 DEF GivenUp
  <2>4. \A e \in Pods : Suits(e, t) => Deployed(e, t)
    BY <2>1, <2>2, <2>3 DEF Tried, Deploying
  <2> QED BY <1>1, <1>5, <2>1, <2>4, TriedRecords
<1>6. ASSUME NEW u \in Traps, MatchTrap(u) PROVE Deployed(d, t)'
  <2>1. /\ pc = "deploy" /\ pc' = pc /\ work = {} /\ todo' = todo \ {u}
        /\ UNCHANGED <<cur, goal>> /\ res' = [res EXCEPT ![u] = Outcome(u)] /\ UNCHANGED pod
    BY <1>6 DEF MatchTrap, apiVars
  <2>2. CASE t = u
    <3>1. Suits(d, t)
      BY <2>1 DEF Suits, Live
    <3> QED BY <1>6, <2>2, <3>1, TriedMatch
  <2>3. CASE t # u
    <3>1. ~GivenUp(t) /\ ~Annotate
      BY <1>1, <2>1, <2>3 DEF GivenUp, Annotate, WritePod, MustRecord, TypeOK, ItemTypes
    <3> QED BY <1>2, <2>1, <2>3, <3>1 DEF Deploying
  <2> QED BY <2>2, <2>3
<1>7. CASE FinishDeploy
  <2>1. /\ pc = "deploy" /\ work = {} /\ todo = {} /\ item = None /\ pc' = "status"
        /\ UNCHANGED <<cur, goal, res>>
    BY <1>7 DEF FinishDeploy, TypeOK, ItemTypes
  <2> QED BY <1>2, <2>1 DEF Deploying, GivenUp, Annotate, MustRecord
<1>8. ASSUME NEW w \in work, StartItem(w) PROVE Deployed(d, t)'
  <2>1. UNCHANGED <<pc, cur, goal, work, res, todo, err>> /\ item = None /\ pc \in {"deploy", "remove"}
    BY <1>8 DEF StartItem
  <2> QED BY <1>2, <2>1 DEF Deploying, GivenUp, Annotate, MustRecord
<1>9. ~FinishRemoval
  BY DEF FinishRemoval, Deploying, Blocked
<1>10. ~Returns /\ ~ListAnnotated /\ (~AbortRemoval \/ finalizing)
       /\ \A p \in Policies : Fetch(p) => UNCHANGED localVars
  BY ReturnsEnd DEF ListAnnotated, AbortRemoval, Fetch, Deploying
<1> QED BY <1>3, <1>4, <1>5, <1>6, <1>7, <1>8, <1>9, <1>10, StepKinds DEF Turns

-----------------------------------------------------------------------------
(* Policies at rest.                                                       *)

\* A policy that is not in progress stays settled: whoever changes it, or brings a pod,
\* is heard.
LEMMA RestStays ==
    ASSUME Heard, TypeOK, Coherent, GuardInv, PoliciesAgree, PodsAgree, RequestFits, AtRest,
           [Next]_vars, NEW p \in Policies, ~(Working /\ cur = p), ~Due(p), ~Due(p)'
    PROVE  Settled(p)'
<1>1. Settled(p)
  BY DEF AtRest
<1>2. policy'[p] = policy[p]
  <2>1. ~Adopted(p) /\ ~Released(p) /\ ~StatusSet(p)
    BY DEF Adopted, Released, StatusSet, PutFinalizer, ReleasePolicy, UpdateStatus, Working
  <2> QED BY <2>1, PolicyKinds DEF UserChange, CaughtUp, Due, Coming
<1>3. ASSUME NEW d \in Pods, Live(d)'
      PROVE  Live(d) /\ pod'[d].labelled = pod[d].labelled /\ pod'[d].ann[p] = pod[d].ann[p]
  <2>1. ~PodBorn(d) \/ pod[d].phase # "unborn"
    BY <1>3 DEF PodBorn, PodsAgree, Due, Coming
  <2>2. Live(d)
    BY <1>3, <2>1, PodKinds DEF PodsAgree, Live, TypeOK, ObjectTypes, PodObject
  <2>3. p # cur \/ ~Annotate
    BY AnnotateEffect DEF Working
  <2> QED BY <2>2, <2>3, PodKinds DEF PodKept
<1>4. Converged(p) => Converged(p)'
  BY <1>2, <1>3 DEF Converged, OnPod
<1> QED BY <1>1, <1>2, <1>4 DEF Settled, Reported

\* A request that is due is fetched in vain only for a policy that is gone.
LEMMA RestDue ==
    ASSUME Heard, TypeOK, Coherent, GuardInv, PoliciesAgree, PodsAgree, RequestFits,
           [Next]_vars, NEW p \in Policies, Due(p), ~Due(p)', ~(Working' /\ cur' = p)
    PROVE  Settled(p)'
<1>1. CASE Fetch(p)
  BY <1>1, FetchReads DEF PoliciesAgree, Settled, Working
<1>2. CASE ~Fetch(p)
  BY <1>2, DueStays DEF Settled
<1> QED BY <1>1, <1>2

\* The status tells of traps that have failed.
LEMMA StatusReports ==
    ASSUME TypeOK, NEW t \in Traps, res[t] = "fail"
    PROVE  NewStatus # None /\ NewStatus.decoys = "DecoyDeploymentError"
<1>1. NewStatus # None
  BY StatusType, StatusAssumption
<1> DEFINE F == {u \in Traps : res[u] = "fail"}
<1>2. IsFiniteSet(F) /\ F # {}
  BY TrapsAssumption, FS_Subset
<1>3. Cardinality(F) \in Nat /\ Cardinality(F) # 0
  <2> HIDE DEF F
  <2> QED BY <1>2, FS_EmptySet, FS_CardinalityType
<1>4. With("fail") > 0
  <2>1. With("fail") = Cardinality(F)
    BY DEF With
  <2> HIDE DEF F
  <2> QED BY <1>3, <2>1
<1>5. DecoysReason = "DecoyDeploymentError"
  BY <1>4 DEF DecoysReason
<1> QED BY <1>1, <1>5 DEF NewStatus

\* A request that ends without asking for another has done its work, or reports why
\* it has not.
LEMMA RestStatus ==
    ASSUME Heard, TypeOK, Coherent, GuardInv, SpecsAreUsers, PoliciesAgree, PodsAgree, RequestFits,
           ChangesAreHeard, Cleaned, Tried, [Next]_vars,
           NEW p \in Policies, p = cur, UpdateStatus, ~Due(p)'
    PROVE  Settled(p)'
<1>1. /\ pc = "status" /\ cpolicy[p] = policy[p] /\ policy[p].phase # "absent" /\ ~Requeue
      /\ queue' = queue /\ delayed' = delayed /\ pod' = pod /\ cpod' = cpod
      /\ policy[p] \in PolicyObject
      /\ \/ policy' = policy /\ polEvent' = polEvent /\ policy[p].status = NewStatus
         \/ WritePolicy(p, [policy[p] EXCEPT !.status = NewStatus], FALSE)
  <2>1. pc = "status" /\ cpolicy[p] = policy[p] /\ cpolicy[p].phase # "absent"
        /\ policy[p] \in PolicyObject
    BY DEF UpdateStatus, CanReadPolicy, Lagging, Heard, Coherent, TypeOK, ObjectTypes
  <2>2. queue' = queue /\ pod' = pod /\ cpod' = cpod /\ Return(Requeue)
    BY DEF UpdateStatus, cacheVars
  <2>3. ~Requeue
    BY <2>2 DEF Return, Due
  <2>4. delayed' = delayed
    BY <2>2, <2>3 DEF Return
  <2> QED BY <2>1, <2>2, <2>3, <2>4 DEF UpdateStatus
<1>2. /\ policy \in [Policies -> PolicyObject] /\ polEvent \in [Policies -> BOOLEAN]
  BY DEF TypeOK, ObjectTypes
<1>3. /\ polEvent'[p] = polEvent[p] /\ policy'[p].status = NewStatus
      /\ policy'[p].phase = policy[p].phase /\ policy'[p].spec = policy[p].spec
      /\ policy'[p].fin = policy[p].fin /\ policy'[p].old = policy[p].old
  <2>1. CASE WritePolicy(p, [policy[p] EXCEPT !.status = NewStatus], FALSE)
    <3>1. policy'[p] = [policy[p] EXCEPT !.status = NewStatus] /\ polEvent'[p] = polEvent[p]
      BY <1>2, <2>1 DEF WritePolicy
    <3> QED BY <1>1, <3>1 DEF PolicyObject
  <2> QED BY <1>1, <2>1
<1>4. ~Due(p)
  BY <1>1, <1>3 DEF Due, Coming, Live
<1>5. SamePolicy(goal, policy[p])
  BY <1>1, <1>4 DEF ChangesAreHeard, Working, Due, Coming
<1>6. policy'[p].phase = "live" /\ policy'[p].fin
  <2>1. goal.phase # "absent" /\ goal.phase # "deleting" /\ goal.fin
    BY <1>1 DEF RequestFits, Working
  <2>2. policy[p].phase \in {"absent", "live", "deleting"}
    BY <1>1 DEF PolicyObject
  <2> QED BY <1>3, <1>5, <2>1, <2>2 DEF SamePolicy
<1>7. ASSUME NEW t \in Traps, res[t] = "fail" PROVE Reported(p)'
  BY <1>3, <1>7, StatusReports DEF Reported
<1>8. ASSUME \A t \in Traps : res[t] # "fail" PROVE Converged(p)'
  <2>1. err = "none" /\ \A t \in Traps : ~GivenUp(t)
    BY <1>1, <1>8 DEF Requeue, GivenUp
  <2> SUFFICES ASSUME NEW d \in Pods, NEW t \in Traps, Live(d)
               PROVE  /\ t \notin goal.spec.traps => pod[d].ann[p][t] = {}
                      /\ /\ t \in goal.spec.traps \cap ValidTraps /\ ~Blocked(goal.spec)
                         /\ pod[d].labelled
                         /\ goal.spec.mutate \/ d \notin goal.old
                         => goal.spec.sel[t] \subseteq pod[d].ann[p][t]
    BY <1>1, <1>3, <1>5, <1>6 DEF Converged, SamePolicy, OnPod, Live
  <2>2. t \notin goal.spec.traps => pod[d].ann[p][t] = {}
    BY <1>1, <2>1 DEF Cleaned, OnPod
  <2>3. ASSUME t \in goal.spec.traps \cap ValidTraps, ~Blocked(goal.spec), pod[d].labelled,
               goal.spec.mutate \/ d \notin goal.old, goal.spec.sel[t] # {}
        PROVE  goal.spec.sel[t] \subseteq pod[d].ann[p][t]
    <3>1. Deploying /\ Suits(d, t)
      BY <1>1, <2>1, <2>3 DEF Deploying, Suits
    <3>2. Deployed(d, t)
      BY <1>1, <1>4, <2>1, <2>3, <3>1 DEF Tried
    <3> QED BY <1>1, <3>2 DEF Deployed, OnPod
  <2> QED BY <2>2, <2>3
<1> QED BY <1>6, <1>7, <1>8 DEF Settled

\* The other ends of a request bring the next one, or the policy is gone.
LEMMA RestReturns ==
    ASSUME Heard, TypeOK, Coherent, GuardInv, PoliciesAgree, PodsAgree, RequestFits,
           ChangesAreHeard, [Next]_vars, NEW p \in Policies, p = cur, Working, Returns,
           ~UpdateStatus, ~Due(p)'
    PROVE  Settled(p)'
<1>1. ~PutFinalizerFails /\ ~UpdateStatusFails /\ ~ReleaseConflict
  BY DEF PutFinalizerFails, UpdateStatusFails, ReleaseConflict, Return, Due
<1>2. ~(AbortRemoval /\ finalizing)
  <2>1. err # "notfound"
    BY DEF RequestFits
  <2> QED BY <2>1 DEF AbortRemoval, Return, Due
<1>3. CASE Crash
  BY <1>3 DEF Crash, Due, Settled
<1>4. CASE PutFinalizer
  <2>1. /\ pc = "adopt" /\ ~goal.fin /\ cpolicy[p] = policy[p]
        /\ queue' = queue /\ delayed' = delayed /\ UNCHANGED <<pod, cpod>>
    BY <1>4 DEF PutFinalizer, RequestFits, Working, CanReadPolicy, Lagging, Heard, Coherent, Return,
                cacheVars
  <2>2. CASE policy[p].fin
    <3>1. polEvent' = polEvent
      BY <1>4, <2>1, <2>2 DEF PutFinalizer
    <3>2. p \in queue \cup delayed \/ polEvent[p]
      BY <2>1, <2>2 DEF ChangesAreHeard, SamePolicy
    <3> QED BY <2>1, <3>1, <3>2 DEF Due, Coming
  <2>3. CASE ~policy[p].fin
    <3>1. /\ policy[p].phase = "live"
          /\ WritePolicy(p, [policy[p] EXCEPT !.fin = TRUE, !.canon = TRUE], ~policy[p].canon)
      BY <1>4, <2>1, <2>3 DEF PutFinalizer
    <3>2. polEvent'[p]
      BY <2>3, <3>1 DEF PoliciesAgree, WritePolicy, TypeOK, ObjectTypes
    <3> QED BY <3>2 DEF Due, Coming
  <2> QED BY <2>2, <2>3
<1>5. CASE ReleasePolicy
  <2>1. pc = "release" /\ cpolicy[p] = policy[p]
    BY <1>5 DEF ReleasePolicy, CanReadPolicy, Lagging, Heard, Coherent
  <2>2. policy[p].fin
    BY <2>1 DEF GuardInv, WorksUnderGuard, Guarded
  <2>3. polEvent'[p]
    BY <1>5, <2>1, <2>2 DEF ReleasePolicy, WritePolicy, TypeOK, ObjectTypes
  <2> QED BY <2>3 DEF Due, Coming
<1> QED BY <1>1, <1>2, <1>3, <1>4, <1>5 DEF Returns

\* Every step leaves a policy for which nothing is due as its user wants it.
LEMMA AtRestStep ==
    ASSUME Heard, TypeOK, Coherent, GuardInv, SpecsAreUsers, PoliciesAgree, PodsAgree, RequestFits,
           ChangesAreHeard, Cleaned, Tried, AtRest, [Next]_vars
    PROVE  AtRest'
<1> SUFFICES ASSUME NEW p \in Policies, ~(Working' /\ cur' = p), ~Due(p)' PROVE Settled(p)'
  BY DEF AtRest
<1>1. CASE ~(Working /\ cur = p)
  BY <1>1, RestStays, RestDue
<1>2. CASE Working /\ cur = p
  <2>1. Returns
    <3>1. (Turns \/ Executes \/ Records) => Working' /\ cur' = cur
      <4>1. Turns => Working' /\ cur' = cur
        BY DEF Turns, ListAnnotated, FinishRemoval, FinishDeploy, AbortRemoval, MatchTrap, StartItem,
               Working
      <4> QED BY <4>1, ExecutesKeep, RecordsKeep DEF Working
    <3>2. ~UNCHANGED localVars
      BY <1>2 DEF localVars, Working
    <3> QED BY <1>2, <3>1, <3>2, StepKinds DEF Fetch, Working
  <2> QED BY <1>2, <2>1, RestStatus, RestReturns
<1> QED BY <1>1, <1>2

-----------------------------------------------------------------------------
(* The invariant.                                                          *)

\* In the beginning there are no policies.
LEMMA WakeInit == Init => WakeInv
<1> SUFFICES ASSUME Init PROVE WakeInv
  OBVIOUS
<1>1. pc = "idle" /\ err = "none"
      /\ \A p \in Policies : policy[p].phase = "absent" /\ ~polEvent[p]
  BY DEF Init, NoPolicy
<1>2. \A d \in Pods : pod[d].phase = "unborn" /\ cpod[d].phase = "unborn"
  BY DEF Init, NoPod
<1> QED BY <1>1, <1>2 DEF WakeInv, PoliciesAgree, PodsAgree, RequestFits, ChangesAreHeard, PlanFits,
           ItemFits, Cleaned, Tried, Deploying, AtRest, Settled, Working

\* Every step keeps it.
LEMMA WakeStep ==
    ASSUME Heard, TypeOK, Coherent, GuardInv, WantedInv, WakeInv, [Next]_vars
    PROVE  WakeInv'
BY PoliciesStep, PodsStep, RequestStep, ChangesStep, PlanStep, CleanedStep, TriedStep, AtRestStep
   DEF WantedInv, WakeInv

\* No wake-up is lost: if caches follow, the finalizer is an update that the event filter
\* lets through, labels stay and pods stay, then a policy for which nothing is queued,
\* delayed or on its way has its decoys where its spec wants them, or reports a failure,
\* or is gone, whatever commands fail, containers restart and controllers crash.
THEOREM NoWakeUpIsLost == Heard /\ Spec => []NothingForgotten
<1> SUFFICES ASSUME Heard PROVE Spec => []NothingForgotten
  OBVIOUS
<1>1. "lag" \notin Env
  BY DEF Heard
<1>2. TypeOK /\ Coherent /\ GuardInv /\ WantedInv /\ WakeInv /\ [Next]_vars => WakeInv'
  BY WakeStep
<1>3. TypeOK /\ Coherent /\ GuardInv /\ WantedInv /\ [Next]_vars => WantedInv'
  BY <1>1, WantedStep
<1>4. TypeOK /\ TypeOK' /\ Coherent /\ GuardInv /\ [Next]_vars => GuardInv'
  BY <1>1, GuardStep
<1>5. Coherent /\ WakeInv => NothingForgotten
  BY WakeMeans
<1> QED BY <1>2, <1>3, <1>4, <1>5, WakeInit, WantedInit, GuardInit, TypeCorrect, CachesCohere, PTL DEF Spec

=============================================================================
