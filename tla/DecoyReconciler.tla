-------------------------- MODULE DecoyReconciler --------------------------
(***************************************************************************)
(* The reconciler of DeceptionPolicies for decoys of the containerExec     *)
(* strategy (captor strategy "none"): one worker takes policies from a     *)
(* work queue, removes the decoys that the policy no longer wants, deploys *)
(* the ones it wants, and cleans everything up behind a finalizer when the *)
(* policy is deleted.                                                      *)
(*                                                                         *)
(* The API server, the users, the kubelet and the containers are the       *)
(* environment.  Every Get and List of the worker reads an informer cache, *)
(* a copy that lags behind the API server; every write goes to the API     *)
(* server and is refused there unless the copy it starts from is current.  *)
(* The resourceVersion that decides this is abstracted to one bit per      *)
(* object: "the cached copy is current".  Without "lag" in Env the worker  *)
(* reads a cache only when it is current.                                  *)
(***************************************************************************)
EXTENDS Annotations, Integers, FiniteSets

CONSTANTS
    Pods,           \* names of pods (a name is not reused)
    Paths, PathOf,  \* file paths; PathOf[t] is the filePath of trap t
    ValidTraps,     \* the traps for which Trap.IsValid returns no error
    Specs,          \* the DeceptionPolicySpecs that users apply
    None,
    Env,            \* what the environment may do, see EnvKinds
    MaxEdits,       \* bound on the actions of users
    MaxFaults       \* bound on faults of containers and of the controller

EnvKinds == {
    "lag",          \* the worker reads caches that are not current
    "canonical",    \* a user's YAML may survive a typed round trip unchanged
    "relabel",      \* labels of running pods change
    "poddelete",    \* pods are deleted
    "flap",         \* ready containers become unready
    "restart",      \* containers restart, their files are lost
    "execfail",     \* a command fails before it had an effect
    "halfexec",     \* a command fails after it had its effect
    "crash" }       \* the controller restarts

DeceptionPolicySpec == [traps: SUBSET Traps, sel: [Traps -> SUBSET Containers],
                        strict: BOOLEAN, mutate: BOOLEAN]

ASSUME EnvAssumption == Env \subseteq EnvKinds
ASSUME PathAssumption == PathOf \in [Traps -> Paths]
ASSUME SpecsAssumption == Specs \subseteq DeceptionPolicySpec
ASSUME BoundAssumption == MaxEdits \in Nat /\ MaxFaults \in Nat
ASSUME TrapsAssumption == IsFiniteSet(Traps) /\ ValidTraps \subseteq Traps
ASSUME NoneAssumption == None \notin Policies \cup Traps \cup Specs

VARIABLES
    policy,         \* DeceptionPolicies in the API server
    cpolicy,        \* their copies in the cache
    polFresh,       \* the cached copy of the policy is current
    polEvent,       \* its generation has changed since the last delivery
    pod, cpod, podFresh,    \* the same for pods
    file,           \* file[d][c][x]: the trap whose decoy is at path x
    queue,          \* the work queue of the controller
    delayed,        \* requests that are queued again after a delay
    pc,             \* where the worker is in Reconcile
    cur,            \* req: the policy it reconciles
    goal,           \* deceptionPolicy, as the first Get returned it
    finalizing,     \* markedForDeletion
    todo,           \* valid traps not looked at yet by reconcileDecoys
    work,           \* decoys still to remove or to deploy
    item,           \* the one in progress, None between two
    left,           \* containers of item in which no command ran yet
    acc,            \* deployedToContainers or removedFromContainers
    err,            \* first API error while removing decoys
    res,            \* DecoyDeploymentResult of each trap
    edits, faults   \* budgets used up

apiVars    == <<policy, polEvent, pod>>
cacheVars  == <<cpolicy, cpod>>
freshVars  == <<polFresh, podFresh>>
localVars  == <<pc, cur, goal, finalizing, todo, work, item, left, acc, err, res>>
queueVars  == <<queue, delayed>>
budgets    == <<edits, faults>>
vars == <<apiVars, cacheVars, freshVars, localVars, queueVars, budgets, file>>

-----------------------------------------------------------------------------
(* Types.                                                                  *)

Results == {"none", "ok", "fail", "retry", "nomatch"}
ErrorKinds == {"none", "plain", "conflict", "notfound"}
Reasons == {"DecoyDeploymentPending", "DecoyDeploymentSucceeded",
            "DecoyDeploymentSucceededPartially", "DecoyDeploymentError",
            "NoObjectsMatched"}
Validity == {"ValidationPending", "TrapsSpecValid", "TrapsSpecInvalid"}

Status == [valid: Validity, decoys: Reasons, done: Nat, tries: Nat]

ASSUME StatusAssumption == None \notin Status

PolicyObject == [phase: {"absent", "live", "deleting"}, fin: BOOLEAN,
                 spec: Specs \cup {None}, canon: BOOLEAN,
                 old: SUBSET Pods, status: Status \cup {None}]

PodObject == [phase: {"unborn", "live", "gone"}, labelled: BOOLEAN,
              run: [Containers -> {"down", "up", "ready"}], ann: Annotation]

WorkItem == [pod: Pods, trap: Traps,
             conts: SUBSET Containers, already: SUBSET Containers]

NoPolicy == [phase |-> "absent", fin |-> FALSE, spec |-> None, canon |-> TRUE,
             old |-> {}, status |-> None]
NoPod == [phase |-> "unborn", labelled |-> FALSE,
          run |-> [c \in Containers |-> "down"], ann |-> NoAnnotation]

ObjectTypes ==
    /\ policy \in [Policies -> PolicyObject] /\ cpolicy \in [Policies -> PolicyObject]
    /\ polFresh \in [Policies -> BOOLEAN] /\ polEvent \in [Policies -> BOOLEAN]
    /\ pod \in [Pods -> PodObject] /\ cpod \in [Pods -> PodObject]
    /\ podFresh \in [Pods -> BOOLEAN]

FileTypes == file \in [Pods -> [Containers -> [Paths -> Traps \cup {None}]]]

QueueTypes == queue \subseteq Policies /\ delayed \subseteq Policies

RequestTypes ==
    /\ pc \in {"idle", "adopt", "list", "remove", "release", "deploy", "status"}
    /\ cur \in Policies \cup {None} /\ (pc # "idle" => cur # None)
    /\ goal \in PolicyObject /\ finalizing \in BOOLEAN
    /\ todo \subseteq Traps
    /\ err \in ErrorKinds /\ res \in [Traps -> Results]

ItemTypes ==
    /\ work \subseteq WorkItem /\ item \in work \cup {None}
    /\ (item # None => pc \in {"remove", "deploy"})
    /\ left \subseteq Containers /\ acc \subseteq Containers

BudgetTypes == edits \in Nat /\ faults \in Nat

TypeOK == /\ ObjectTypes /\ FileTypes /\ QueueTypes
          /\ RequestTypes /\ ItemTypes /\ BudgetTypes

-----------------------------------------------------------------------------
Init ==
    /\ policy = [p \in Policies |-> NoPolicy] /\ cpolicy = policy
    /\ polFresh = [p \in Policies |-> TRUE] /\ polEvent = [p \in Policies |-> FALSE]
    /\ pod = [d \in Pods |-> NoPod] /\ cpod = pod
    /\ podFresh = [d \in Pods |-> TRUE]
    /\ file = [d \in Pods |-> [c \in Containers |-> [x \in Paths |-> None]]]
    /\ queue = {} /\ delayed = {}
    /\ pc = "idle" /\ cur = None /\ goal = NoPolicy /\ finalizing = FALSE
    /\ todo = {} /\ work = {} /\ item = None /\ left = {} /\ acc = {}
    /\ err = "none" /\ res = [t \in Traps |-> "none"]
    /\ edits = 0 /\ faults = 0

-----------------------------------------------------------------------------
(* The API server.  A write makes the cached copy stale; event says that   *)
(* the write changed the generation of the policy.                         *)

WritePolicy(p, object, event) ==
    /\ policy' = [policy EXCEPT ![p] = object]
    /\ polFresh' = [polFresh EXCEPT ![p] = FALSE]
    /\ polEvent' = [polEvent EXCEPT ![p] = @ \/ event]

WritePod(d, object) ==
    /\ pod' = [pod EXCEPT ![d] = object]
    /\ podFresh' = [podFresh EXCEPT ![d] = FALSE]

Edit == edits < MaxEdits /\ edits' = edits + 1 /\ UNCHANGED faults
Fault == faults < MaxFaults /\ faults' = faults + 1 /\ UNCHANGED edits

(* Users.                                                                  *)

CreatePolicy(p, s, canon) ==
    /\ Edit
    /\ policy[p].phase = "absent"
    /\ canon => "canonical" \in Env
    /\ WritePolicy(p, [phase |-> "live", fin |-> FALSE, spec |-> s, canon |-> canon,
                       old |-> {d \in Pods : pod[d].phase # "unborn"},
                       status |-> None], TRUE)
    /\ UNCHANGED <<pod, podFresh, cacheVars, localVars, queueVars, file>>

EditPolicy(p, s) ==
    /\ Edit
    /\ policy[p].phase = "live" /\ policy[p].spec # s
    /\ WritePolicy(p, [policy[p] EXCEPT !.spec = s], TRUE)
    /\ UNCHANGED <<pod, podFresh, cacheVars, localVars, queueVars, file>>

\* A finalizer turns the deletion into a mark that the controller acts on.
DeletePolicy(p) ==
    /\ Edit
    /\ policy[p].phase = "live"
    /\ WritePolicy(p, IF policy[p].fin THEN [policy[p] EXCEPT !.phase = "deleting"]
                                       ELSE NoPolicy, TRUE)
    /\ UNCHANGED <<pod, podFresh, cacheVars, localVars, queueVars, file>>

CreatePod(d, labelled) ==
    /\ Edit
    /\ pod[d].phase = "unborn"
    /\ labelled \/ "relabel" \in Env
    /\ WritePod(d, [NoPod EXCEPT !.phase = "live", !.labelled = labelled])
    /\ UNCHANGED <<policy, polEvent, polFresh, cacheVars, localVars, queueVars, file>>

LabelPod(d) ==
    /\ Edit
    /\ "relabel" \in Env /\ pod[d].phase = "live"
    /\ WritePod(d, [pod[d] EXCEPT !.labelled = ~@])
    /\ UNCHANGED <<policy, polEvent, polFresh, cacheVars, localVars, queueVars, file>>

\* The containers go with the pod, and their files with them.
DeletePod(d) ==
    /\ Edit
    /\ "poddelete" \in Env /\ pod[d].phase = "live"
    /\ WritePod(d, [NoPod EXCEPT !.phase = "gone"])
    /\ file' = [file EXCEPT ![d] = [c \in Containers |-> [x \in Paths |-> None]]]
    /\ UNCHANGED <<policy, polEvent, polFresh, cacheVars, localVars, queueVars>>

(* The kubelet, which reports to the API server the state of containers.   *)

Start(d, c) ==
    /\ pod[d].phase = "live" /\ pod[d].run[c] # "ready"
    /\ WritePod(d, [pod[d] EXCEPT !.run[c] = IF @ = "down" THEN "up" ELSE "ready"])
    /\ UNCHANGED <<policy, polEvent, polFresh, cacheVars, localVars, queueVars,
                   budgets, file>>

Unready(d, c) ==
    /\ Fault
    /\ "flap" \in Env /\ pod[d].phase = "live" /\ pod[d].run[c] = "ready"
    /\ WritePod(d, [pod[d] EXCEPT !.run[c] = "up"])
    /\ UNCHANGED <<policy, polEvent, polFresh, cacheVars, localVars, queueVars, file>>

RestartContainer(d, c) ==
    /\ Fault
    /\ "restart" \in Env /\ pod[d].phase = "live" /\ pod[d].run[c] # "down"
    /\ WritePod(d, [pod[d] EXCEPT !.run[c] = "down"])
    /\ file' = [file EXCEPT ![d][c] = [x \in Paths |-> None]]
    /\ UNCHANGED <<policy, polEvent, polFresh, cacheVars, localVars, queueVars>>

-----------------------------------------------------------------------------
(* Informers, event filter and watch handler.                              *)

Lagging == "lag" \in Env
CanReadPolicy(p) == Lagging \/ polFresh[p]
CanReadPods == Lagging \/ \A d \in Pods : podFresh[d]

\* Create and delete events of policies pass the filter, update events only if
\* the generation changed.
SyncPolicy(p) ==
    /\ ~polFresh[p]
    /\ cpolicy' = [cpolicy EXCEPT ![p] = policy[p]]
    /\ polFresh' = [polFresh EXCEPT ![p] = TRUE]
    /\ polEvent' = [polEvent EXCEPT ![p] = FALSE]
    /\ queue' = IF polEvent[p] THEN queue \cup {p} ELSE queue
    /\ UNCHANGED <<policy, pod, cpod, podFresh, localVars, delayed, budgets, file>>

\* The create event of a pod asks for all policies; the filter drops its update
\* and delete events.
SyncPod(d) ==
    /\ ~podFresh[d]
    /\ cpod' = [cpod EXCEPT ![d] = pod[d]]
    /\ podFresh' = [podFresh EXCEPT ![d] = TRUE]
    /\ queue' = IF cpod[d].phase = "unborn" /\ pod[d].phase = "live"
                THEN queue \cup {p \in Policies : cpolicy[p].phase # "absent"}
                ELSE queue
    /\ UNCHANGED <<apiVars, cpolicy, polFresh, localVars, delayed, budgets, file>>

\* A requeue with a delay or a back-off fires.
FireTimer(p) ==
    /\ p \in delayed
    /\ delayed' = delayed \ {p} /\ queue' = queue \cup {p}
    /\ UNCHANGED <<apiVars, cacheVars, freshVars, localVars, budgets, file>>

-----------------------------------------------------------------------------
(* The worker.                                                             *)

ForgetRequest ==
    /\ pc' = "idle" /\ cur' = None /\ goal' = NoPolicy /\ finalizing' = FALSE
    /\ todo' = {} /\ work' = {} /\ item' = None /\ left' = {} /\ acc' = {}
    /\ err' = "none" /\ res' = [t \in Traps |-> "none"]

\* Reconcile returns; again says that it returns an error or RequeueAfter.
Return(again) ==
    /\ delayed' = IF again THEN delayed \cup {cur} ELSE delayed
    /\ ForgetRequest

\* The first steps of Reconcile up to its first call that writes.
Fetch(p) ==
    /\ pc = "idle" /\ p \in queue /\ CanReadPolicy(p)
    /\ queue' = queue \ {p}
    /\ LET seen == cpolicy[p] IN
       IF \/ seen.phase = "absent"
          \/ seen.phase = "deleting" /\ ~seen.fin
       THEN UNCHANGED localVars
       ELSE /\ cur' = p /\ goal' = seen
            /\ finalizing' = (seen.phase = "deleting")
            /\ pc' = IF seen.fin THEN "list" ELSE "adopt"
            /\ UNCHANGED <<todo, work, item, left, acc, err, res>>
    /\ UNCHANGED <<apiVars, cacheVars, freshVars, delayed, budgets, file>>

\* putFinalizer.  Nothing is written if the second Get shows the finalizer.  The
\* update writes the typed object back, which changes the generation only if the
\* stored spec was not canonical.  Reconcile returns and waits for the event of
\* that change.
PutFinalizer ==
    /\ pc = "adopt" /\ CanReadPolicy(cur)
    /\ \/ cpolicy[cur].fin /\ UNCHANGED <<policy, polEvent, polFresh>>
       \/ /\ ~cpolicy[cur].fin /\ cpolicy[cur].phase = "live" /\ polFresh[cur]
          /\ WritePolicy(cur, [cpolicy[cur] EXCEPT !.fin = TRUE, !.canon = TRUE],
                         ~cpolicy[cur].canon)
    /\ Return(FALSE)
    /\ UNCHANGED <<pod, podFresh, cacheVars, queue, budgets, file>>

PutFinalizerFails ==
    /\ pc = "adopt" /\ CanReadPolicy(cur) /\ ~cpolicy[cur].fin
    /\ cpolicy[cur].phase = "absent" \/ ~polFresh[cur]
    /\ Return(TRUE)
    /\ UNCHANGED <<apiVars, cacheVars, freshVars, queue, budgets, file>>

\* Mutant: the finalizer selects like a clean-up of removed traps.
UnwantedRemovedOnly(t) == t \notin goal.spec.traps

\* The decoys to remove: all of the policy when it is being deleted, those of
\* removed traps otherwise.
Unwanted(t) == finalizing \/ t \notin goal.spec.traps

\* GetAnnotatedResources and the loops over what it returns.
ListAnnotated ==
    /\ pc = "list" /\ CanReadPods
    /\ pc' = "remove"
    /\ work' = {w \in WorkItem : /\ cpod[w.pod].phase = "live" /\ Unwanted(w.trap)
                                 /\ w.conts = cpod[w.pod].ann[cur][w.trap]
                                 /\ w.conts # {} /\ w.already = {}}
    /\ UNCHANGED <<apiVars, cacheVars, freshVars, queueVars, cur, goal, finalizing,
                   todo, item, left, acc, err, res, budgets, file>>

\* Mutant: containers that have the decoy already are forgotten.
StartItemAfresh(w) ==
    /\ item = None /\ w \in work
    /\ pc = "deploy" \/ (pc = "remove" /\ err = "none")
    /\ item' = w
    /\ left' = w.conts \ w.already /\ acc' = {}
    /\ UNCHANGED <<apiVars, cacheVars, freshVars, queueVars, pc, cur, goal, finalizing,
                   todo, work, err, res, budgets, file>>

\* One turn of the loops over resources and traps.  A decoy that is already
\* deployed in a container is kept there without a command.
StartItem(w) ==
    /\ item = None /\ w \in work
    /\ pc = "deploy" \/ (pc = "remove" /\ err = "none")
    /\ item' = w
    /\ left' = w.conts \ w.already /\ acc' = w.conts \cap w.already
    /\ UNCHANGED <<apiVars, cacheVars, freshVars, queueVars, pc, cur, goal, finalizing,
                   todo, work, err, res, budgets, file>>

\* errors.Join, as IgnoreNotFound looks into it: the first API status counts.
JoinErr(a, b) == IF a \in {"none", "plain"} THEN b ELSE a

\* While decoys are deployed an error only marks the trap as failed.
Raise(kind) ==
    IF pc = "remove"
    THEN err' = JoinErr(err, kind) /\ UNCHANGED res
    ELSE res' = [res EXCEPT ![item.trap] = "fail"] /\ UNCHANGED err

\* What the commands leave at the path: the decoy, or nothing after "rm -f".
Effect(c) ==
    file' = [file EXCEPT ![item.pod][c][PathOf[item.trap]] =
               IF pc = "remove" THEN None ELSE item.trap]

RunnableIn(c) == pod[item.pod].phase = "live" /\ pod[item.pod].run[c] # "down"

ExecOk(c) ==
    /\ item # None /\ c \in left /\ RunnableIn(c)
    /\ Effect(c)
    /\ left' = left \ {c} /\ acc' = acc \cup {c}
    /\ UNCHANGED <<apiVars, cacheVars, freshVars, queueVars, pc, cur, goal, finalizing,
                   todo, work, item, err, res, budgets>>

\* The API server does not know the pod any more, or the kubelet does not run
\* the container.
ExecUnreachable(c) ==
    /\ item # None /\ c \in left /\ ~RunnableIn(c)
    /\ Raise(IF pod[item.pod].phase = "live" THEN "plain" ELSE "notfound")
    /\ left' = left \ {c}
    /\ UNCHANGED <<apiVars, cacheVars, freshVars, queueVars, pc, cur, goal, finalizing,
                   todo, work, item, acc, budgets, file>>

\* mkdir, the write or rm fails, e.g. on a read-only file system.
ExecFails(c) ==
    /\ Fault
    /\ "execfail" \in Env
    /\ item # None /\ c \in left /\ RunnableIn(c)
    /\ Raise("plain")
    /\ left' = left \ {c}
    /\ UNCHANGED <<apiVars, cacheVars, freshVars, queueVars, pc, cur, goal, finalizing,
                   todo, work, item, acc, file>>

\* The write or rm succeeds and the check with cat, chmod or the test fails.
ExecHalfDone(c) ==
    /\ Fault
    /\ "halfexec" \in Env
    /\ item # None /\ c \in left /\ RunnableIn(c)
    /\ Effect(c)
    /\ Raise("plain")
    /\ left' = left \ {c}
    /\ UNCHANGED <<apiVars, cacheVars, freshVars, queueVars, pc, cur, goal, finalizing,
                   todo, work, item, acc>>

\* Mutant: the item in progress is not reset.
NextItemKeepsOld == item' = item /\ work' = work \ {item} /\ left' = {} /\ acc' = {}

NextItem == item' = None /\ work' = work \ {item} /\ left' = {} /\ acc' = {}

\* Mutant: containers where a command failed are recorded like the others.
RecordedAll(ann) ==
    IF pc = "deploy" THEN AddTrap(ann, cur, item.trap, item.conts)
    ELSE IF acc = item.conts THEN RemoveTrap(ann, cur, item.trap, item.conts)
    ELSE UpdateContainers(ann, cur, item.trap, item.conts \ acc)

\* The new annotation of the pod of item.
Recorded(ann) ==
    IF pc = "deploy" THEN AddTrap(ann, cur, item.trap, acc)
    ELSE IF acc = item.conts THEN RemoveTrap(ann, cur, item.trap, item.conts)
    ELSE UpdateContainers(ann, cur, item.trap, item.conts \ acc)

\* Nothing to record after a deployment that succeeded in no container.
SkipRecord ==
    /\ pc = "deploy" /\ item # None /\ left = {} /\ acc = {}
    /\ NextItem
    /\ UNCHANGED <<apiVars, cacheVars, freshVars, queueVars, pc, cur, goal, finalizing,
                   todo, err, res, budgets, file>>

MustRecord == item # None /\ left = {} /\ (pc = "deploy" => acc # {})

\* Mutant: the update is sent without a resourceVersion.
AnnotateBlindly ==
    /\ MustRecord /\ pod[item.pod].phase = "live"
    /\ WritePod(item.pod, [cpod[item.pod] EXCEPT !.ann = Recorded(@)])
    /\ NextItem
    /\ UNCHANGED <<policy, polEvent, polFresh, cacheVars, queueVars, pc, cur, goal,
                   finalizing, todo, err, res, budgets, file>>

\* Get and Update under RetryOnConflict: in the end the update starts from the
\* current object, or the retries are used up, or the pod is gone.
Annotate ==
    /\ MustRecord /\ pod[item.pod].phase = "live" /\ podFresh[item.pod]
    /\ WritePod(item.pod, [cpod[item.pod] EXCEPT !.ann = Recorded(@)])
    /\ NextItem
    /\ UNCHANGED <<policy, polEvent, polFresh, cacheVars, queueVars, pc, cur, goal,
                   finalizing, todo, err, res, budgets, file>>

AnnotateFails ==
    /\ MustRecord
    /\ \/ pod[item.pod].phase # "live" /\ Raise("notfound")
       \/ /\ Lagging /\ ~podFresh[item.pod] /\ pod[item.pod].phase = "live"
          /\ Raise("conflict")
    /\ NextItem
    /\ UNCHANGED <<apiVars, cacheVars, freshVars, queueVars, pc, cur, goal, finalizing,
                   todo, budgets, file>>

\* Mutants: a failed clean-up is taken for a finished one, or is not retried.
AbortRemovalGoesOn ==
    /\ pc = "remove" /\ item = None /\ err # "none"
    /\ work' = {} /\ err' = "none"
    /\ UNCHANGED <<apiVars, cacheVars, freshVars, queueVars, pc, cur, goal, finalizing,
                   todo, item, left, acc, res, budgets, file>>

AbortRemovalForgets ==
    /\ pc = "remove" /\ item = None /\ err # "none"
    /\ Return(FALSE)
    /\ UNCHANGED <<apiVars, cacheVars, freshVars, queue, budgets, file>>

\* The first error ends the clean-up.  During finalization Reconcile takes a
\* NotFound error to mean that the finalizer has been removed already.
AbortRemoval ==
    /\ pc = "remove" /\ item = None /\ err # "none"
    /\ IF finalizing
       THEN Return(err # "notfound")
       ELSE /\ pc' = "status" /\ work' = {}
            /\ UNCHANGED <<delayed, cur, goal, finalizing, todo, item, left, acc, err, res>>
    /\ UNCHANGED <<apiVars, cacheVars, freshVars, queue, budgets, file>>

\* Everything is removed.  With strictValidation an invalid trap ends the
\* reconciliation here.
FinishRemoval ==
    /\ pc = "remove" /\ item = None /\ work = {} /\ err = "none"
    /\ IF finalizing
       THEN pc' = "release" /\ UNCHANGED todo
       ELSE IF goal.spec.strict /\ goal.spec.traps \ ValidTraps # {}
       THEN pc' = "status" /\ UNCHANGED todo
       ELSE pc' = "deploy" /\ todo' = goal.spec.traps \cap ValidTraps
    /\ UNCHANGED <<apiVars, cacheVars, freshVars, queueVars, cur, goal, finalizing,
                   work, item, left, acc, err, res, budgets, file>>

\* An object marked for deletion goes with its last finalizer.
WithoutFinalizer(object) ==
    IF object.phase = "deleting" THEN NoPolicy ELSE [object EXCEPT !.fin = FALSE]

\* The finalizer is removed, and with it the policy.  A policy of the same name
\* that a user has created in the meantime does not have it: nothing is written.
ReleasePolicy ==
    /\ pc = "release" /\ CanReadPolicy(cur)
    /\ \/ ~cpolicy[cur].fin /\ UNCHANGED <<policy, polEvent, polFresh>>
       \/ /\ cpolicy[cur].fin /\ polFresh[cur]
          /\ WritePolicy(cur, WithoutFinalizer(cpolicy[cur]), TRUE)
    /\ Return(FALSE)
    /\ UNCHANGED <<pod, podFresh, cacheVars, queue, budgets, file>>

ReleaseConflict ==
    /\ pc = "release" /\ CanReadPolicy(cur)
    /\ cpolicy[cur].fin /\ ~polFresh[cur]
    /\ Return(TRUE)
    /\ UNCHANGED <<apiVars, cacheVars, freshVars, queue, budgets, file>>

\* The pods that the filters of trap t match, their ready selected containers,
\* and the outcome of DeployDecoy for the trap if no error happens.
Matched(t) ==
    {d \in Pods : /\ cpod[d].phase = "live" /\ cpod[d].labelled
                  /\ goal.spec.sel[t] # {}
                  /\ goal.spec.mutate \/ d \notin goal.old}
Deployable(d, t) == {c \in goal.spec.sel[t] : cpod[d].run[c] = "ready"}

\* Mutant: a running container counts as ready.
OutcomeOptimistic(t) ==
    IF Matched(t) = {} THEN "nomatch"
    ELSE IF \A d \in Matched(t), c \in Containers : cpod[d].run[c] # "down" THEN "ok"
    ELSE "retry"

Outcome(t) ==
    IF Matched(t) = {} THEN "nomatch"
    ELSE IF \A d \in Matched(t), c \in Containers : cpod[d].run[c] = "ready" THEN "ok"
    ELSE "retry"

\* One turn of the loop of reconcileDecoys.
MatchTrap(t) ==
    /\ pc = "deploy" /\ work = {} /\ t \in todo /\ CanReadPods
    /\ todo' = todo \ {t}
    /\ work' = {w \in WorkItem : /\ w.trap = t /\ w.pod \in Matched(t)
                                 /\ w.conts = Deployable(w.pod, t) /\ w.conts # {}
                                 /\ w.already = cpod[w.pod].ann[cur][t]}
    /\ res' = [res EXCEPT ![t] = Outcome(t)]
    /\ UNCHANGED <<apiVars, cacheVars, freshVars, queueVars, pc, cur, goal, finalizing,
                   item, left, acc, err, budgets, file>>

FinishDeploy ==
    /\ pc = "deploy" /\ work = {} /\ todo = {}
    /\ pc' = "status"
    /\ UNCHANGED <<apiVars, cacheVars, freshVars, queueVars, cur, goal, finalizing,
                   todo, work, item, left, acc, err, res, budgets, file>>

With(r) == Cardinality({t \in Traps : res[t] = r})

\* translateReconcileResultToStatusCondition; no condition is set for a
\* reconciliation that stopped before reconcileDecoys or without valid traps.
DecoysReason ==
    IF \A t \in Traps : res[t] = "none" THEN "DecoyDeploymentPending"
    ELSE IF With("fail") > 0 THEN "DecoyDeploymentError"
    ELSE IF With("ok") = 0 THEN "NoObjectsMatched"
    ELSE IF With("retry") + With("nomatch") = 0 THEN "DecoyDeploymentSucceeded"
    ELSE "DecoyDeploymentSucceededPartially"

ValidReason ==
    IF err # "none" \/ goal.spec.traps = {} THEN "ValidationPending"
    ELSE IF goal.spec.traps \subseteq ValidTraps THEN "TrapsSpecValid"
    ELSE "TrapsSpecInvalid"

NewStatus == [valid |-> ValidReason, decoys |-> DecoysReason,
              done |-> With("ok"), tries |-> With("ok") + With("fail")]

\* Mutant: traps whose pods are not ready are not tried again.
RequeueErrors == err # "none"

\* The end of Reconcile: a failed clean-up is retried with a back-off, traps
\* whose pods are not ready after a delay, failed traps not at all.
Requeue == err # "none" \/ \E t \in Traps : res[t] = "retry"

\* Mutant: the status is written over the whole object, whatever it is now.
UpdateStatusBlindly ==
    /\ pc = "status" /\ cpolicy[cur].phase # "absent"
    /\ WritePolicy(cur, [cpolicy[cur] EXCEPT !.status = NewStatus], FALSE)
    /\ Return(Requeue)
    /\ UNCHANGED <<pod, podFresh, cacheVars, queue, budgets, file>>

\* updateStatusConditions writes only if a condition changes.
UpdateStatus ==
    /\ pc = "status" /\ CanReadPolicy(cur) /\ cpolicy[cur].phase # "absent"
    /\ \/ /\ cpolicy[cur].status = NewStatus
          /\ UNCHANGED <<policy, polEvent, polFresh>>
       \/ /\ cpolicy[cur].status # NewStatus /\ polFresh[cur]
          /\ WritePolicy(cur, [cpolicy[cur] EXCEPT !.status = NewStatus], FALSE)
    /\ Return(Requeue)
    /\ UNCHANGED <<pod, podFresh, cacheVars, queue, budgets, file>>

UpdateStatusFails ==
    /\ pc = "status" /\ CanReadPolicy(cur)
    /\ \/ cpolicy[cur].phase = "absent"
       \/ cpolicy[cur].status # NewStatus /\ ~polFresh[cur]
    /\ Return(TRUE)
    /\ UNCHANGED <<apiVars, cacheVars, freshVars, queue, budgets, file>>

\* The controller restarts: it lists all objects, and each policy it finds is
\* a create event.  What the worker was doing is forgotten.
Crash ==
    /\ Fault
    /\ "crash" \in Env
    /\ ForgetRequest
    /\ cpolicy' = policy /\ polFresh' = [p \in Policies |-> TRUE]
    /\ polEvent' = [p \in Policies |-> FALSE]
    /\ cpod' = pod /\ podFresh' = [d \in Pods |-> TRUE]
    /\ queue' = {p \in Policies : policy[p].phase # "absent"} /\ delayed' = {}
    /\ UNCHANGED <<policy, pod, file>>

-----------------------------------------------------------------------------
UserStep ==
    \/ \E p \in Policies, s \in Specs : EditPolicy(p, s)
    \/ \E p \in Policies, s \in Specs, canon \in BOOLEAN : CreatePolicy(p, s, canon)
    \/ \E p \in Policies : DeletePolicy(p)
    \/ \E d \in Pods, labelled \in BOOLEAN : CreatePod(d, labelled)
    \/ \E d \in Pods : LabelPod(d) \/ DeletePod(d)

FaultStep ==
    \/ \E d \in Pods, c \in Containers : Unready(d, c) \/ RestartContainer(d, c)
    \/ \E c \in Containers : ExecFails(c) \/ ExecHalfDone(c)
    \/ Crash

KubeletStep == \E d \in Pods, c \in Containers : Start(d, c)

InformerStep == (\E p \in Policies : SyncPolicy(p)) \/ (\E d \in Pods : SyncPod(d))

WorkerStep ==
    \/ PutFinalizer \/ PutFinalizerFails
    \/ ListAnnotated \/ (\E w \in work : StartItem(w))
    \/ \E c \in Containers : ExecOk(c) \/ ExecUnreachable(c)
    \/ SkipRecord \/ Annotate \/ AnnotateFails
    \/ AbortRemoval \/ FinishRemoval \/ ReleasePolicy \/ ReleaseConflict
    \/ (\E t \in Traps : MatchTrap(t)) \/ FinishDeploy
    \/ UpdateStatus \/ UpdateStatusFails

Next == \/ UserStep \/ FaultStep \/ KubeletStep \/ InformerStep
        \/ \E p \in Policies : FireTimer(p) \/ Fetch(p)
        \/ WorkerStep

Spec == Init /\ [][Next]_vars

\* The worker never blocks, informers deliver and containers start.  The work
\* queue is first in first out, so every queued policy gets its turn.
Fairness ==
    /\ WF_vars(WorkerStep)
    /\ \A p \in Policies : SF_vars(Fetch(p)) /\ WF_vars(SyncPolicy(p)) /\ WF_vars(FireTimer(p))
    /\ \A d \in Pods : WF_vars(SyncPod(d))
    /\ \A d \in Pods, c \in Containers : WF_vars(Start(d, c))

FairSpec == Spec /\ Fairness
=============================================================================
