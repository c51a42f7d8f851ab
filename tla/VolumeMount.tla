---------------------------- MODULE VolumeMount ----------------------------
(***************************************************************************)
(* Decoys of the volumeMount strategy: the file is an entry of a Secret,   *)
(* and the template of a Deployment gets a volume for it and a mount in    *)
(* each selected container.  Reconcile goes the same way as for the decoys *)
(* of DecoyReconciler, and this module has its path through Deployments    *)
(* and Secrets, captor strategy "none", all traps valid, existing          *)
(* resources mutable.                                                      *)
(*                                                                         *)
(* Policies are read and written when they are current, and their events   *)
(* come at once (DecoyReconciler has the other cases).  A Deployment is    *)
(* read from the cache when the cached copy is current, but Update comes   *)
(* later, from that copy: the API server refuses it if the Deployment has  *)
(* changed meanwhile, which valid tells.  A Secret may be read, as a fault,*)
(* from a cache that is not current.                                       *)
(***************************************************************************)
EXTENDS Annotations, Integers, FiniteSets, Sequences

CONSTANTS
    Deps,           \* names of Deployments, in one namespace
    Paths, Secrets, \* PathOf[t] and SecretOf[t] stand for the names of the
    PathOf,         \*   volume (a hash of the path) and of the Secret (a hash
    SecretOf,       \*   of path and content) of trap t
    SelectedBy,     \* SelectedBy[t]: the containers that trap t selects
    MatchedBy,      \* MatchedBy[p]: the Deployments that policy p matches
    Late,           \* Deployments that get their labels, or are created, late
    PlanOf,         \* PlanOf[p]: the traps of policy p, one edit after another
    None,
    Env,            \* what the environment may do, see EnvKinds
    MaxFaults       \* bound on faults and on edits of Deployments

EnvKinds == {
    "lag",          \* Secrets are read from a cache that is not current
    "edit",         \* users change something else in a template
    "status",       \* the Deployment controller writes the status
    "apierror",     \* updates of Deployments fail
    "secreterror",  \* creating and deleting Secrets fails
    "crash" }       \* the controller restarts

ASSUME VolumeEnvAssumption == Env \subseteq EnvKinds
ASSUME VolumeTrapsAssumption ==
    /\ PathOf \in [Traps -> Paths] /\ SecretOf \in [Traps -> Secrets]
    /\ \A t, u \in Traps : SecretOf[t] = SecretOf[u] => PathOf[t] = PathOf[u]
    /\ SelectedBy \in [Traps -> SUBSET Containers]
ASSUME VolumePoliciesAssumption ==
    /\ MatchedBy \in [Policies -> SUBSET Deps]
    /\ PlanOf \in [Policies -> Seq(SUBSET Traps) \ {<<>>}]
ASSUME VolumeBoundAssumption == MaxFaults \in Nat /\ Late \subseteq Deps
ASSUME VolumeNoneAssumption == None \notin Policies \cup Secrets \cup Containers

VARIABLES
    policy,         \* DeceptionPolicies
    dep, cdep,      \* Deployments in the API server and in the cache
    depFresh,       \* the cached copy is current
    depEvent,       \* generation or labels changed since the last delivery
    secret, csecret, secFresh,  \* existing Secrets, those in the cache
    queue, delayed, \* the work queue of the controller, delayed requests
    pc,             \* where the worker is in Reconcile
    cur, goal,      \* the policy it reconciles, its traps as first read
    finalizing,     \* markedForDeletion
    todo,           \* traps not looked at yet by reconcileDecoys
    work, item,     \* decoys to remove or to deploy; the one in progress
    left, cont,     \* containers to do; the one in progress
    copy, valid,    \* Deployments as read; those that are still as read
    acc,            \* deployedToContainers or removedFromContainers
    bad, err,       \* error of this container, first error of the clean-up
    res,            \* DecoyDeploymentResult of each trap
    misled,         \* history: Secrets that createSecret saw after their end
    lost,           \* history: Deployments that got a mount and no record of it
    faults          \* budget used up

depVars    == <<dep, depFresh, depEvent>>
secretVars == <<secret, secFresh>>
cacheVars  == <<cdep, csecret>>
reqVars    == <<cur, goal, finalizing>>
itemVars   == <<work, item, left, cont, copy, acc, bad>>
resultVars == <<todo, err, res>>
queueVars  == <<queue, delayed>>
history    == <<misled, lost>>
vars == <<policy, depVars, secretVars, cacheVars, queueVars, pc, reqVars, itemVars, valid,
          resultVars, history, faults>>

-----------------------------------------------------------------------------
Results == {"none", "ok", "fail", "retry", "nomatch"}
Reasons == {"DecoyDeploymentPending", "DecoyDeploymentSucceeded",
            "DecoyDeploymentSucceededPartially", "DecoyDeploymentError",
            "NoObjectsMatched"}

PolicyObject == [phase: {"unborn", "live", "deleting", "gone"}, fin: BOOLEAN, plan: Nat,
                 status: Reasons]
DeploymentObject == [labelled: BOOLEAN, avail: BOOLEAN, user: Nat,
                     vols: [Paths -> Secrets \cup {None}],
                     mounts: [Containers -> SUBSET Paths], ann: Annotation]
WorkItem == [dep: Deps, trap: Traps, conts: SUBSET Containers, already: SUBSET Containers]
ErrorKinds == {"none", "other", "notfound"}

NewDeployment == [labelled |-> FALSE, avail |-> TRUE, user |-> 0,
                  vols |-> [x \in Paths |-> None],
                  mounts |-> [c \in Containers |-> {}], ann |-> NoAnnotation]

NoCopies == [d \in Deps |-> NewDeployment]

TypeOK ==
    /\ policy \in [Policies -> PolicyObject]
    /\ dep \in [Deps -> DeploymentObject] /\ cdep \in [Deps -> DeploymentObject]
    /\ depFresh \in [Deps -> BOOLEAN] /\ depEvent \in [Deps -> BOOLEAN]
    /\ secret \subseteq Secrets /\ csecret \subseteq Secrets
    /\ secFresh \in [Secrets -> BOOLEAN]
    /\ queue \subseteq Policies /\ delayed \subseteq Policies
    /\ pc \in {"idle", "adopt", "list", "remove", "drop", "release", "deploy", "mount", "status"}
    /\ cur \in Policies \cup {None} /\ (pc # "idle" => cur # None)
    /\ goal \subseteq Traps /\ finalizing \in BOOLEAN
    /\ todo \subseteq Traps /\ work \subseteq WorkItem /\ item \in work \cup {None}
    /\ left \subseteq Containers /\ cont \in Containers \cup {None}
    /\ (cont # None <=> pc \in {"drop", "mount"}) /\ (cont # None => item # None)
    /\ copy \in [Deps -> DeploymentObject] /\ valid \subseteq Deps
    /\ acc \subseteq Containers /\ bad \in ErrorKinds /\ err \in ErrorKinds
    /\ res \in [Traps -> Results] /\ misled \subseteq Secrets /\ lost \subseteq Deps
    /\ faults \in Nat

Init ==
    /\ policy = [p \in Policies |-> [phase |-> "unborn", fin |-> FALSE, plan |-> 1,
                                     status |-> "DecoyDeploymentPending"]]
    /\ dep = [d \in Deps |-> [NewDeployment EXCEPT !.labelled = d \notin Late]] /\ cdep = dep
    /\ depFresh = [d \in Deps |-> TRUE] /\ depEvent = [d \in Deps |-> FALSE]
    /\ secret = {} /\ csecret = {} /\ secFresh = [s \in Secrets |-> TRUE]
    /\ queue = {} /\ delayed = {}
    /\ pc = "idle" /\ cur = None /\ goal = {} /\ finalizing = FALSE
    /\ todo = {} /\ work = {} /\ item = None /\ left = {} /\ cont = None
    /\ copy = NoCopies /\ valid = {} /\ acc = {} /\ bad = "none" /\ err = "none"
    /\ res = [t \in Traps |-> "none"] /\ misled = {} /\ lost = {} /\ faults = 0

-----------------------------------------------------------------------------
(* The API server.                                                         *)

\* A write that changes nothing keeps the resourceVersion.
WriteDeployment(d, object, event) ==
    IF object = dep[d] THEN UNCHANGED <<depVars, valid>>
    ELSE /\ dep' = [dep EXCEPT ![d] = object]
         /\ depFresh' = [depFresh EXCEPT ![d] = FALSE]
         /\ depEvent' = [depEvent EXCEPT ![d] = @ \/ event]
         /\ valid' = valid \ {d}

WriteSecrets(ss, s) ==
    /\ secret' = ss
    /\ secFresh' = IF ss = secret THEN secFresh ELSE [secFresh EXCEPT ![s] = FALSE]

Fault(kind) == kind \in Env /\ faults < MaxFaults /\ faults' = faults + 1

(* Users.                                                                  *)

TrapsOf(p) == PlanOf[p][policy[p].plan]

PolicyStep(p) ==
    /\ queue' = queue \cup {p}
    /\ UNCHANGED <<depVars, secretVars, cacheVars, delayed, pc, reqVars, itemVars, valid,
                   resultVars, history, faults>>

CreatePolicy(p) ==
    /\ policy[p].phase = "unborn"
    /\ policy' = [policy EXCEPT ![p].phase = "live"]
    /\ PolicyStep(p)

EditPolicy(p) ==
    /\ policy[p].phase = "live" /\ policy[p].plan < Len(PlanOf[p])
    /\ policy' = [policy EXCEPT ![p].plan = @ + 1]
    /\ PolicyStep(p)

DeletePolicy(p) ==
    /\ policy[p].phase = "live"
    /\ policy' = [policy EXCEPT ![p].phase = IF policy[p].fin THEN "deleting" ELSE "gone"]
    /\ PolicyStep(p)

DeploymentStep(d, object, event) ==
    /\ WriteDeployment(d, object, event)
    /\ UNCHANGED <<policy, secretVars, cacheVars, queueVars, pc, reqVars, itemVars,
                   resultVars, history>>

\* The Deployment gets the labels that the traps match, or is created with them.
LabelDeployment(d) ==
    /\ ~dep[d].labelled
    /\ DeploymentStep(d, [dep[d] EXCEPT !.labelled = TRUE], TRUE)
    /\ UNCHANGED faults

\* Something else in the template changes, for instance an image.
EditDeployment(d) ==
    /\ Fault("edit")
    /\ dep[d].labelled
    /\ DeploymentStep(d, [dep[d] EXCEPT !.user = @ + 1], TRUE)

(* The Deployment controller writes the status: no event for the filter.   *)

BecomeAvailable(d) ==
    /\ ~dep[d].avail
    /\ DeploymentStep(d, [dep[d] EXCEPT !.avail = TRUE], FALSE)
    /\ UNCHANGED faults

BecomeUnavailable(d) ==
    /\ Fault("status")
    /\ dep[d].avail
    /\ DeploymentStep(d, [dep[d] EXCEPT !.avail = FALSE], FALSE)

-----------------------------------------------------------------------------
(* Informers and the work queue.                                           *)

SyncDeployment(d) ==
    /\ ~depFresh[d]
    /\ cdep' = [cdep EXCEPT ![d] = dep[d]]
    /\ depFresh' = [depFresh EXCEPT ![d] = TRUE]
    /\ depEvent' = [depEvent EXCEPT ![d] = FALSE]
    /\ queue' = IF depEvent[d]
                THEN queue \cup {p \in Policies : policy[p].phase \in {"live", "deleting"}}
                ELSE queue
    /\ UNCHANGED <<policy, dep, secretVars, csecret, delayed, pc, reqVars, itemVars, valid,
                   resultVars, history, faults>>

SyncSecret(s) ==
    /\ ~secFresh[s]
    /\ csecret' = IF s \in secret THEN csecret \cup {s} ELSE csecret \ {s}
    /\ secFresh' = [secFresh EXCEPT ![s] = TRUE]
    /\ UNCHANGED <<policy, depVars, secret, cdep, queueVars, pc, reqVars, itemVars, valid,
                   resultVars, history, faults>>

FireTimer(p) ==
    /\ p \in delayed
    /\ delayed' = delayed \ {p} /\ queue' = queue \cup {p}
    /\ UNCHANGED <<policy, depVars, secretVars, cacheVars, pc, reqVars, itemVars, valid,
                   resultVars, history, faults>>

Read(s) == \/ secFresh[s] /\ UNCHANGED faults
           \/ ~secFresh[s] /\ Fault("lag")

-----------------------------------------------------------------------------
(* The worker.                                                             *)

\* Mutant: the container in progress is not reset.
ForgetItemOnly == item' = None /\ left' = {} /\ cont' = cont /\ acc' = {} /\ bad' = "none"

ForgetItem == item' = None /\ left' = {} /\ cont' = None /\ acc' = {} /\ bad' = "none"

ForgetRequest ==
    /\ pc' = "idle" /\ cur' = None /\ goal' = {} /\ finalizing' = FALSE
    /\ ForgetItem /\ work' = {} /\ copy' = NoCopies /\ valid' = {}
    /\ todo' = {} /\ err' = "none" /\ res' = [t \in Traps |-> "none"]

Return(retry) ==
    /\ delayed' = IF retry THEN delayed \cup {cur} ELSE delayed
    /\ ForgetRequest

\* Reconcile up to its first write.
Fetch(p) ==
    /\ pc = "idle" /\ p \in queue
    /\ queue' = queue \ {p}
    /\ IF policy[p].phase \in {"live", "deleting"}
       THEN /\ cur' = p /\ goal' = TrapsOf(p)
            /\ finalizing' = (policy[p].phase = "deleting")
            /\ pc' = IF policy[p].fin THEN "list" ELSE "adopt"
       ELSE UNCHANGED <<pc, reqVars>>
    /\ UNCHANGED <<policy, depVars, secretVars, cacheVars, delayed, itemVars, valid,
                   resultVars, history, faults>>

\* putFinalizer; the change brings the next request.
PutFinalizer ==
    /\ pc = "adopt"
    /\ \/ /\ policy[cur].phase = "live"
          /\ policy' = [policy EXCEPT ![cur].fin = TRUE] /\ queue' = queue \cup {cur}
          /\ Return(FALSE)
       \/ /\ policy[cur].phase # "live"
          /\ Return(TRUE) /\ UNCHANGED <<policy, queue>>
    /\ UNCHANGED <<depVars, secretVars, cacheVars, history, faults>>

\* The decoys to remove: all when the policy goes, otherwise those whose trap
\* is not in the policy any more.
Unwanted ==
    {w \in WorkItem : /\ w.trap \in (IF finalizing THEN Traps ELSE Traps \ goal)
                      /\ w.conts = cdep[w.dep].ann[cur][w.trap] /\ w.conts # {}
                      /\ w.already = {}}

\* The List of GetAnnotatedResources: the clean-up works on its copies.
ListAnnotated ==
    /\ pc = "list" /\ \A d \in Deps : depFresh[d]
    /\ work' = Unwanted
    /\ copy' = [d \in Deps |-> IF \E w \in Unwanted : w.dep = d THEN cdep[d] ELSE NewDeployment]
    /\ valid' = {w.dep : w \in Unwanted}
    /\ pc' = "remove"
    /\ UNCHANGED <<policy, depVars, secretVars, cacheVars, queueVars, reqVars, item, left,
                   cont, acc, bad, resultVars, history, faults>>

\* Mutant: containers that have the decoy already drop out of the annotation.
StartItemAfresh(w) ==
    /\ item = None /\ w \in work
    /\ pc = "deploy" \/ (pc = "remove" /\ err = "none")
    /\ item' = w
    /\ left' = w.conts \ w.already /\ acc' = {}
    /\ UNCHANGED <<policy, depVars, secretVars, cacheVars, queueVars, pc, reqVars, work, cont,
                   copy, valid, bad, resultVars, history, faults>>

\* One turn of the loops over Deployments and traps.
StartItem(w) ==
    /\ item = None /\ w \in work
    /\ pc = "deploy" \/ (pc = "remove" /\ err = "none")
    /\ item' = w
    /\ left' = w.conts \ w.already /\ acc' = w.conts \cap w.already
    /\ UNCHANGED <<policy, depVars, secretVars, cacheVars, queueVars, pc, reqVars, work, cont,
                   copy, valid, bad, resultVars, history, faults>>

Take(c) == item # None /\ cont = None /\ c \in left /\ left' = left \ {c}

Dep == item.dep
Volume == PathOf[item.trap]
Secret == SecretOf[item.trap]

\* errors.Join, as IgnoreNotFound looks into it: the first API status counts.
JoinErr(a, b) == IF a = "none" THEN b ELSE a

\* removeDecoyWithVolumeMount gets the Deployment by value.  The list of its
\* containers is shared with the caller, so the mount is gone from the caller's
\* copy as well, whatever becomes of the update; the list of volumes and the
\* new resourceVersion are not.
Unmounted(object, c) == [object EXCEPT !.mounts[c] = @ \ {Volume}]
WithoutVolume(object) == [object EXCEPT !.vols[Volume] = None]

\* A mount without its volume is invalid.
Invalid(object) == \E c \in Containers : \E x \in object.mounts[c] : object.vols[x] = None

Unmount(c) ==
    /\ pc = "remove" /\ Take(c)
    /\ cont' = c /\ pc' = "drop"
    /\ copy' = [copy EXCEPT ![Dep] = Unmounted(@, c)]
    /\ UNCHANGED <<policy, secretVars, cacheVars, queueVars, reqVars, work, item, acc,
                   resultVars, history>>

\* Mutant: the update does not carry the resourceVersion of the copy.
UnmountAndUpdateBlindly(c) ==
    /\ Unmount(c)
    /\ LET new == WithoutVolume(Unmounted(copy[Dep], c)) IN
       IF Invalid(new)
       THEN bad' = "other" /\ UNCHANGED <<depVars, valid>>
       ELSE bad' = "none" /\ WriteDeployment(Dep, new, TRUE)
    /\ UNCHANGED faults

UnmountAndUpdate(c) ==
    /\ Unmount(c)
    /\ LET new == WithoutVolume(Unmounted(copy[Dep], c)) IN
       IF Dep \notin valid \/ Invalid(new)
       THEN bad' = "other" /\ UNCHANGED <<depVars, valid>>
       ELSE bad' = "none" /\ WriteDeployment(Dep, new, TRUE)
    /\ UNCHANGED faults

UnmountFails(c) ==
    /\ Fault("apierror")
    /\ Unmount(c)
    /\ bad' = "other"
    /\ UNCHANGED <<depVars, valid>>

\* The Secret goes whether or not the update was accepted, and errors of Delete
\* are ignored; a Secret that the cached Get does not find is an error.
EndContainer(e) ==
    /\ pc = "drop"
    /\ pc' = "remove" /\ cont' = None /\ bad' = "none"
    /\ err' = JoinErr(err, JoinErr(bad, e))
    /\ acc' = IF bad = "none" /\ e = "none" THEN acc \cup {cont} ELSE acc
    /\ UNCHANGED <<policy, depVars, cacheVars, queueVars, reqVars, work, item, left, copy,
                   valid, todo, res, history>>

NoSecretLeft ==
    /\ pc = "drop"
    /\ LET s == copy[Dep].vols[Volume] IN
       \/ s = None /\ EndContainer("none") /\ UNCHANGED faults
       \/ s # None /\ s \notin csecret /\ EndContainer("notfound") /\ Read(s)
    /\ UNCHANGED secretVars

DeleteSecret ==
    /\ pc = "drop"
    /\ LET s == copy[Dep].vols[Volume] IN
       /\ s # None /\ s \in csecret /\ Read(s)
       /\ WriteSecrets(secret \ {s}, s)
    /\ EndContainer("none")

DeleteSecretFails ==
    /\ Fault("secreterror")
    /\ pc = "drop"
    /\ LET s == copy[Dep].vols[Volume] IN s # None /\ secFresh[s] /\ s \in csecret
    /\ EndContainer("none")
    /\ UNCHANGED secretVars

FailTrap == res' = [res EXCEPT ![item.trap] = "fail"]

\* A container in which the deployment fails.
FailContainer(c) ==
    /\ pc = "deploy" /\ Take(c)
    /\ FailTrap
    /\ UNCHANGED <<policy, depVars, secretVars, cacheVars, queueVars, pc, reqVars, work, item,
                   cont, copy, valid, acc, bad, todo, err>>

\* createSecret, and then the Get of the Deployment.
CreateSecret(c) ==
    /\ pc = "deploy" /\ Take(c) /\ depFresh[Dep] /\ Read(Secret)
    /\ \/ /\ Secret \in csecret
          /\ misled' = IF Secret \in secret THEN misled \ {Secret} ELSE misled \cup {Secret}
          /\ UNCHANGED secretVars
       \/ /\ Secret \notin csecret \cup secret
          /\ WriteSecrets(secret \cup {Secret}, Secret)
          /\ misled' = misled \ {Secret}
    /\ cont' = c /\ pc' = "mount"
    /\ copy' = [copy EXCEPT ![Dep] = cdep[Dep]] /\ valid' = {Dep}
    /\ UNCHANGED <<policy, depVars, cacheVars, queueVars, reqVars, work, item, acc, bad,
                   resultVars, lost>>

\* The Secret exists although the cache does not show it.
SecretExists(c) ==
    /\ FailContainer(c)
    /\ Secret \in secret \ csecret /\ Read(Secret)
    /\ UNCHANGED history

CreateSecretFails(c) ==
    /\ Fault("secreterror")
    /\ FailContainer(c)
    /\ secFresh[Secret] /\ Secret \notin csecret
    /\ UNCHANGED history

\* A volume of that name is taken as it is.
Mounted(object) ==
    [object EXCEPT !.vols[Volume] = IF @ = None THEN Secret ELSE @,
                   !.mounts[cont] = @ \cup {Volume}]

EndMount ==
    /\ pc = "mount"
    /\ pc' = "deploy" /\ cont' = None
    /\ copy' = NoCopies
    /\ UNCHANGED <<policy, secretVars, cacheVars, queueVars, reqVars, work, item, left, bad,
                   todo, err, history>>

MountAndUpdate ==
    /\ EndMount
    /\ Dep \in valid
    /\ WriteDeployment(Dep, Mounted(copy[Dep]), TRUE)
    /\ acc' = acc \cup {cont}
    /\ UNCHANGED <<res, faults>>

\* The Deployment has changed since the Get; no retry reads it again.
MountConflict ==
    /\ EndMount
    /\ Dep \notin valid
    /\ FailTrap
    /\ UNCHANGED <<depVars, valid, acc, faults>>

MountFails ==
    /\ Fault("apierror")
    /\ EndMount
    /\ FailTrap
    /\ UNCHANGED <<depVars, valid, acc>>

\* Mutant: containers where the update failed are recorded like the others.
RecordedAll(ann) ==
    IF pc = "deploy" THEN AddTrap(ann, cur, item.trap, item.conts)
    ELSE IF acc = item.conts THEN RemoveTrap(ann, cur, item.trap, item.conts)
    ELSE UpdateContainers(ann, cur, item.trap, item.conts \ acc)

\* The new annotation of the Deployment of item.
Recorded(ann) ==
    IF pc = "deploy" THEN AddTrap(ann, cur, item.trap, acc)
    ELSE IF acc = item.conts THEN RemoveTrap(ann, cur, item.trap, item.conts)
    ELSE UpdateContainers(ann, cur, item.trap, item.conts \ acc)

EndItem ==
    /\ item # None /\ cont = None /\ left = {}
    /\ work' = work \ {item} /\ ForgetItem
    /\ UNCHANGED <<policy, secretVars, cacheVars, queueVars, pc, reqVars, todo, misled>>

\* Nothing to record after a deployment that succeeded in no container.
SkipRecord ==
    /\ pc = "deploy" /\ EndItem
    /\ acc = {}
    /\ UNCHANGED <<depVars, copy, valid, err, res, lost, faults>>

MustRecord == pc = "deploy" => acc # {}

Unrecorded == IF pc \in {"deploy", "mount"} /\ item # None /\ acc # {}
              THEN lost \cup {Dep} ELSE lost

\* Get and Update under RetryOnConflict.  The clean-up goes on with that object.
Annotate ==
    /\ EndItem
    /\ MustRecord /\ depFresh[Dep]
    /\ LET new == [cdep[Dep] EXCEPT !.ann = Recorded(@)] IN
       /\ dep' = [dep EXCEPT ![Dep] = new]
       /\ depFresh' = [depFresh EXCEPT ![Dep] = FALSE]
       /\ copy' = IF pc = "deploy" THEN NoCopies ELSE [copy EXCEPT ![Dep] = new]
       /\ valid' = IF pc = "deploy" THEN {} ELSE valid \cup {Dep}
    /\ UNCHANGED <<depEvent, err, res, lost, faults>>

AnnotateFails ==
    /\ Fault("apierror")
    /\ EndItem
    /\ MustRecord
    /\ lost' = Unrecorded
    /\ IF pc = "deploy" THEN FailTrap /\ UNCHANGED err
                        ELSE err' = JoinErr(err, "other") /\ UNCHANGED res
    /\ UNCHANGED <<depVars, copy, valid>>

\* Mutant: a failed clean-up is not tried again.
AbortRemovalForgets ==
    /\ pc = "remove" /\ item = None /\ err # "none"
    /\ Return(FALSE)
    /\ UNCHANGED <<policy, depVars, secretVars, cacheVars, queue, history, faults>>

\* The first error ends the clean-up.  During finalization a NotFound error is
\* taken to mean that the finalizer has been removed already.
AbortRemoval ==
    /\ pc = "remove" /\ item = None /\ err # "none"
    /\ IF finalizing
       THEN Return(err # "notfound")
       ELSE /\ pc' = "status" /\ work' = {} /\ copy' = NoCopies /\ valid' = {}
            /\ UNCHANGED <<delayed, reqVars, item, left, cont, acc, bad, resultVars>>
    /\ UNCHANGED <<policy, depVars, secretVars, cacheVars, queue, history, faults>>

FinishRemoval ==
    /\ pc = "remove" /\ item = None /\ work = {} /\ err = "none"
    /\ IF finalizing THEN pc' = "release" /\ UNCHANGED todo
                     ELSE pc' = "deploy" /\ todo' = goal
    /\ copy' = NoCopies /\ valid' = {}
    /\ UNCHANGED <<policy, depVars, secretVars, cacheVars, queueVars, reqVars, work, item,
                   left, cont, acc, bad, err, res, history, faults>>

ReleasePolicy ==
    /\ pc = "release"
    /\ policy' = [policy EXCEPT ![cur].phase = "gone", ![cur].fin = FALSE]
    /\ Return(FALSE)
    /\ UNCHANGED <<depVars, secretVars, cacheVars, queue, history, faults>>

\* The Deployments that the filters of the traps of the policy match.
Matched == {d \in MatchedBy[cur] : cdep[d].labelled}

\* Mutant: Deployments that are not available do not count.
OutcomeOptimistic == IF Matched = {} THEN "nomatch" ELSE "ok"

\* The outcome of DeployDecoy for a trap if no error happens.
Outcome == IF Matched = {} THEN "nomatch"
           ELSE IF \A d \in Matched : cdep[d].avail THEN "ok" ELSE "retry"

\* One turn of the loop of reconcileDecoys; a Deployment that is not available
\* is left for later, with all its containers.
MatchTrap(t) ==
    /\ pc = "deploy" /\ work = {} /\ t \in todo /\ \A d \in Deps : depFresh[d]
    /\ todo' = todo \ {t}
    /\ work' = {w \in WorkItem : /\ w.trap = t /\ w.dep \in Matched /\ cdep[w.dep].avail
                                 /\ w.conts = SelectedBy[t] /\ w.conts # {}
                                 /\ w.already = cdep[w.dep].ann[cur][t]}
    /\ res' = [res EXCEPT ![t] = Outcome]
    /\ UNCHANGED <<policy, depVars, secretVars, cacheVars, queueVars, pc, reqVars, item, left,
                   cont, copy, valid, acc, bad, err, history, faults>>

FinishDeploy ==
    /\ pc = "deploy" /\ work = {} /\ todo = {}
    /\ pc' = "status"
    /\ UNCHANGED <<policy, depVars, secretVars, cacheVars, queueVars, reqVars, itemVars, valid,
                   resultVars, history, faults>>

With(r) == Cardinality({t \in Traps : res[t] = r})

\* translateReconcileResultToStatusCondition; no condition is set for a
\* reconciliation that stopped before reconcileDecoys or without traps.
DecoysReason ==
    IF \A t \in Traps : res[t] = "none" THEN "DecoyDeploymentPending"
    ELSE IF With("fail") > 0 THEN "DecoyDeploymentError"
    ELSE IF With("ok") = 0 THEN "NoObjectsMatched"
    ELSE IF With("retry") + With("nomatch") = 0 THEN "DecoyDeploymentSucceeded"
    ELSE "DecoyDeploymentSucceededPartially"

\* Mutant: errors of the clean-up do not lead to another request.
RequeueNotReady == \E t \in Traps : res[t] = "retry"

\* A failed clean-up is retried with a back-off, traps whose Deployments are not
\* available after a delay, failed traps not at all.
Requeue == err # "none" \/ \E t \in Traps : res[t] = "retry"

UpdateStatus ==
    /\ pc = "status"
    /\ \/ /\ policy[cur].phase \in {"live", "deleting"}
          /\ policy' = [policy EXCEPT ![cur].status = DecoysReason]
          /\ Return(Requeue)
       \/ /\ policy[cur].phase = "gone"
          /\ Return(TRUE) /\ UNCHANGED policy
    /\ UNCHANGED <<depVars, secretVars, cacheVars, queue, history, faults>>

\* The controller restarts, lists everything and finds each policy.
Crash ==
    /\ Fault("crash")
    /\ ForgetRequest
    /\ cdep' = dep /\ depFresh' = [d \in Deps |-> TRUE] /\ depEvent' = [d \in Deps |-> FALSE]
    /\ csecret' = secret /\ secFresh' = [s \in Secrets |-> TRUE]
    /\ queue' = {p \in Policies : policy[p].phase \in {"live", "deleting"}} /\ delayed' = {}
    /\ lost' = Unrecorded
    /\ UNCHANGED <<policy, dep, secret, misled>>

-----------------------------------------------------------------------------
UserStep ==
    \/ \E p \in Policies : CreatePolicy(p) \/ EditPolicy(p) \/ DeletePolicy(p)
    \/ \E d \in Deps : LabelDeployment(d) \/ EditDeployment(d)

FaultStep ==
    \/ \E d \in Deps : BecomeUnavailable(d)
    \/ \E c \in Containers : UnmountFails(c) \/ CreateSecretFails(c)
    \/ DeleteSecretFails \/ MountFails \/ AnnotateFails \/ Crash

WorkerStep ==
    \/ PutFinalizer
    \/ ListAnnotated \/ (\E w \in work : StartItem(w))
    \/ \E c \in Containers : UnmountAndUpdate(c) \/ CreateSecret(c) \/ SecretExists(c)
    \/ NoSecretLeft \/ DeleteSecret
    \/ MountAndUpdate \/ MountConflict \/ SkipRecord \/ Annotate
    \/ AbortRemoval \/ FinishRemoval \/ ReleasePolicy
    \/ (\E t \in Traps : MatchTrap(t)) \/ FinishDeploy \/ UpdateStatus

Next == \/ UserStep \/ FaultStep \/ WorkerStep
        \/ \E p \in Policies : FireTimer(p) \/ Fetch(p)
        \/ \E d \in Deps : SyncDeployment(d) \/ BecomeAvailable(d)
        \/ \E s \in Secrets : SyncSecret(s)

Spec == Init /\ [][Next]_vars

\* As for DecoyReconciler; Deployments become available.
Fairness ==
    /\ WF_vars(WorkerStep)
    /\ \A p \in Policies : SF_vars(Fetch(p)) /\ WF_vars(FireTimer(p))
    /\ \A d \in Deps : WF_vars(SyncDeployment(d)) /\ WF_vars(BecomeAvailable(d))
    /\ \A s \in Secrets : WF_vars(SyncSecret(s))

FairSpec == Spec /\ Fairness
=============================================================================
