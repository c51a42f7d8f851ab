-------------------------- MODULE CaptorDeployment --------------------------
(***************************************************************************)
(* Captors: the TracingPolicies of Tetragon and the KivePolicies that      *)
(* watch the decoys of a DeceptionPolicy.  Reconcile deletes the captors   *)
(* of removed traps, deploys those of valid traps, and leaves the captors  *)
(* of a deleted policy to the garbage collector of the cluster, which acts *)
(* on their owner references.                                              *)
(*                                                                         *)
(* Decoys appear only where they stop Reconcile on its way to the captors. *)
(* Cached objects are current or not, as in DecoyReconciler.  Policies are *)
(* read when they are current (DecoyReconciler has the other case);        *)
(* captors are, with "lag" in Env, read at any time.                       *)
(***************************************************************************)
EXTENDS Integers, FiniteSets

CONSTANTS
    Policies, Traps,
    Names, KindOf,  \* names of captors; KindOf[n] is "tetragon" or "kive"
    NameOf,         \* the captor of trap t, None for strategy "none"
    ValidTraps,     \* the traps for which Trap.IsValid returns no error
    NoSelector,     \* traps with a filter by namespaces only
    SpecsOf,        \* the specs that users apply to policy p
    Reused,         \* policies that are created again after their deletion
    None,
    Env,            \* what the environment may do, see EnvKinds
    MaxEdits,       \* bound on the actions of users
    MaxFaults       \* bound on faults of the API server and the controller

EnvKinds == {
    "lag",          \* captors are read from a cache that is not current
    "apierror",     \* writes to the API server and commands in containers fail
    "notfound",     \* a pod or a Secret is gone when decoys are removed from it
    "crash" }       \* the controller restarts

DeceptionPolicySpec == [traps: SUBSET Traps, strict: BOOLEAN]

ASSUME CaptorEnvAssumption == Env \subseteq EnvKinds
ASSUME CaptorNamesAssumption ==
    /\ KindOf \in [Names -> {"tetragon", "kive"}]
    /\ NameOf \in [Traps -> Names \cup {None}]
ASSUME CaptorTrapsAssumption == ValidTraps \subseteq Traps /\ NoSelector \subseteq Traps
ASSUME CaptorSpecsAssumption ==
    SpecsOf \in [Policies -> SUBSET DeceptionPolicySpec] /\ Reused \subseteq Policies
ASSUME CaptorBoundAssumption == MaxEdits \in Nat /\ MaxFaults \in Nat
ASSUME CaptorNoneAssumption == None \notin Policies \cup Names \cup DeceptionPolicySpec

\* The name of a Tetragon policy is a hash of the whole trap.
ASSUME TetragonNamesAssumption ==
    \A t, u \in Traps : NameOf[t] = NameOf[u] /\ NameOf[t] # None
                            => t = u \/ KindOf[NameOf[t]] = "kive"

VARIABLES
    policy,         \* DeceptionPolicies in the API server
    cpolicy,        \* their copies in the cache
    polFresh,       \* the cached copy of the policy is current
    polEvent,       \* its generation has changed since the last delivery
    captor, ccaptor, capFresh,  \* the same for TracingPolicies and KivePolicies
    queue,          \* the work queue of the controller
    delayed,        \* requests that are queued again after a delay
    pc,             \* where the worker is in Reconcile
    cur,            \* req: the policy it reconciles
    goal,           \* deceptionPolicy, as the first Get returned it
    kind,           \* whose captors are being cleaned up
    surplus,        \* notFoundTracingPolicies that are still to be deleted
    todo,           \* valid traps not looked at yet by reconcileCaptors
    failed,         \* traps whose captor could not be deployed
    err,            \* Reconcile is going to return an error
    misread,        \* history: policies whose last request read a stale captor,
                    \*   or took an error for the end of the policy
    edits, faults   \* budgets used up

apiVars   == <<policy, polEvent, captor>>
cacheVars == <<cpolicy, ccaptor>>
freshVars == <<polFresh, capFresh>>
reqVars   == <<cur, goal, misread>>
localVars == <<pc, kind, surplus, todo, failed, err>>
queueVars == <<queue, delayed>>
budgets   == <<edits, faults>>
vars == <<apiVars, cacheVars, freshVars, reqVars, localVars, queueVars, budgets>>

-----------------------------------------------------------------------------
Reasons == {"none", "CaptorDeploymentPending", "CaptorDeploymentSucceeded",
            "CaptorDeploymentError"}

\* The uid tells a policy from an earlier one of the same name.  A policy that
\* is gone keeps it in the model, so that uid 0 is a name never used.
PolicyObject == [phase: {"absent", "live", "deleting"}, fin: BOOLEAN, uid: Nat,
                 spec: DeceptionPolicySpec \cup {None}, status: Reasons]

\* The label with the name of the policy, and the uid in the owner reference.
CaptorObject == [label: Policies, owner: Nat]

ASSUME NoCaptorAssumption == None \notin CaptorObject

NoPolicy == [phase |-> "absent", fin |-> FALSE, uid |-> 0, spec |-> None, status |-> "none"]

TypeOK ==
    /\ policy \in [Policies -> PolicyObject] /\ cpolicy \in [Policies -> PolicyObject]
    /\ polFresh \in [Policies -> BOOLEAN] /\ polEvent \in [Policies -> BOOLEAN]
    /\ captor \in [Names -> CaptorObject \cup {None}]
    /\ ccaptor \in [Names -> CaptorObject \cup {None}]
    /\ capFresh \in [Names -> BOOLEAN]
    /\ queue \subseteq Policies /\ delayed \subseteq Policies
    /\ pc \in {"idle", "adopt", "list", "delete", "decoys", "deploy", "status", "release"}
    /\ cur \in Policies \cup {None} /\ (pc # "idle" => cur # None)
    /\ goal \in PolicyObject /\ (pc # "idle" => goal.spec # None)
    /\ kind \in {"tetragon", "kive"}
    /\ surplus \subseteq Names /\ todo \subseteq Traps /\ failed \subseteq Traps
    /\ err \in BOOLEAN /\ misread \subseteq Policies
    /\ edits \in Nat /\ faults \in Nat

Init ==
    /\ policy = [p \in Policies |-> NoPolicy] /\ cpolicy = policy
    /\ polFresh = [p \in Policies |-> TRUE] /\ polEvent = [p \in Policies |-> FALSE]
    /\ captor = [n \in Names |-> None] /\ ccaptor = captor
    /\ capFresh = [n \in Names |-> TRUE]
    /\ queue = {} /\ delayed = {}
    /\ pc = "idle" /\ cur = None /\ goal = NoPolicy /\ kind = "tetragon"
    /\ surplus = {} /\ todo = {} /\ failed = {} /\ err = FALSE /\ misread = {}
    /\ edits = 0 /\ faults = 0

-----------------------------------------------------------------------------
(* The API server.                                                         *)

WritePolicy(p, object, event) ==
    /\ policy' = [policy EXCEPT ![p] = object]
    /\ polFresh' = [polFresh EXCEPT ![p] = FALSE]
    /\ polEvent' = [polEvent EXCEPT ![p] = @ \/ event]

WriteCaptor(n, object) ==
    /\ captor' = [captor EXCEPT ![n] = object]
    /\ capFresh' = [capFresh EXCEPT ![n] = FALSE]

Gone(object) == [NoPolicy EXCEPT !.uid = object.uid]

Edit == edits < MaxEdits /\ edits' = edits + 1 /\ UNCHANGED faults
Fault == faults < MaxFaults /\ faults' = faults + 1 /\ UNCHANGED edits

(* Users.                                                                  *)

CreatePolicy(p, s) ==
    /\ Edit
    /\ policy[p].phase = "absent" /\ (policy[p].uid = 0 \/ p \in Reused)
    /\ WritePolicy(p, [phase |-> "live", fin |-> FALSE, uid |-> edits + 1, spec |-> s,
                       status |-> "none"], TRUE)
    /\ UNCHANGED <<captor, capFresh, cacheVars, reqVars, localVars, queueVars>>

EditPolicy(p, s) ==
    /\ Edit
    /\ policy[p].phase = "live" /\ policy[p].spec # s
    /\ WritePolicy(p, [policy[p] EXCEPT !.spec = s], TRUE)
    /\ UNCHANGED <<captor, capFresh, cacheVars, reqVars, localVars, queueVars>>

DeletePolicy(p) ==
    /\ Edit
    /\ policy[p].phase = "live"
    /\ WritePolicy(p, IF policy[p].fin THEN [policy[p] EXCEPT !.phase = "deleting"]
                                       ELSE Gone(policy[p]), TRUE)
    /\ UNCHANGED <<captor, capFresh, cacheVars, reqVars, localVars, queueVars>>

\* The garbage collector deletes a captor whose owner does not exist any more.
Orphaned(n) ==
    /\ captor[n] # None
    /\ \A p \in Policies : policy[p].phase # "absent" => policy[p].uid # captor[n].owner

CollectGarbage(n) ==
    /\ Orphaned(n)
    /\ WriteCaptor(n, None)
    /\ UNCHANGED <<policy, polEvent, polFresh, cacheVars, reqVars, localVars, queueVars, budgets>>

-----------------------------------------------------------------------------
(* Informers and the work queue.  Captors are not watched.                 *)

\* The worker reads captors from the cache.
Read(ns) ==
    /\ "lag" \in Env \/ \A n \in ns : capFresh[n]
    /\ misread' = IF \A n \in ns : capFresh[n] THEN misread ELSE misread \cup {cur}

SyncPolicy(p) ==
    /\ ~polFresh[p]
    /\ cpolicy' = [cpolicy EXCEPT ![p] = policy[p]]
    /\ polFresh' = [polFresh EXCEPT ![p] = TRUE]
    /\ polEvent' = [polEvent EXCEPT ![p] = FALSE]
    /\ queue' = IF polEvent[p] THEN queue \cup {p} ELSE queue
    /\ UNCHANGED <<policy, captor, ccaptor, capFresh, reqVars, localVars, delayed, budgets>>

SyncCaptor(n) ==
    /\ ~capFresh[n]
    /\ ccaptor' = [ccaptor EXCEPT ![n] = captor[n]]
    /\ capFresh' = [capFresh EXCEPT ![n] = TRUE]
    /\ UNCHANGED <<apiVars, cpolicy, polFresh, reqVars, localVars, queueVars, budgets>>

\* A user brings or changes a pod or a Deployment: all policies are requested.
WatchEvent ==
    /\ Edit
    /\ queue' = queue \cup {p \in Policies : cpolicy[p].phase # "absent"}
    /\ queue' # queue
    /\ UNCHANGED <<apiVars, cacheVars, freshVars, reqVars, localVars, delayed>>

FireTimer(p) ==
    /\ p \in delayed
    /\ delayed' = delayed \ {p} /\ queue' = queue \cup {p}
    /\ UNCHANGED <<apiVars, cacheVars, freshVars, reqVars, localVars, budgets>>

-----------------------------------------------------------------------------
(* The worker.                                                             *)

ForgetRequest ==
    /\ pc' = "idle" /\ cur' = None /\ goal' = NoPolicy /\ kind' = "tetragon"
    /\ surplus' = {} /\ todo' = {} /\ failed' = {} /\ err' = FALSE

Return(again) ==
    /\ delayed' = IF again THEN delayed \cup {cur} ELSE delayed
    /\ ForgetRequest

\* Mutant: policies without a finalizer are reconciled like others.
FetchWhatever(p) ==
    /\ pc = "idle" /\ p \in queue /\ polFresh[p]
    /\ queue' = queue \ {p} /\ misread' = misread \ {p}
    /\ IF cpolicy[p].phase = "absent"
       THEN UNCHANGED <<pc, cur, goal>>
       ELSE cur' = p /\ goal' = cpolicy[p] /\ pc' = "list"
    /\ UNCHANGED <<apiVars, cacheVars, freshVars, kind, surplus, todo, failed, err,
                   delayed, budgets>>

\* Reconcile up to its first write.
Fetch(p) ==
    /\ pc = "idle" /\ p \in queue /\ polFresh[p]
    /\ queue' = queue \ {p} /\ misread' = misread \ {p}
    /\ LET seen == cpolicy[p] IN
       IF \/ seen.phase = "absent"
          \/ seen.phase = "deleting" /\ ~seen.fin
       THEN UNCHANGED <<pc, cur, goal>>
       ELSE /\ cur' = p /\ goal' = seen
            /\ pc' = IF seen.phase = "deleting" THEN "release"
                     ELSE IF seen.fin THEN "list" ELSE "adopt"
    /\ UNCHANGED <<apiVars, cacheVars, freshVars, kind, surplus, todo, failed, err,
                   delayed, budgets>>

\* putFinalizer: the update changes the generation, and Reconcile waits for
\* the event of that change.  A policy that has gone gives a NotFound error.
PutFinalizer ==
    /\ pc = "adopt" /\ polFresh[cur]
    /\ \/ /\ cpolicy[cur].phase = "live"
          /\ WritePolicy(cur, [cpolicy[cur] EXCEPT !.fin = TRUE], TRUE)
          /\ Return(FALSE)
       \/ /\ cpolicy[cur].phase = "absent"
          /\ Return(TRUE) /\ UNCHANGED <<policy, polEvent, polFresh>>
    /\ UNCHANGED <<captor, capFresh, cacheVars, misread, queue, budgets>>

\* Mutant: only the captors of Tetragon traps are asked for.
WantedTetragon == {n \in {NameOf[t] : t \in goal.spec.traps} \ {None} : KindOf[n] = "tetragon"}

\* The captors that the traps of the policy ask for, valid or not.
Wanted == {NameOf[t] : t \in goal.spec.traps} \ {None}

\* The List of cleanupRemovedCaptors for one kind of captor.
ListCaptors ==
    /\ pc = "list" /\ Read({n \in Names : KindOf[n] = kind})
    /\ surplus' = {n \in Names : /\ KindOf[n] = kind /\ ccaptor[n] # None
                                 /\ ccaptor[n].label = cur /\ n \notin Wanted}
    /\ pc' = "delete"
    /\ UNCHANGED <<apiVars, cacheVars, freshVars, queueVars, budgets, cur, goal, kind,
                   todo, failed, err>>

DeleteCaptor(n) ==
    /\ pc = "delete" /\ n \in surplus /\ captor[n] # None
    /\ WriteCaptor(n, None)
    /\ surplus' = surplus \ {n}
    /\ UNCHANGED <<policy, polEvent, polFresh, cacheVars, queueVars, budgets, reqVars,
                   pc, kind, todo, failed, err>>

\* Mutant: an error of the clean-up is only logged.
StopCleanupQuietly ==
    /\ pc' = "status" /\ surplus' = {}
    /\ UNCHANGED <<apiVars, cacheVars, freshVars, queueVars, reqVars, kind, todo, failed, err>>

\* An error ends the clean-up, and with it Reconcile.
StopCleanup ==
    /\ pc' = "status" /\ surplus' = {} /\ err' = TRUE
    /\ UNCHANGED <<apiVars, cacheVars, freshVars, queueVars, reqVars, kind, todo, failed>>

\* The captor has been deleted since the cache showed it.
DeleteNotFound(n) ==
    /\ pc = "delete" /\ n \in surplus /\ captor[n] = None
    /\ StopCleanup
    /\ UNCHANGED budgets

\* Deleting a captor fails, or a command of cleanupRemovedDecoys.
CleanupFails ==
    /\ Fault
    /\ "apierror" \in Env
    /\ (pc = "delete" /\ surplus # {}) \/ pc = "decoys"
    /\ StopCleanup

\* Tetragon first, then Kive, then the decoys.
FinishDelete ==
    /\ pc = "delete" /\ surplus = {}
    /\ kind' = "kive" /\ pc' = IF kind = "tetragon" THEN "list" ELSE "decoys"
    /\ UNCHANGED <<apiVars, cacheVars, freshVars, queueVars, budgets, reqVars, surplus,
                   todo, failed, err>>

Blocked(s) == s.strict /\ s.traps \ ValidTraps # {}

\* cleanupRemovedDecoys and reconcileDecoys.  With strictValidation an invalid
\* trap ends Reconcile between them.
CleanUpDecoys ==
    /\ pc = "decoys"
    /\ IF Blocked(goal.spec)
       THEN pc' = "status" /\ UNCHANGED todo
       ELSE pc' = "deploy" /\ todo' = goal.spec.traps \cap ValidTraps
    /\ UNCHANGED <<apiVars, cacheVars, freshVars, queueVars, budgets, reqVars, kind,
                   surplus, failed, err>>

\* Mutant: the generators forget the owner reference.
GeneratedUnowned == [label |-> cur, owner |-> None]

\* The captor as the generators make it for the policy in progress.
Generated == [label |-> cur, owner |-> goal.uid]

Done(t) ==
    /\ pc = "deploy" /\ t \in todo
    /\ todo' = todo \ {t}
    /\ UNCHANGED <<policy, polEvent, polFresh, cacheVars, queueVars, pc, cur, goal, kind,
                   surplus, err>>

SkipCaptor(t) ==
    /\ Done(t)
    /\ NameOf[t] = None
    /\ UNCHANGED <<captor, capFresh, failed, misread, budgets>>

Tetragon(t) == NameOf[t] # None /\ KindOf[NameOf[t]] = "tetragon"
Kive(t) == NameOf[t] # None /\ KindOf[NameOf[t]] = "kive"

\* deployCaptorWithTetragon creates what the cached Get does not find.
KeepTracingPolicy(t) ==
    /\ Done(t)
    /\ Tetragon(t) /\ Read({NameOf[t]}) /\ ccaptor[NameOf[t]] # None
    /\ UNCHANGED <<captor, capFresh, failed, budgets>>

CreateTracingPolicy(t) ==
    /\ Done(t)
    /\ Tetragon(t) /\ Read({NameOf[t]}) /\ ccaptor[NameOf[t]] = None /\ t \notin NoSelector
    /\ \/ /\ captor[NameOf[t]] = None
          /\ WriteCaptor(NameOf[t], Generated) /\ UNCHANGED failed
       \/ /\ captor[NameOf[t]] # None        \* AlreadyExists
          /\ failed' = failed \cup {t} /\ UNCHANGED <<captor, capFresh>>
    /\ UNCHANGED budgets

\* deployCaptorWithKive applies its fields and takes over what is there.
ApplyKivePolicy(t) ==
    /\ Done(t)
    /\ Kive(t) /\ t \notin NoSelector
    /\ IF captor[NameOf[t]] = Generated THEN UNCHANGED <<captor, capFresh>>
                                        ELSE WriteCaptor(NameOf[t], Generated)
    /\ UNCHANGED <<failed, misread, budgets>>

\* Mutant: the error is logged and lost.
DeployFailsQuietly(t) ==
    /\ Fault
    /\ "apierror" \in Env /\ Done(t) /\ NameOf[t] # None
    /\ UNCHANGED <<captor, capFresh, failed, misread>>

DeployFails(t) ==
    /\ Fault
    /\ "apierror" \in Env /\ Done(t) /\ NameOf[t] # None
    /\ failed' = failed \cup {t}
    /\ UNCHANGED <<captor, capFresh, misread>>

\* Both generators read the labels of a selector that is not there.  The
\* deferred status update runs, and the panic becomes an error of Reconcile.
GeneratePanics(t) ==
    /\ pc = "deploy" /\ t \in todo \cap NoSelector
    /\ \/ Kive(t) /\ UNCHANGED misread
       \/ Tetragon(t) /\ Read({NameOf[t]}) /\ ccaptor[NameOf[t]] = None
    /\ pc' = "status" /\ todo' = {} /\ err' = TRUE
    /\ UNCHANGED <<apiVars, cacheVars, freshVars, queueVars, budgets, cur, goal, kind,
                   surplus, failed>>

FinishDeploy ==
    /\ pc = "deploy" /\ todo = {}
    /\ pc' = "status"
    /\ UNCHANGED <<apiVars, cacheVars, freshVars, queueVars, budgets, reqVars, kind,
                   surplus, todo, failed, err>>

\* translateReconcileResultToStatusCondition, for the condition of captors; it
\* stays pending when Reconcile stopped early or has no valid trap.
CaptorsReason ==
    IF err \/ Blocked(goal.spec) \/ goal.spec.traps \cap ValidTraps = {}
    THEN "CaptorDeploymentPending"
    ELSE IF failed # {} THEN "CaptorDeploymentError"
    ELSE "CaptorDeploymentSucceeded"

UpdateStatus ==
    /\ pc = "status" /\ polFresh[cur]
    /\ IF cpolicy[cur].status = CaptorsReason
       THEN UNCHANGED <<policy, polEvent, polFresh>>
       ELSE WritePolicy(cur, [cpolicy[cur] EXCEPT !.status = CaptorsReason], FALSE)
    /\ Return(err)
    /\ UNCHANGED <<captor, capFresh, cacheVars, misread, queue, budgets>>

\* The end of runFinalizerIfMarkedForDeletion: with its last finalizer the
\* policy goes; its captors are left to the garbage collector.
ReleasePolicy ==
    /\ pc = "release" /\ polFresh[cur]
    /\ WritePolicy(cur, Gone(cpolicy[cur]), TRUE)
    /\ Return(FALSE)
    /\ UNCHANGED <<captor, capFresh, cacheVars, misread, queue, budgets>>

\* cleanupDeceptionPolicy returns the NotFound of a pod or a Secret, and Reconcile
\* takes it to mean that the policy is gone: no error, no further request.
CleanupNotFound ==
    /\ Fault
    /\ "notfound" \in Env /\ pc = "release"
    /\ misread' = misread \cup {cur}
    /\ Return(FALSE)
    /\ UNCHANGED <<apiVars, cacheVars, freshVars, queue>>

\* A write of the policy fails, or cleanupDeceptionPolicy with another error.
WriteFails ==
    /\ Fault
    /\ "apierror" \in Env /\ pc \in {"adopt", "status", "release"}
    /\ Return(TRUE)
    /\ UNCHANGED <<apiVars, cacheVars, freshVars, misread, queue>>

Crash ==
    /\ Fault
    /\ "crash" \in Env /\ ForgetRequest /\ misread' = {}
    /\ cpolicy' = policy /\ polFresh' = [p \in Policies |-> TRUE]
    /\ polEvent' = [p \in Policies |-> FALSE]
    /\ ccaptor' = captor /\ capFresh' = [n \in Names |-> TRUE]
    /\ queue' = {p \in Policies : policy[p].phase # "absent"} /\ delayed' = {}
    /\ UNCHANGED <<policy, captor>>

-----------------------------------------------------------------------------
UserStep ==
    \/ \E p \in Policies : \/ DeletePolicy(p)
                           \/ \E s \in SpecsOf[p] : CreatePolicy(p, s) \/ EditPolicy(p, s)
    \/ WatchEvent

FaultStep == CleanupFails \/ CleanupNotFound \/ WriteFails \/ Crash
             \/ \E t \in Traps : DeployFails(t)

WorkerStep ==
    \/ PutFinalizer
    \/ ListCaptors \/ (\E n \in Names : DeleteCaptor(n) \/ DeleteNotFound(n)) \/ FinishDelete
    \/ CleanUpDecoys
    \/ \E t \in Traps : \/ SkipCaptor(t) \/ KeepTracingPolicy(t) \/ CreateTracingPolicy(t)
                        \/ ApplyKivePolicy(t) \/ GeneratePanics(t)
    \/ FinishDeploy \/ UpdateStatus \/ ReleasePolicy

Next == \/ UserStep \/ FaultStep \/ WorkerStep
        \/ \E p \in Policies : SyncPolicy(p) \/ FireTimer(p) \/ Fetch(p)
        \/ \E n \in Names : SyncCaptor(n) \/ CollectGarbage(n)

Spec == Init /\ [][Next]_vars

\* As for DecoyReconciler; the garbage collector does its work as well.
Fairness ==
    /\ WF_vars(WorkerStep)
    /\ \A p \in Policies : SF_vars(Fetch(p)) /\ WF_vars(SyncPolicy(p)) /\ WF_vars(FireTimer(p))
    /\ \A n \in Names : WF_vars(SyncCaptor(n)) /\ WF_vars(CollectGarbage(n))

FairSpec == Spec /\ Fairness
=============================================================================
