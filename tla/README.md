# Koney in TLA+

A verification development for Koney, a Kubernetes operator that deploys decoys
("traps") and the captors that watch them, and for its alert forwarder.  It holds
TLA+ modules, configurations for the model checker TLC, and proofs for the proof
system TLAPS.  Paths below are relative to the repository; `DPC` stands for
`internal/controller/deceptionpolicy_controller.go`.

    tlc -workers 2 -config DecoyFiles.cfg MCDecoyReconciler
    tlapm DecoyReconcilerProofs.tla

## 1. Inventory

### Components

| component | state | operations | what makes it correct |
|---|---|---|---|
| **Reconciler** (`DPC`, `..._trap_deployment.go`, `..._trap_removal.go`, `traps/filesystoken/`) | none of its own between requests; work queue and informer caches of controller-runtime | put finalizer, clean up removed traps, deploy traps, write status, finalize, requeue | decoys out there are always guarded by a finalizer; nothing is left behind; no wake-up is lost; no write undoes somebody else's |
| **Watches and event filter** (`watchers.go`, `DPC:307-354`) | the last delivered state of each object | deliver create, update, delete events; map pods and Deployments to policies | every change that matters leads to a request |
| **Change annotation** (`annotations/`, `api/v1alpha1/annotation_types.go`) | one JSON list in `koney/changes` of each pod or Deployment | add a trap, shrink its containers, remove it, find a policy's part | one entry per policy and trap; changes of other policies survive |
| **Matching** (`matching/`, `utils/matching.go`) | none | filters to objects and ready containers, `mutateExisting` | a trap goes to exactly the matched, ready, young enough objects, and the result says whether there is more to come |
| **volumeMount strategy** (`traps/filesystoken/`) | Secrets, volumes and mounts of Deployments | create or delete secrets, add or remove volumes | what is recorded is mounted and the other way round; a mounted secret exists; edits of users survive |
| **Captors** (`traps/filesystoken/`, `..._trap_removal.go`) | Tetragon TracingPolicies, Kive policies | create, own, apply, remove | each deployed trap has its captor or a reported error, and there are only those; a captor lives as long as its policy |
| **Status conditions** (`status.go`, `utils/conditions.go`) | conditions of a policy | set, write only on a change | the status says what the last reconciliation did |
| **Alert forwarder** (`alert-forwarder/forwarder/main.py`, `tetragon.py`) | `most_recent_trigger`, `event_cache`, background tasks | handle webhook calls, debounce, read logs, filter, print and send | every access gives one alert |
| **Alert sinks** (`sink.py`, `alerts.py`) | DeceptionAlertSinks | read, send | a failing sink stops nobody |

Not of interest for a model: the Kive path of the forwarder (`kive.py`; a stateless
translation of one request into one alert), command line and manager (`cmd/main.go`),
string utilities, chart, samples, CI.

### How they interact

Users write DeceptionPolicies and pods to the API server.  Informers copy objects
into caches and turn some changes into requests in the work queue; a request is only
the name of a policy.  The worker takes a name, reads the *cache*, runs commands in
containers through `pods/exec`, and writes annotations, finalizers and status to the
*API server* (optimistic concurrency: a write that starts from an old copy is
refused).  Captors make Tetragon log an access and call the forwarder, which reads
Tetragon's logs, the policies and the sinks from the API server.

### What is hard

* **Stale state**: the worker decides on cached pods and policies while users, the
  kubelet and its own last write have moved on.
* **Several effects, no transaction**: write a file, then record it; remove it, then
  erase the record; then the finalizer.  Commands fail, pods vanish and the
  controller restarts in between.
* **Wake-ups**: update events of pods and status changes are filtered out, there is no
  periodic run; progress hangs on a few requeues.
* **Shared objects**: one annotation holds the entries of all policies; a decoy that
  is rotated shares its path with the old one; containers of a Deployment share a volume
  and its Secret; captors are named after traps, not policies.
* **Other controllers**: the garbage collector takes captors away when their owner goes;
  the Deployment controller rolls out templates and writes to the same objects.
* **Threads and globals** in the forwarder: tasks of one burst read the same lines and
  share a cache and a time stamp without a lock.

`PROJECT.json` lists the hazards one by one, each with its line and its properties.

## 2. Modules

| module | models |
|---|---|
| `Annotations` | the annotation of an object as a function `ann[p][t]` to sets of containers, and the three operations on it |
| `AnnotationList` | the list that the code really keeps, its operations and their callers, and that both views agree |
| `DecoyReconciler` | Reconcile for decoys of strategy `containerExec`, its caches and queue, API server, users, kubelet |
| `DecoyLedger` | what the reconciler promises about decoys: a guarded ledger (abstract specification) |
| `DecoyProperties` | properties of `DecoyReconciler`, and the refinement mapping to `DecoyLedger` |
| `VolumeMount`, `VolumeProperties` | Reconcile for decoys of strategy `volumeMount`: Deployments, their templates, Secrets; its properties |
| `CaptorDeployment`, `CaptorProperties` | Reconcile for captors: TracingPolicies, KivePolicies, the garbage collector; its properties |
| `Matching` | one call of `GetDeployableObjectsWithContainers`, the selectors of the captor, the container filter of the forwarder, and their properties |
| `AlertForwarder` | handlers and background tasks of the forwarder, Tetragon path |
| `MC...` | constants for TLC |
| `DecoyReconcilerProofs`, `DecoyFileProofs`, `DecoyWakeProofs`, `CaptorProofs`, `VolumeProofs`, `MatchingProofs`, `ForwarderProofs`, `AnnotationProofs` | theorems and proofs |

The three modules of Reconcile (`DecoyReconciler`, `VolumeMount`, `CaptorDeployment`) are
three projections of one program.  Each keeps the control of Reconcile that its part
depends on (finalizer, clean-up, deployment, status, requeue) and leaves the objects of
the other two out: decoys and captors share no object but the policy, and a policy
uses the strategies independently.  Where another part can end Reconcile early, the
projection has that as a step that may fail (`CleanupFails` in `CaptorDeployment`).

### DecoyReconciler and the code

State: `policy`, `pod` are the objects in the API server; `cpolicy`, `cpod` their
cached copies; `file` is what is at each path of each container; `queue`, `delayed`
are the work queue and its delayed part; the rest are the local variables of the one
Reconcile that is under way (`pc` names the place: `adopt` `list` `remove` `release`
`deploy` `status`).

| code | actions |
|---|---|
| `Reconcile` up to its first write | `Fetch` |
| `putFinalizer` and return | `PutFinalizer`, `PutFinalizerFails` |
| `GetAnnotatedResources` for clean-up | `ListAnnotated` |
| loop over resources, traps, containers; `executeCommandInContainer` | `StartItem`, `ExecOk`, `ExecUnreachable`, `ExecFails`, `ExecHalfDone` |
| annotation update with `RetryOnConflict` | `Annotate`, `AnnotateFails`, `SkipRecord` |
| end of clean-up, `strictValidation` | `AbortRemoval`, `FinishRemoval` |
| `controllerutil.RemoveFinalizer` and update | `ReleasePolicy`, `ReleaseConflict` |
| `reconcileDecoys`, `GetDeployableObjectsWithContainers` | `MatchTrap`, `FinishDeploy` |
| `updateStatusConditions`, return value of `Reconcile` | `UpdateStatus`, `UpdateStatusFails` |
| `SetupWithManager` predicates, `HandleWatchEvent`, rate limiter | `SyncPolicy`, `SyncPod`, `FireTimer` |
| users, kubelet, faults | `CreatePolicy` ... `DeletePod`, `Start` ... `RestartContainer`, `Crash` |

Each environment behaviour is switched by a member of `Env` (`EnvKinds`), so that a
run says exactly which ones it allows.

Abstractions:

* A `resourceVersion` is one bit, "the cached copy is current"; a write from a copy
  that is not current is refused.
* With `lag`, every read may be arbitrarily old, and `RetryOnConflict` may give up.
  Without it a read waits for a current cache, and the retries succeed in the end.
* Labels and namespaces are one bit per pod (`labelled`): the filters of all traps
  match or none does.  Container selectors are a set per trap (`sel`).
* Loops over pods, traps and containers run in any order; the code's order is one.
* A pod disappears in one step.  Pod names are not reused.  The phase of a pod follows
  from its containers, each of which is down, up or ready.
* A policy knows which pods existed before it (`old`) instead of comparing creation
  times, for `mutateExisting`.
* A decoy is its trap; two versions of a decoy are two traps with one `PathOf`.
  Trap.IsValid is the set `ValidTraps`.
* An annotation write that changes nothing counts as a write.
* There is one worker (the default of controller-runtime) and one replica.

`AnnotationList` works on the lists themselves, with a clean-up that starts from an
old copy; the map from lists to functions is `AsFunction`.  `Keep` stands for the loops that
copy the elements they want, `Without` and `Written` for the two of `RemoveTrapAnnotations`.
`Orders` are the orders in which containers may be recorded.  A pod has one, that of its
ContainerStatuses (`matching.go:261`).  In a Deployment containers are joined filter by filter
(`matching.go:128-139`), so that they have any order, and another one once the filters are
reordered.  `Equals` of TrapAnnotation compares in order (`annotation_types.go:138`):
a removal whose copy shows another order than the record (`Reordered`) removes nothing.
Sets of containers are enough for the reconcilers all the same.  Pods have one order.
For a Deployment `RemoveTrapAnnotations` is only reached when every Update of
`removeDecoyWithVolumeMount` has succeeded, and with an old copy they are conflicts
(`removal.go:203-207`): the list that is compared is the one that was recorded.

### VolumeMount and the code

`dep` holds the Deployments: `labelled`, `avail` (the condition that makes them ready),
`user` (a counter of what users change in the template), `vols` (which Secret a volume
is from), `mounts`, and the annotation.  `secret` holds the Secrets that exist.

| code | actions |
|---|---|
| `Reconcile`, `putFinalizer` | `Fetch`, `PutFinalizer` |
| the List of clean-up | `ListAnnotated` |
| loops over Deployments, traps, containers | `StartItem` |
| `deployDecoyWithVolumeMount`: `createSecret` and Get, then Update | `CreateSecret`, `SecretExists`, `CreateSecretFails`; `MountAndUpdate`, `MountConflict`, `MountFails` |
| `removeDecoyWithVolumeMount`: Update, then the Secret | `UnmountAndUpdate`, `UnmountFails`; `NoSecretLeft`, `DeleteSecret`, `DeleteSecretFails` |
| annotation update with `RetryOnConflict` | `Annotate`, `AnnotateFails`, `SkipRecord` |
| end of clean-up, finalizer | `AbortRemoval`, `FinishRemoval`, `ReleasePolicy` |
| `reconcileDecoys` and matching of Deployments | `MatchTrap`, `FinishDeploy` |
| status and return value | `UpdateStatus` |
| users, Deployment controller, informers | `CreatePolicy` ... `EditDeployment`, `BecomeAvailable`, `BecomeUnavailable`, `SyncDeployment`, `SyncSecret`, `FireTimer` |

* `copy` and `valid` are what Go's pointers and values make of a Deployment: the
  clean-up passes it on by value, so that the list of volumes and the new
  resourceVersion stay with the callee, while the list of containers is shared.
* An Update of a template with a mount but no volume is refused (`Invalid`).
* Names of volumes and Secrets are hashes of path and of path with content: `PathOf` and
  `SecretOf`.  Deployments are in one namespace.
* Policies are read when they are current.  Pods of a Deployment do not appear; a Secret
  matters for those that start later.
* `misled` and `lost` are history: Secrets that `createSecret` saw in a stale cache
  after their end, Deployments that got a mount and no record of it.

### CaptorDeployment and the code

`captor` maps the name of a captor to its label (the name of its policy) and its owner
(the uid of its policy), or `None`.

| code | actions |
|---|---|
| `Reconcile`, `putFinalizer` | `Fetch`, `PutFinalizer` |
| `cleanupRemovedCaptors`, for Tetragon, then Kive | `ListCaptors`, `DeleteCaptor`, `DeleteNotFound`, `FinishDelete`, `CleanupFails` |
| decoys, `strictValidation` | `CleanUpDecoys` |
| `deployCaptorWithTetragon` | `KeepTracingPolicy`, `CreateTracingPolicy` |
| `deployCaptorWithKive` | `ApplyKivePolicy` |
| strategy `none`, errors, the panic of the generators | `SkipCaptor`, `DeployFails`, `GeneratePanics` |
| status, return value, finalizer | `FinishDeploy`, `UpdateStatus`, `WriteFails`, `ReleasePolicy` |
| a finalization that meets a NotFound in the clean-up of decoys | `CleanupNotFound` |
| users, garbage collector, informers | `CreatePolicy` ... `DeletePolicy`, `WatchEvent`, `CollectGarbage`, `SyncPolicy`, `SyncCaptor`, `FireTimer` |

* A name is a value: `NameOf[t]` is unique per trap for Tetragon and shared for Kive by
  traps that differ in what its hash leaves out.
* A policy that is created again has a new uid.
* `misread` is history: policies whose last request was misled.  It read a captor that was
  not current, or it took the NotFound of a pod or a Secret, which `cleanupDeceptionPolicy`
  returned, for the end of the policy, and asked for no further request (`DPC:76-78`).
* Tetragon and Kive are installed.

### Matching and the code

The module chooses a cluster and a trap in the beginning, runs the loop over the filters
(`MatchFilter`) and then the rest (`FilterReady`); the selectors that
`generateTetragonTracingPolicy` makes and `container_matches_selectors` are operators.

* Lists are cut down to one object per name and joined by name, as in the code; which of
  several objects stays is open, as a cached list has no order.
* A container selector is a value, `SelectsOf` the names it matches; wildcards, patterns
  and exact names differ in what captor and forwarder do with them.
* The age of an object is before or after the policy (`young`).

### AlertForwarder and the code

A task is named after the access whose call started it.  `handle_tetragon` is the
steps `TakeTime` and `NoteTrigger` (or `Refuse`), `load_new_alerts` the steps `WakeUp`,
`StartAlerting`, `Alert`, `FinishAlerting`, and `read_tetragon_events` in between the
steps `ListPods`, `ReadLog` or `SkipLog` per Tetragon pod, `LookUp` and `Remember` per
line: any other thread may run between two of them.  An exception that nobody
catches is `Die`.  Time is discrete, with a debounce of one tick.  The lines of an
access are in the log when its call arrives; all decoys belong to one policy, so that
a batch is one group; kprobe duplicates are `Copies` of a line that have the same
hash.  Without `slow` the clock stands still while a thread can run; without `overlap`
a task lists pods only when no other one is reading.

## 3. Runs

All passing runs explore every reachable state of their instance.  Deadlock is not
checked where the budgets of users and faults run out and everything comes to rest, or
where the one call of a module returns.

| run | instance | shows |
|---|---|---|
| `decoy_files` | 1 policy, 3 decoys at 2 paths, 2 containers, 4 edits, 2 faults, `poddelete`, `execfail`, `relabel`, `canonical` | `TypeOK`; `FinalizerGuards`; `OnePerPath`; `RecordedIsThere`, `ThereIsRecorded`, `NothingLeftBehind`: records and files agree; `KeepsTheLedger`: the reconciler implements `DecoyLedger` |
| `decoy_writes` | 2 policies, 1 pod, 3 edits, 1 fault, `lag`, `relabel`, `crash` | `NoLostUpdate`, `UserWins`: no write of the controller undoes another's, however old its caches are |
| `decoy_wakeups` | strict policies with an invalid trap, lenient ones, ones that spare existing pods; `flap`, `restart`, `execfail`, `halfexec`, `crash`, 4 edits, 2 faults; fairness | `NothingForgotten`, `Settles`, `DeletionCompletes`; `FinalizerGuards` with these faults |
| `captors` | 2 policies with Tetragon and Kive captors, one reuses its name, one is blocked by an invalid trap; stale captors, failing writes, a pod that is gone in the finalization, restarts, 3 edits, 1 fault; fairness | `TypeOK`, `EveryTrapIsWatched`, `NoStrayCaptor`, `MadeForTheLiving`, `TakenOnlyByMistake`, `Settles` |
| `volumes` | 1 policy that rotates a decoy, 2 Deployments, one late, 2 containers, all environment kinds, 1 fault; fairness | `TypeOK`, `RecordedIsMounted`, `MountedIsRecorded`, `VolumesAreBacked`, `EditsSurvive`, `DeletionCompletes`, `Settles` |
| `matching` | every trap with up to 2 filters on every state of 2 objects in 2 namespaces with 2 containers; exact names, a pattern and a wildcard | `SelectsExactly`, `SaysThatMoreWillCome`, `DecoysAreWatched`, `OnlySelectedAlert` |
| `annotation_list` | 2 policies, 2 traps, 2 containers recorded in either order, unbounded sequence of operations | `WellFormed`, `OperationsAgree`, `OthersKept` |
| `forwarder_once` | 2 accesses with 2 lines each on 2 nodes, one filtered; slow threads, 2 failing calls | `TypeOK`, `NoDuplicates`, `OneTaskSurvives` |
| `forwarder_alerts` | 2 accesses with 2 lines each, 2 sinks, overlapping tasks, 2 faults of sinks or restarts; fairness | `CachedIsProcessed`, `EveryAccessAlerts` |
| `decoy_stuck_deletion`, `matching_same_name`, `captor_namespace_only` | the smallest instances | a counterexample each, see below |

Why the bounds are enough: four edits create a pod and a policy, change the policy and
delete it, or delete and create it again; one fault can hit any step, and two can hit
the repair of the first.  Two containers are needed for a decoy that is deployed in
one and fails in the other, and for a volume that two mounts share; two paths for a decoy
that must not be touched by the rotation of another; two policies for entries of others
in one annotation and for captors of others in one list.  Captors need three edits:
create, change and delete, or delete and create again; the second policy
covers the interleaving with somebody else's request.  A volume needs one policy, a
rotation, a deletion and one fault, which is an edit, a status write, a
stale read, a failed call or a restart at any step; the second Deployment becomes
matched late, in the middle of a rotation or of a finalization.  Matching needs two objects for
merging and two filters for joining one to the map of the other; the theorems have no
bounds.  For the forwarder two calls are the least that debounce and overlap, with two
lines each to meet the cache in one task and over tasks.

### Fairness

* The worker never blocks: every step of Reconcile returns, with a result or an error
  (weak fairness of `WorkerStep`).
* The work queue is first in, first out, and requests are only delayed by others: each
  queued policy gets its turn, although its own cache must be current in that moment
  (strong fairness of `Fetch`).
* Informers deliver, delayed requests fire, containers start and become ready (weak
  fairness).  Users and faults are never fair; their budgets end.
* The garbage collector of the cluster works, and Deployments become available (weak
  fairness of `CollectGarbage` and `BecomeAvailable`): the code waits for both and can do
  nothing else.
* Forwarder: the clock ticks, and threads of the pool are scheduled.

Liveness of decoys is not checked with `lag`: a cache that may be old for ever allows no
progress.  In `CaptorDeployment` and `VolumeMount` caches catch up by fairness, and what a stale
read has spoiled is in the history (`misread`, `misled`).  `Settled` of the captors excepts the
policies in `misread`: one that Reconcile took to be gone stays in deletion (divergence 1).

### Known divergences

Three disagreements with the repository's own words are checked as runs that TLC
refutes; `findings` in `PROJECT.json` quotes the lines.

1. `decoy_stuck_deletion`: NotFound from an exec or Get for a vanished pod ends a
   finalization as if the policy were gone; the policy stays in deletion (`DPC:76-78`).
   Its captors stay with it, as the garbage collector waits for its end, and no request is
   due: `NoStrayCaptor` and `Settles` of the run `captors`, where `CleanupNotFound` does this,
   except such a policy (`misread`).
2. `matching_same_name`: lists are joined and merged by name alone, so that an object gets
   a decoy because one of the same name in another namespace has the label
   (`matching.go:128, 168, 182, 210`).
3. `captor_namespace_only`: a filter by namespaces only is valid, but both generators read
   the labels of its selector, which is nil; Reconcile panics after the decoys are
   deployed, again and again, and no captor is made (`utils.go:231, 364, 382`).

Others restrict what the passing runs allow.  Where a kind is named, adding it to `Env` of
the run shows the counterexample.

Decoys (`DecoyReconciler`):

4. A decoy that could not be deployed is not tried again: `reconcileDecoys` never sets
   `Errors`, so the branch for it is dead (`DPC:188-192`).  `Settled` accepts a failure
   that the status reports.
5. `flap` in `decoy_files`: containers of a trap in the annotation are replaced by the
   ones ready now; one that was not ready is forgotten with its file (`annotations.go:72`).
   `NothingLeftBehind` and `ThereIsRecorded` fail.
6. `lag` in `decoy_files`: clean-up lists cached pods, and may miss a decoy that was
   recorded a moment ago; the finalizer goes first (`annotations.go:287`).
   `FinalizerGuards` and `KeepsTheLedger` fail.
7. `canonical` in `decoy_wakeups`: if writing the typed object back changes nothing in
   the stored spec, the generation does not change with the finalizer, and the request
   that `DPC:89` waits for does not come.  `NothingForgotten` fails.
8. `relabel` in `decoy_wakeups`: the filter has an empty case for pods before the one for
   Deployments, and Go does not fall through, so that update events of pods are dropped
   although the comment at `DPC:329` says "For pods and deployments, consider generation
   changes and label changes"; a label on a running pod brings no decoy until something
   else happens.  `NothingForgotten` fails.
9. `crash` or `halfexec` in `decoy_files`: a restart between a command and its record
   leaves a file that is not recorded or a record without a file; the second is never
   repaired, as a recorded decoy counts as deployed.
10. `restart` in `decoy_files`: a container restart loses the file and not the record.

Captors (`CaptorDeployment`):

11. A policy with a Tetragon captor that is deleted and created again under the same name
    finds the old captor and keeps it; the garbage collector then takes it away, and
    nothing watches captors.  In run `captors` only a policy with Kive captors, which
    are applied with the new owner, uses its name again (`Reused`).
12. Two policies with the same trap share one tracing policy (`utils.go:37`), labelled and
    owned by the first: deleting the first, or its trap, leaves the second unwatched.
13. A request that reads a captor from a stale cache may leave it out (`misread`).
14. `errors.Is(err, &meta.NoKindMatchError{})` compares pointers and never holds, so that
    a missing Tetragon is reported as a generic error.

Volumes (`VolumeMount`):

15. The name of a Secret depends on path and content only: when two policies use the same
    one in a namespace, the clean-up of the first deletes the Secret that the
    second still mounts.  The comment at `removal.go:222` says that the deletion "might fail
    if the secret is still being used by another pod"; the API server does not refuse it.
16. Removal from a Deployment with two containers needs two reconciliations: the first
    update takes the volume but leaves the other mount, is invalid, and the Secret is
    deleted all the same.  If the user edits the policy back in that window, one container
    stays recorded without its mount.
17. A restart, or a failure, between mount and record (`lost`): with a new content the old
    volume is taken for the new one and success is reported; if only one container was
    recorded, its removal stays invalid.
18. A Secret is not deleted if the controller restarts between Update and Delete, if Delete
    fails, or if the Deployment could never be updated; a stale cache may hide that one is
    gone (`misled`).
19. An Update that meets a conflict is repeated with the same object (`deployment.go:372`,
    `removal.go:203`), fails each time, and does not requeue.

Matching (`Matching`):

20. All filters of a trap go into one pod selector, which requires the labels of all of
    them, and of equal keys the last: with different labels, decoys are deployed that
    nobody watches (`utils.go:230-234`).  `DecoysAreWatched` is stated for `SameLabels`.
21. For `volumeMount` a filter is about labels of the Deployment, the captor's selector about
    labels of its pods.
22. `filterObjectsCreatedAfterTimestamp` keeps objects created strictly later; its comment
    says "at or after" (`matching.go:232-237`).
23. An unready container that no filter selects keeps the pod's condition
    ContainersReady false, and Reconcile comes back for ever (`matching.go:257`).

Forwarder (`AlertForwarder`):

24. `overlap` in `forwarder_once`: two tasks that miss the same event in the cache both
    report it (`tetragon.py:133-137`).  `NoDuplicates` fails.
25. `apierror` in `forwarder_alerts`: a call that raises after events have been added
    to the cache loses them.  `CachedIsProcessed` fails.

## 4. Proofs

For all policies, traps, pods, containers, paths, specs, environments and bounds
(under the ASSUMEs of `DecoyReconciler`: constants have the right types, `Traps` is
finite, `None` is none of the values it stands beside):

| theorem | states |
|---|---|
| `TypeCorrect` | `Spec => []TypeOK` |
| `CachesCohere` | a cached copy that counts as current equals the stored object; a create, edit or delete of a user, the kubelet or the controller makes it stale |
| `NoUpdateIsLost` | `Spec => NoLostUpdate`, with arbitrarily old caches and restarts |
| `UsersWin` | `Spec => UserWins`, with arbitrarily old caches and restarts |
| `FinalizerAlwaysGuards` | `"lag" \notin Env /\ Spec => []FinalizerGuards`, with every other fault |
| `RotationIsClean` | `"lag" \notin Env /\ DistinctPaths /\ Spec => []OnePerPath`, with every other fault |
| `LedgerIsKept` | `"lag" \notin Env /\ Spec => KeepsTheLedger`: the reconciler implements `DecoyLedger` |
| `WhatIsThereIsRecorded` | `Reliable /\ ~Restless /\ SameSelection /\ Spec => []ThereIsRecorded` |
| `CleanUpIsComplete` | on the same premises, `Spec => []NothingLeftBehind` |
| `WhatIsRecordedIsThere` | `Reliable /\ "restart" \notin Env /\ DistinctPaths /\ Spec /\ []PathsOwned(owner) => []RecordedIsThere` |
| `WhatIsRecordedIsThereAlone` | the same for one policy, without the premise about owners |
| `NoWakeUpIsLost` | `Heard /\ Spec => []NothingForgotten`, with failing commands, containers that flap and restart, and crashes |

`TypeOK` is inductive by itself.  `CachesCohere` is the invariant behind the two action
properties: the controller writes back a cached copy with one field changed, so that
the write changes only that field exactly because the copy is current.

`FinalizerGuards` is not inductive: nothing in it says that the worker still works
under the finalizer when it records a decoy, or that the clean-up has seen all
records when it removes the finalizer.  `GuardInv` adds

* `WorksUnderGuard`: past `adopt` the policy in progress exists and has the finalizer
  (only the worker takes it away, and users cannot delete past it);
* `ListAgrees`: what is in `work` during a clean-up is what the annotations of live
  pods say (only the worker writes annotations);
* `NoneSkipped`: as long as there was no error, each container of the item in progress
  has either been cleaned or is still to be;
* `ListComplete`: during a clean-up without an error, every recorded decoy that the
  clean-up has to remove is still in `work`;
* `ReleaseAtTheEnd`: the finalizer is removed only at the end of an error-free
  finalization.

The lemmas follow the actions: what keeps guards (`GuardsStay`), what keeps records
(`RecordsStay`), then one lemma per group of actions.  The assumption `"lag" \notin Env`
is necessary: with it TLC violates the property (divergence 6).

`OnePerPath` follows with `WantedInv` from the same facts: a request works for a spec that
users apply (`SpecsAreUsers`), and when it deploys, all records of its policy are of traps
in that spec (`OnlyWanted`), because it comes to `deploy` only when the clean-up had no
error, and `ListComplete` says that such a clean-up has removed everything else.  The premise
`DistinctPaths`, that no spec puts two decoys at one path, is about users: nothing in the
code rejects such a spec.

The three properties about files (`DecoyFileProofs`) relate what is in a container to the
annotation of its pod.  None of them is inductive, since a file is written one step, and
recorded some steps after.  `WorkInv` says what the worker knows in between: pods that do not
run have no files (`DeadAreEmpty`); the plan of a deployment still agrees with the
annotations, which nobody else writes (`PlanAgrees`); and the containers that count as
cleaned are clean (`Progress`).  `StandingInv` puts it beside `GuardInv` and `WantedInv`.

* `ThereIsRecorded` needs `ReadyInv`: the containers in a record are ready and selected by each
  spec that has the trap, because `Annotate` replaces the containers of an entry by those
  that were found ready now, and what it does not find it forgets.
* `NothingLeftBehind` follows from it: a file has a record, a record has a policy with a
  finalizer (`FinalizerGuards`), and there is no policy.
* `RecordedIsThere` needs `TrueInv`: a record is true of the container unless the worker is
  removing the decoy, and what a deployment has written is still there when it is recorded.
  Nobody else writes to the path: a request, and each record, has only traps at paths that
  belong to its policy (`GoalOwned`, `RecordsOwned`), and `OnePerPath` does the rest.

The premises are about the world, not about the code.  `Reliable`: caches follow, a command
that ran is not reported as failed or stopped half-way, and the controller does not stop
between a command and its record.  `Restless` is the kubelet taking readiness or
files away from a running container.  `SameSelection`: a trap that stays in an edited
policy keeps its containers.  `PathsOwned`: each path of a pod belongs to one policy; nothing in
the code sees to that.  TLC shows that they are needed: one fault of kind `lag`, `crash`
or `halfexec` violates each of the three properties; `flap` violates `ThereIsRecorded` and
`NothingLeftBehind` (but not `RecordedIsThere`, which is proved without that premise);
`restart` violates `RecordedIsThere` and `ThereIsRecorded`.

The refinement (at the end of `DecoyReconcilerProofs`) maps the state to the policies that are guarded and
the triples of policy, pod and trap that are recorded.  Initial states map to the empty
ledger.  A step maps by what it changes: `PutFinalizer` takes up a guard; `Annotate`
enters, keeps or erases the one entry of the item in progress, under the guard that
`GuardInv` gives the policy; `DeletePod` loses the entries of a pod; the finalizer goes
(`ReleasePolicy`) when `GuardInv` leaves no entry of its policy; everything else
stutters (`GuardsGrow`, `PodsStay`, `EntriesStay`).

That no wake-up is lost (`DecoyWakeProofs`) is about the moment when nothing is queued, delayed
or on its way.  The proof turns it round: `Due(p)` says that another request for `p` is
certain, and `WakeInv` says of every other moment what may be missing and what stands for it.

* `PoliciesAgree`, `PodsAgree`: an event is a change that the cache does not show yet, and a
  policy or pod that the cache does not know at all has one.
* `ChangesAreHeard`: a policy that has changed since its request began is due again.
  `RequestFits` says what that request does for it (`putFinalizer`, finalization, deployment).
* `PlanFits`, `ItemFits`: the plan of a deployment has all containers that the trap selects,
  and all of the item in progress are done or still to do, unless the trap is reported as
  failed or to be tried again (`GivenUp`).
* `Cleaned`: after a clean-up without an error the records are of wanted traps.  `Tried`:
  unless the policy is due, a valid trap that the loop has passed is given up, or is planned or
  recorded in all containers that it selects, in every pod that suits it.
* `AtRest`: a policy that is neither in progress nor due is settled.

What is due stays due until it is fetched (`DueStays`), and a policy at rest changes only with
an event (`RestStays`).  A request ends with an event of its own write, with a requeue, or in
`UpdateStatus` without one; then `Cleaned` and `Tried` give convergence, or a trap has failed
and the status says so (`RestStatus`).  The premise `Heard` leaves out four kinds of the
environment.  TLC violates the property with each of them alone: `lag`, `canonical`
(divergence 7), `relabel` (8), `poddelete` (1).  It says nothing of how often pods are created,
policies edited or commands failing, and has no bound.

For all policies, specs, traps, captors, environments and bounds (under the ASSUMEs of
`CaptorDeployment`), with stale caches, failing calls and restarts:

| theorem | states |
|---|---|
| `CaptorsAreTyped` | `Spec => []TypeOK` |
| `CaptorsAreOwned` | `Spec => MadeForTheLiving` |
| `CaptorsAreKept` | `Apart /\ Spec => TakenOnlyByMistake` |
| `NoCaptorIsStray` | `Spec => []NoStrayCaptor` |
| `TrapsAreWatched` | `Apart /\ ReusedAreKive => (Spec => []EveryTrapIsWatched)` |

`TypeOK` of `CaptorDeployment` is not inductive: that the worker finds a spec in what it
fetches depends on every policy that exists having one (`Types`).  A captor made by the
worker has a living owner because cached policies that count as current agree with the
API server (`Coherent`) and because only the worker takes the finalizer away, so that from
`list` on the policy in progress stays with its uid (`WorksForTheLiving`).  For
the deletions `CleanupInv` adds that labels tell who may ask for a captor (`LabelsTell`,
also in stale copies), that what is marked as surplus belongs to the policy in
progress and is not asked for by the spec as first read (`SurplusIsOurs`), that captors are
made for that spec only (`TodoIsAsked`), and that a request with an older spec has an event
or a queued request behind it (`NewsComes`).  `Apart` says that no two policies
ask for the same captor; it is necessary, as divergence 12 shows.

That no captor is stray needs no premise about environment, names or specs.  What it
excepts is in its formula: a policy whose last request was misled (`misread`) still exists and
owns its captors, but may have others than it asks for.  `StrayInv` says that a uid is never
used twice and tells the policy that had it (`UidsTell`); that a policy in deletion will be
looked at again, unless its last look ended in a NotFound (`DeletionComes`); that a request
that can be trusted, one without an error or a stale read,
leaves no captor of its policy but those that its spec asks for and those still on its
list (`CleansUp`); and that therefore a policy for which nothing is due has no other
(`CleanAtRest`).  A captor left behind by a policy that is gone carries a uid that nobody will
have again, so that the garbage collector may take it.  `EveryTrapIsWatched` adds
`Deploys` and `WatchedAtRest`, the same two steps for what a request makes: each valid trap
is still to be done, counted as failed, or has a captor of the right owner.  Only the
clean-up of its own policy takes such a captor away (`WellStays`), and for this `Apart` is
needed.  `ReusedAreKive` excludes divergence 11, the captor that is found by
name but owned by a policy that was deleted.

For all policies, traps, Deployments, Secrets, environments and bounds (under the ASSUMEs
of `VolumeMount`):

| theorem | states |
|---|---|
| `VolumesAreTyped` | `Spec => []TypeOK` |
| `EditsAlwaysSurvive` | `Spec => EditsSurvive` |
| `MountsAreRecorded` | `Spec => []MountedIsRecorded` |
| `RecordsAreMounted` | `OwnPaths /\ NothingReturns => (Spec => []RecordedIsMounted)` |
| `SecretsAreThere` | `OwnPaths /\ NothingReturns => (Spec => []VolumesAreBacked)` |

`TypeOK` of `VolumeMount` needs that a policy is at a place of its plan (`InPlan`) and that the
worker has an item only inside the loops (`ItemInLoop`).  Edits survive because of two facts
(`EditInv`): what is read from a current cache is current (`CacheIsCurrent`), and a copy
from which an update would be accepted agrees with the stored Deployment in everything
that belongs to others (`CopiesAreCurrent`).  The copy may differ from the Deployment in its
mounts: a failed update has taken a mount from the copy (`removeDecoyWithVolumeMount` shares
the list of containers with its caller).  That is why the invariant compares the edits
(`SameEdits`) and not the objects.

That no mount is forgotten has no premise.  `MountInv` says that a volume is there exactly as
long as it has mounts, and by how much the copies of the worker may differ from the
Deployments (`CopiesMatch`: by the volume of the item in progress).  `RecordInv` says what a
request may rely on: the work agrees with the records it was made from (`WorkAgrees`,
`ItemAgrees`), a policy with records has the finalizer (`PoliciesAgree`), decoys are mounted and
the finalizer goes only after a clean-up that has left no record of an unneeded trap
(`Progress`), and each mount is recorded or about to be (`MountsKnown`).

The other two also need the history.  A record whose mount is gone is one that a clean-up has
begun to remove; it has to be on its way out, with another request due (`StaleIsSeen`), and it
must not be taken for a deployed decoy meanwhile.  `PlanInv` says that the records of a policy
come from the specs that it has had so far, so that a trap that is not wanted now never will
be (`NothingReturns`), and that it never has records of two decoys at one path (`NeverTwice`,
by `OwnPaths`).  `FileInv` adds that a volume belongs to the decoy that is recorded for it
(`ContentsAgree`) and that errors after which finalization is not repeated come after a write
whose event brings another request (`ErrorsAgree`).  A Secret that is deleted although the update of the Deployment
failed leaves a record of this kind, and at rest there is none.  Both premises are about users, and TLC shows
what happens without them.  If a trap comes back (`{ta}`, `{tb}`, `{ta}`), `RecordedIsMounted`
fails without any fault and `VolumesAreBacked` with one.  If two policies use one path,
`RecordedIsMounted` fails without any fault and `VolumesAreBacked` with two Deployments and one
fault.  If one policy puts two traps at one path, `RecordedIsMounted` fails without any fault.

For all clusters, filters and selectors, and any number of them (under the ASSUMEs of
`Matching`):

| theorem | states |
|---|---|
| `MatchesAsDocumented` | with unique names, at any time in the loop the map holds what the filters so far select |
| `MatchingIsExact` | `Spec => []SelectsExactly` |
| `ResultIsHonest` | `Spec => []SaysThatMoreWillCome` |
| `DecoysAreAlwaysWatched` | `Spec => []DecoysAreWatched` |
| `NoAlertElsewhere` | `Spec => []OnlySelectedAlert`, without unique names |

The invariant `MatchInv` says what the map holds after some of the filters (`MapSoFar`) and
that a result is the one of the finished map.  A round keeps it because with unique
names cutting a list loses nothing (`NothingIsCut`), the join by name is the
documented AND (`JoinMatches`), and an object is merged with nothing but itself
(`OwnEntry`).

For all accesses, log lines, Tetragon pods, sinks and bounds (under the ASSUMEs of
`AlertForwarder`), with any interleaving of handlers and tasks:

| theorem | states |
|---|---|
| `ForwarderIsTyped` | `Spec => []TypeOK` |
| `SomeTaskReads` | `Spec => []OneTaskSurvives`, in every environment |
| `CacheIsProcessed` | `"apierror" \notin Env /\ Spec => []CachedIsProcessed` |
| `NobodyIsToldTwice` | `"overlap" \notin Env /\ "restart" \notin Env /\ Spec => []NoDuplicates` |

`OneTaskSurvives` is not inductive: the later call that it promises may be one whose handler
has read the clock and is refused then.  `DebounceInv` asks for one whose task has been
started, and says that `most_recent_trigger` is the time of such a call, debounced or not
(`RecentIsACall`).  If the call that a task gives way to has been debounced itself, that one
gave way to a still later one, which is not the task in question because its time is too
early.  For the cache, `Accounted` adds the lines that wait in the batch of a task.  For
duplicates, `OnceInv` adds that one task at a time is reading, that what it has not found in
the cache is still not there when it is added (`NewIsNew`), and that an access waits with one
line in one batch, without an alert so far (`WaitsOnce`).  The assumptions on the environment
are necessary: without them TLC violates the properties (divergences 24 and 25; a restart
empties the cache).

For all policies, traps, containers and orders in which they are recorded (under the ASSUMEs
of `AnnotationList`: an order names each container once, and `None` is not a list of
changes), and lists of any length:

| theorem | states |
|---|---|
| `ListInvariant` | the annotation is missing or a good list: a change per policy, an entry per trap, nothing empty |
| `ListIsWellFormed` | `Spec => []WellFormed` |
| `ListActsAsFunction` | `Spec => []OperationsAgree`: the step from lists to the functions of `Annotations`, with the one case in which order matters |
| `OneOrderActsAsFunction` | `OneOrder => (Spec => [](OperationsAgree /\ RemovalAgrees))`: no such case with one order, as in a pod |
| `OthersAlwaysKept` | `Spec => OthersKept` |

They join the other proofs: the three models of Reconcile work on `Annotations`, and
`ListActsAsFunction` says that the lists in the code do the same, but for a removal that
compares two orders.  `WithoutIsRemove` says what becomes of the entry of a trap, and
`OtherTells` when sets of containers cannot see it; with one order a list is determined by
its set (`ListsInOneOrder`).  The invariant `ListInv` is the same for `WellFormed` and `OperationsAgree`; it has the type of the
list besides, of any length.  What the list says of a trap is `Of`, and each
operation has a lemma on a good list (`AddEffect`, `UpdateEffect`, `RemoveEffect`): the list that
it leaves is good, what `GetAnnotationChange` finds in it, and that the changes of others are the
same in the same order.  The arguments are free, so that it does not matter how old the copy
is from which `RemoveDecoy` took them.

The loops of the code that copy what they want to keep are one recursive function, `Keep`.
Its laws hold by induction on the list, and the provers cannot instantiate the
induction theorems of the library.  Two lemmas take their place: `LeastNat`, that a set of numbers
has a least one, by well-foundedness, and from it `ListInduction`, that a set of lists that is
closed under Append has all of them; each law of `Keep` defines the set of lists for which
it holds.

Every invariant and every action property of the passing runs is now stated by a theorem.
Only model-checked is liveness under fairness (`DeletionCompletes`, `Settles`,
`EveryAccessAlerts`), which is out of the prover's reach.

## 5. Not modelled, and the plan

Left out for good: parse errors of an annotation that somebody edited by hand, evaluation
of regular expressions and globs, formatting of alerts and messages, hashes, TLS and
metrics, the Kive path of the forwarder (one request, one alert, no state), the case that
Tetragon or Kive is not installed, packaging, and HTTP traps, which the code has not
implemented.  The manager is modelled only by its defaults, one worker and one replica.

What could come next: `VolumeMount` with two policies that share a Secret, once the code says
who owns it (divergence 15).
