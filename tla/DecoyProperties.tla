-------------------------- MODULE DecoyProperties --------------------------
(***************************************************************************)
(* What the decoy reconciler promises.                                     *)
(***************************************************************************)
EXTENDS DecoyReconciler

Live(d) == pod[d].phase = "live"
OnPod(d, p) == pod[d].ann[p]

-----------------------------------------------------------------------------
(* The annotation and the finalizer.                                       *)

\* The finalizer guards the decoys: as long as the annotation of a pod records
\* decoys of a policy, the policy exists and has the finalizer that makes the
\* controller remove them (putFinalizer comes before reconcileDecoys, and
\* cleanupDeceptionPolicy before RemoveFinalizer).
Guarded(p) == policy[p].phase # "absent" /\ policy[p].fin

FinalizerGuards ==
    \A p \in Policies, d \in Pods : Live(d) /\ IsAnnotated(pod[d].ann, p) => Guarded(p)

\* The reconciler implements the ledger: guarded are the policies that have the
\* finalizer, recorded are the decoys in the annotations of running pods.
Ledger == INSTANCE DecoyLedger WITH
    guard  <- {p \in Policies : Guarded(p)},
    ledger <- {e \in Policies \X Pods \X Traps : Live(e[2]) /\ OnPod(e[2], e[1])[e[3]] # {}}

\* A trap enters and leaves the ledger one at a time and only under guard, and
\* the guard of a policy is lifted only when its part of the ledger is empty
\* (the order of putFinalizer, DeployDecoy, RemoveDecoy and RemoveFinalizer
\* over restarts, failed commands and vanishing pods).
KeepsTheLedger == Ledger!Spec

\* No lost update: an annotation write of the reconciler changes the entry of
\* the policy in progress and nothing else of the pod, although the pod is
\* written back whole, as a cache showed it, while users and the kubelet
\* change it (RetryOnConflict around Get and Update).
OnlyItsEntry(d) ==
    /\ pod'[d] = [pod[d] EXCEPT !.ann = pod'[d].ann]
    /\ \A p \in Policies : p # cur => pod'[d].ann[p] = pod[d].ann[p]

NoLostUpdate ==
    [][\A d \in Pods :
          Live(d) /\ pod'[d].phase = "live" /\ pod'[d].ann # pod[d].ann
             => OnlyItsEntry(d)]_vars

\* The finalizer and status writes of the reconciler never undo what a user
\* did: a step that is no user's keeps the spec of each policy, and lets a
\* policy disappear only if a user has asked for it (putFinalizer,
\* runFinalizerIfMarkedForDeletion, updateStatusConditions).
KeepsTheUsersWord(p) ==
    \/ policy'[p].spec = policy[p].spec /\ policy'[p].phase = policy[p].phase
    \/ policy[p].phase = "deleting" /\ policy'[p].phase = "absent"

UserWins == [][edits' = edits => \A p \in Policies : KeepsTheUsersWord(p)]_vars

\* A rotation of a decoy at one path never leaves two versions of it recorded
\* in a container: the old version is removed from the annotation, or the
\* reconciliation stops, before the new one is deployed (cleanupRemovedTraps
\* comes before reconcileDecoys, and its error ends Reconcile).
OnePerPath ==
    \A p \in Policies, d \in Pods, t, u \in Traps :
       Live(d) /\ t # u /\ PathOf[t] = PathOf[u] => OnPod(d, p)[t] \cap OnPod(d, p)[u] = {}

-----------------------------------------------------------------------------
(* The annotation and the files.                                           *)

DecoyIn(d, c, t) == file[d][c][PathOf[t]] = t

\* The worker has already run the command for this container but has not
\* recorded it yet.
InProgress(d, c, t) == item # None /\ item.pod = d /\ item.trap = t /\ c \in acc

\* Whatever the annotation records is in the container, except while it is
\* being removed (RemoveDecoy keeps a container in the annotation when rm
\* failed there, DeployDecoy records only containers where cat succeeded).
RecordedIsThere ==
    \A d \in Pods, p \in Policies, t \in Traps, c \in Containers :
       Live(d) /\ c \in OnPod(d, p)[t] => DecoyIn(d, c, t) \/ InProgress(d, c, t)

\* Whatever is in a container is recorded, except while it is being deployed:
\* the annotation is "the source of truth" from which clean-up works.
ThereIsRecorded ==
    \A d \in Pods, t \in Traps, c \in Containers :
       DecoyIn(d, c, t) => \/ \E p \in Policies : c \in OnPod(d, p)[t]
                           \/ InProgress(d, c, t)

\* After the last policy is gone no decoy is left in a running container
\* (README, Cleanup: "Koney removes all the traps that have been deployed").
NothingLeftBehind ==
    (\A p \in Policies : policy[p].phase = "absent") /\ pc = "idle"
       => \A d \in Pods, c \in Containers, t \in Traps : ~DecoyIn(d, c, t)

-----------------------------------------------------------------------------
(* Wake-ups and progress.                                                  *)

\* Nothing is queued, delayed, in progress or on its way for policy p.
Forgotten(p) ==
    /\ p \notin queue \cup delayed /\ cur # p
    /\ \A q \in Policies : polFresh[q]
    /\ \A d \in Pods : podFresh[d]

Blocked(s) == s.strict /\ s.traps \ ValidTraps # {}

\* The annotations are as policy p wants them.
Converged(p) ==
    LET s == policy[p].spec IN
    /\ policy[p].fin
    /\ \A d \in Pods, t \in Traps : Live(d) =>
          /\ t \notin s.traps => OnPod(d, p)[t] = {}
          /\ /\ t \in s.traps \cap ValidTraps /\ ~Blocked(s) /\ pod[d].labelled
             /\ s.mutate \/ d \notin policy[p].old
             => s.sel[t] \subseteq OnPod(d, p)[t]

\* A failed deployment is not tried again, but it is not silent either: the
\* condition of the policy says so.
Reported(p) == policy[p].status # None /\ policy[p].status.decoys = "DecoyDeploymentError"

\* The cluster is as the users want it, as far as commands did not fail.
Settled(p) ==
    \/ policy[p].phase = "absent"
    \/ policy[p].phase = "live" /\ (Converged(p) \/ Reported(p))

\* No lost wake-up: when nothing more will happen for a policy by itself, its
\* decoys are where its spec wants them or its status reports a failure, and
\* one that is being deleted is not forgotten before it is gone (the events
\* that the filter lets through and the requeues of Reconcile).
NothingForgotten == \A p \in Policies : Forgotten(p) => Settled(p)

\* A policy that a user deletes disappears in the end (README, Cleanup; the
\* requeue of a failed finalization).
DeletionCompletes ==
    \A p \in Policies : policy[p].phase = "deleting" ~> policy[p].phase = "absent"

\* When the users and the faults rest, every policy settles, and stays so.
Settles == <>[](\A p \in Policies : Settled(p))
=============================================================================
