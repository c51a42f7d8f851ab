-------------------------- MODULE CaptorProperties --------------------------
(* What the captor deployment promises.                                    *)
EXTENDS CaptorDeployment

Captors(ts) == {NameOf[t] : t \in ts} \ {None}

\* A request for policy p is queued, delayed or in progress, or an event that
\* leads to one is on its way.
Pending(p) == p \in queue \cup delayed \/ cur = p \/ ~polFresh[p]

\* The garbage collector has something to do, or caches to catch up with.
Moving == \E n \in Names : Orphaned(n) \/ ~capFresh[n]

\* Policy p has the captors of its valid traps.  A strict policy with an invalid
\* trap gets no new ones.
Watched(p) ==
    LET s == policy[p].spec IN
    Blocked(s) \/ \A n \in Captors(s.traps \cap ValidTraps) : captor[n] # None

\* A trap does not stay without its captor unless the condition of its policy
\* says so: whatever was deleted, collected, applied or refused in between, at
\* rest every valid trap of a policy is watched (DeployCaptor; README, Captor
\* Deployment).  A request that read a stale captor may leave one out, and only
\* that request may.
EveryTrapIsWatched ==
    \A p \in Policies :
       policy[p].phase = "live" /\ ~Pending(p) /\ ~Moving /\ p \notin misread
          => Watched(p) \/ policy[p].status = "CaptorDeploymentError"

\* No captor outlives its trap or its policy: when a policy is at rest, each captor
\* with its label is owned by that policy, which exists, and asked for by one of its
\* traps (cleanupRemovedCaptors and the owner references).  Only a policy whose last
\* request was misled may have others: it read a stale captor, or it is a policy in
\* deletion that Reconcile took to be gone.
NoStrayCaptor ==
    \A n \in Names :
       captor[n] # None /\ ~Moving =>
          LET p == captor[n].label IN
          \/ Pending(p)
          \/ /\ policy[p].phase # "absent" /\ captor[n].owner = policy[p].uid
             /\ \/ policy[p].phase = "live" /\ n \in Captors(policy[p].spec.traps)
                \/ p \in misread

\* A captor is only made for an owner that exists, and keeps existing until
\* the request is done: otherwise the garbage collector would take it away
\* under a policy that counts it as deployed (putFinalizer and the single
\* worker; generateTetragonTracingPolicy, generateKivePolicy).
OwnerExists(p) == policy[p].phase # "absent" /\ policy[p].fin /\ policy[p].uid = goal.uid

OwnedByTheLiving(object) ==
    OwnerExists(object.label) /\ object.owner = policy[object.label].uid

MadeWell(n) ==
    captor'[n] # None /\ captor'[n] # captor[n] => OwnedByTheLiving(captor'[n])

MadeForTheLiving == [][\A n \in Names : MadeWell(n)]_vars

\* A captor that a policy asks for is only taken away by a worker that has not
\* seen the latest spec yet, and the request that brings it back is on its way
\* (cleanupRemovedCaptors and the generation events).
Asks(p, n) == policy[p].phase = "live" /\ n \in Captors(policy[p].spec.traps)

TakenWell(n, p) ==
    captor[n] # None /\ captor'[n] = None /\ Asks(p, n)
       => \/ Orphaned(n)
          \/ cur = p /\ goal.spec # policy[p].spec /\ (p \in queue \/ ~polFresh[p])

TakenOnlyByMistake == [][\A n \in Names, p \in Policies : TakenWell(n, p)]_vars

\* When the users and the faults rest, every policy that asks for captors the
\* generators can make is gone or watched, or says that it is not; and so it
\* stays (reconcileCaptors, the requeues of Reconcile).  A policy whose last request
\* was misled may stay unwatched, or in deletion if it was taken to be gone.
Settled ==
    \A p \in Policies :
       \/ policy[p].phase = "absent" \/ p \in misread
       \/ /\ policy[p].phase = "live"
          /\ \/ Watched(p) \/ policy[p].status = "CaptorDeploymentError"
             \/ policy[p].spec.traps \cap NoSelector # {}

Settles == <>[]Settled

\* A trap that is valid gets its captor in the end, or the condition of the
\* policy reports the error: a filter needs namespaces or labels, not both
\* (src/README.md, Match Rule; matchOnlyNamespace of TestIsValid).
ValidTrapsGetWatched ==
    <>[](\A p \in Policies :
            policy[p].phase = "live" => Watched(p) \/ policy[p].status = "CaptorDeploymentError")
=============================================================================
