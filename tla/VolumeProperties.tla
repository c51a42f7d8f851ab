-------------------------- MODULE VolumeProperties --------------------------
(* What the deployment of decoys as volumes promises.                      *)
EXTENDS VolumeMount

Exists(p) == policy[p].phase \in {"live", "deleting"}

\* A request for policy p is queued, delayed or in progress, or an event of a
\* Deployment that leads to one is on its way.
Pending(p) == p \in queue \cup delayed \/ cur = p \/ \E d \in Deps : depEvent[d]

\* The decoy of trap t is in container c.
InPlace(d, c, t) == PathOf[t] \in dep[d].mounts[c] /\ dep[d].vols[PathOf[t]] = SecretOf[t]

Records(p, d, c, t) == c \in dep[d].ann[p][t]

\* The annotation is right: what a policy at rest has recorded is mounted, from
\* the Secret of this very content (removeDecoyWithVolumeMount, RemoveDecoy).
RecordedIsMounted ==
    \A p \in Policies, d \in Deps \ lost, c \in Containers, t \in Traps :
       Records(p, d, c, t) /\ ~Pending(p) => InPlace(d, c, t)

\* The annotation is complete: at rest each volume has a mount and each mount a
\* record of a policy that exists, without which no clean-up would find it; unless
\* the controller stopped, or failed to write, between the two.
MountedIsRecorded ==
    (\A p \in Policies : ~Pending(p)) =>
       \A d \in Deps \ lost, x \in Paths :
          /\ dep[d].vols[x] # None => \E c \in Containers : x \in dep[d].mounts[c]
          /\ \A c \in Containers : x \in dep[d].mounts[c] =>
                \E p \in Policies, t \in Traps : Exists(p) /\ PathOf[t] = x /\ Records(p, d, c, t)

\* New pods of a Deployment start only if the Secret of each volume exists.  At
\* rest it does, unless a lagging cache showed createSecret one that was gone
\* (createSecret, removeDecoyWithVolumeMount).
VolumesAreBacked ==
    (\A p \in Policies : ~Pending(p)) =>
       \A d \in Deps \ lost, x \in Paths : dep[d].vols[x] \in secret \cup misled \cup {None}

\* Writing back a copy never undoes what a user has changed meanwhile in the
\* template, nor the status, nor the records of another policy (optimistic
\* concurrency; the copies of GetAnnotatedResources live longest).
Kept(d) ==
    /\ dep'[d].user >= dep[d].user
    /\ dep[d].labelled => dep'[d].labelled
    /\ \A p \in Policies : p # cur => dep'[d].ann[p] = dep[d].ann[p]

EditsSurvive == [][\A d \in Deps : Kept(d)]_vars

\* A policy that is marked for deletion goes in the end, whatever fails; unless
\* a mount without record keeps its volume.
DeletionCompletes ==
    \A p \in Policies :
       policy[p].phase = "deleting" ~> policy[p].phase = "gone" \/ lost # {}

\* When users and faults rest, every policy has its decoys mounted and recorded
\* in every Deployment it matches, or reports an error; and so it stays.
HasDecoys(p) ==
    \A d \in MatchedBy[p], t \in TrapsOf(p) :
       dep[d].labelled => \A c \in SelectedBy[t] : Records(p, d, c, t) /\ InPlace(d, c, t)

Settled ==
    \A p \in Policies :
       policy[p].phase = "live" =>
          HasDecoys(p) \/ policy[p].status = "DecoyDeploymentError" \/ lost # {}

Settles == <>[]Settled
=============================================================================
