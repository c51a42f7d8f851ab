---------------------------- MODULE DecoyLedger ----------------------------
(***************************************************************************)
(* What the controller promises about decoys, without caches, queues,      *)
(* annotations or commands: a ledger of the decoys that are out, in which  *)
(* a policy has entries only while it is under guard, and a guard that is  *)
(* lifted only when the policy has no entry left.                          *)
(***************************************************************************)
CONSTANTS Policies, Pods, Traps

VARIABLES
    guard,      \* policies that cannot disappear
    ledger      \* <<p, d, t>>: trap t of policy p is recorded on pod d

Entries(p) == {e \in ledger : e[1] = p}

LedgerTypeOK == guard \subseteq Policies /\ ledger \subseteq Policies \X Pods \X Traps

Init == guard = {} /\ ledger = {}

Adopt(p) == p \notin guard /\ guard' = guard \cup {p} /\ UNCHANGED ledger

Record(p, d, t) == p \in guard /\ ledger' = ledger \cup {<<p, d, t>>} /\ UNCHANGED guard

Erase(p, d, t) == p \in guard /\ ledger' = ledger \ {<<p, d, t>>} /\ UNCHANGED guard

\* A pod takes its decoys with it.
Vanish(d) == ledger' = {e \in ledger : e[2] # d} /\ UNCHANGED guard

Release(p) == p \in guard /\ Entries(p) = {} /\ guard' = guard \ {p} /\ UNCHANGED ledger

Next ==
    \/ \E p \in Policies : Adopt(p) \/ Release(p)
    \/ \E p \in Policies, d \in Pods, t \in Traps : Record(p, d, t) \/ Erase(p, d, t)
    \/ \E d \in Pods : Vanish(d)

Spec == Init /\ [][Next]_<<guard, ledger>>
=============================================================================
