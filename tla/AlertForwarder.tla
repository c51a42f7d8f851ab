--------------------------- MODULE AlertForwarder ---------------------------
(***************************************************************************)
(* The alert forwarder, Tetragon path.  Tetragon writes each access to a   *)
(* decoy to the log of one of its pods and calls the forwarder.  Each call *)
(* starts a background task that sleeps, gives up if there was a later     *)
(* call in the meantime, and otherwise reads the latest log lines of all   *)
(* Tetragon pods, drops the ones that are in a cache, and prints and sends *)
(* an alert for each of the others.                                        *)
(*                                                                         *)
(* Handlers and tasks run in a pool of threads that share two globals.     *)
(* Tasks are named after the access that called for them.  Time is         *)
(* discrete; unless "slow" is in Env, it stands still while a thread can   *)
(* run.                                                                    *)
(***************************************************************************)
EXTENDS Integers, FiniteSets

CONSTANTS
    Accesses,       \* accesses to decoys
    Copies,         \* log lines of an access: kprobes trigger more than once
    Nodes, NodeOf,  \* Tetragon pods, and the one that logs an access
    Own,            \* the accesses of the controller, known by their fingerprint
    Excluded,       \* the accesses in containers that the trap does not select
    Sinks,
    None,
    Env,            \* what the environment may do, see EnvKinds
    Debounce,       \* DEBOUNCE_SECONDS
    Window,         \* since_seconds
    MaxTime,        \* bound on the clock while there are accesses
    MaxFaults       \* bound on faults

EnvKinds == {
    "slow",         \* calls and tasks take time
    "overlap",      \* tasks read logs at the same time
    "apierror",     \* calls to the Kubernetes API fail
    "sinkerror",    \* alert sinks are not reachable
    "restart" }     \* the forwarder restarts

Lines == Accesses \X Copies

ASSUME ForwarderEnvAssumption == Env \subseteq EnvKinds
ASSUME NodeAssumption == NodeOf \in [Accesses -> Nodes]
ASSUME FilterAssumption == Own \cup Excluded \subseteq Accesses
ASSUME TimeAssumption == {Debounce, Window, MaxTime, MaxFaults} \subseteq Nat
ASSUME NoLineAssumption == None \notin Lines

VARIABLES
    now,
    logged,         \* when an access was logged, 0 if not yet
    recent,         \* most_recent_trigger
    cache,          \* event_cache: hashes of lines without milliseconds
    pc, stamp, due, \* of each task: where it is, its timestamp, its alarm
    nodes,          \* Tetragon pods that it has not read yet
    lines,          \* lines of the last log read, not looked at yet
    found,          \* the line that it did not find in the cache, or None
    batch,          \* events_per_policy
    sinks, resolved,    \* alert_sinks; container_selectors is not None
    printed,        \* how many alerts an access has got on stdout
    sent,           \* <<s, a>>: sink s has got an alert for access a
    faults

globals == <<recent, cache>>
taskVars == <<pc, stamp, due, nodes, lines, found, batch, sinks, resolved>>
outVars == <<printed, sent>>
vars == <<now, logged, globals, taskVars, outVars, faults>>

Running == {"listing", "reading", "alerting"}
Over == {"refused", "debounced", "done", "died"}

TypeOK ==
    /\ now \in Nat /\ recent \in Nat /\ faults \in Nat
    /\ logged \in [Accesses -> Nat] /\ stamp \in [Accesses -> Nat] /\ due \in [Accesses -> Nat]
    /\ cache \subseteq Accesses
    /\ pc \in [Accesses -> {"none", "called", "timed", "asleep"} \cup Running \cup Over]
    /\ nodes \in [Accesses -> SUBSET Nodes]
    /\ lines \in [Accesses -> SUBSET Lines] /\ batch \in [Accesses -> SUBSET Lines]
    /\ found \in [Accesses -> Lines \cup {None}]
    /\ sinks \in [Accesses -> SUBSET Sinks] /\ resolved \in [Accesses -> BOOLEAN]
    /\ printed \in [Accesses -> Nat] /\ sent \subseteq Sinks \X Accesses
    /\ \A a \in Accesses : /\ pc[a] # "reading" => lines[a] = {} /\ found[a] = None
                           /\ pc[a] \notin {"reading", "alerting"} => batch[a] = {}

Init ==
    /\ now = 1 /\ recent = 0 /\ cache = {} /\ faults = 0
    /\ logged = [a \in Accesses |-> 0]
    /\ pc = [a \in Accesses |-> "none"]
    /\ stamp = [a \in Accesses |-> 0] /\ due = stamp
    /\ nodes = [a \in Accesses |-> {}]
    /\ lines = [a \in Accesses |-> {}] /\ batch = lines
    /\ found = [a \in Accesses |-> None]
    /\ sinks = [a \in Accesses |-> {}] /\ resolved = [a \in Accesses |-> TRUE]
    /\ printed = [a \in Accesses |-> 0] /\ sent = {}

Goto(a, place) == pc' = [pc EXCEPT ![a] = place]
Fault(kinds) == kinds \cap Env # {} /\ faults < MaxFaults /\ faults' = faults + 1

-----------------------------------------------------------------------------
(* Clock and Tetragon.                                                     *)

Prompt(a) == \/ pc[a] \in {"called", "timed"} \cup Running
             \/ pc[a] = "asleep" /\ due[a] <= now

Tick ==
    /\ now < MaxTime \/ \E a \in Accesses : pc[a] = "asleep" /\ due[a] > now
    /\ "slow" \in Env \/ ~\E a \in Accesses : Prompt(a)
    /\ now' = now + 1
    /\ UNCHANGED <<logged, globals, taskVars, outVars, faults>>

\* All lines of the access are in the log when the forwarder is called.
Access(a) ==
    /\ pc[a] = "none" /\ now <= MaxTime
    /\ logged' = [logged EXCEPT ![a] = now]
    /\ Goto(a, "called")
    /\ UNCHANGED <<now, globals, stamp, due, nodes, lines, found, batch, sinks, resolved,
                   outVars, faults>>

-----------------------------------------------------------------------------
(* handle_tetragon, in three steps: other threads may run in between.      *)

TakeTime(a) ==
    /\ pc[a] = "called"
    /\ stamp' = [stamp EXCEPT ![a] = now]
    /\ Goto(a, "timed")
    /\ UNCHANGED <<now, logged, globals, due, nodes, lines, found, batch, sinks, resolved,
                   outVars, faults>>

\* authenticate_kubernetes fails.
Refuse(a) ==
    /\ Fault({"apierror"})
    /\ pc[a] = "timed"
    /\ Goto(a, "refused")
    /\ UNCHANGED <<now, logged, globals, stamp, due, nodes, lines, found, batch, sinks,
                   resolved, outVars>>

NoteTrigger(a) ==
    /\ pc[a] = "timed"
    /\ recent' = stamp[a]
    /\ due' = [due EXCEPT ![a] = now + Debounce]
    /\ Goto(a, "asleep")
    /\ UNCHANGED <<now, logged, cache, stamp, nodes, lines, found, batch, sinks, resolved,
                   outVars, faults>>

-----------------------------------------------------------------------------
(* load_new_alerts and read_tetragon_events.                               *)

\* Mutant: a task takes its own call for a later one.
WakeUpLate(a) ==
    /\ pc[a] = "asleep" /\ due[a] <= now
    /\ Goto(a, IF stamp[a] <= recent THEN "debounced" ELSE "listing")
    /\ UNCHANGED <<now, logged, globals, stamp, due, nodes, lines, found, batch, sinks,
                   resolved, outVars, faults>>

WakeUp(a) ==
    /\ pc[a] = "asleep" /\ due[a] <= now
    /\ Goto(a, IF stamp[a] < recent THEN "debounced" ELSE "listing")
    /\ UNCHANGED <<now, logged, globals, stamp, due, nodes, lines, found, batch, sinks,
                   resolved, outVars, faults>>

ListPods(a) ==
    /\ pc[a] = "listing"
    /\ "overlap" \in Env \/ ~\E b \in Accesses : pc[b] = "reading"
    /\ nodes' = [nodes EXCEPT ![a] = Nodes]
    /\ Goto(a, "reading")
    /\ UNCHANGED <<now, logged, globals, stamp, due, lines, found, batch, sinks, resolved,
                   outVars, faults>>

ReadyToRead(a, n) == pc[a] = "reading" /\ lines[a] = {} /\ found[a] = None /\ n \in nodes[a]

\* read_namespaced_pod_log, with the lines of the last since_seconds.
ReadLog(a, n) ==
    /\ ReadyToRead(a, n)
    /\ nodes' = [nodes EXCEPT ![a] = @ \ {n}]
    /\ lines' = [lines EXCEPT ![a] = {l \in Lines : /\ NodeOf[l[1]] = n /\ logged[l[1]] > 0
                                                    /\ now - logged[l[1]] <= Window}]
    /\ UNCHANGED <<now, logged, globals, pc, stamp, due, found, batch, sinks, resolved,
                   outVars, faults>>

\* Status 404 or 5xx: the pod is left out.
SkipLog(a, n) ==
    /\ Fault({"apierror"})
    /\ ReadyToRead(a, n)
    /\ nodes' = [nodes EXCEPT ![a] = @ \ {n}]
    /\ UNCHANGED <<now, logged, globals, pc, stamp, due, lines, found, batch, sinks,
                   resolved, outVars>>

\* Mutant: the cache is not asked.
LookUpNothing(a, l) ==
    /\ pc[a] = "reading" /\ found[a] = None /\ l \in lines[a]
    /\ lines' = [lines EXCEPT ![a] = @ \ {l}]
    /\ found' = [found EXCEPT ![a] = l]
    /\ UNCHANGED <<now, logged, globals, pc, stamp, due, nodes, batch, sinks, resolved,
                   outVars, faults>>

\* The test of the cache and the addition to it are two steps.
LookUp(a, l) ==
    /\ pc[a] = "reading" /\ found[a] = None /\ l \in lines[a]
    /\ lines' = [lines EXCEPT ![a] = @ \ {l}]
    /\ found' = [found EXCEPT ![a] = IF l[1] \in cache THEN None ELSE l]
    /\ UNCHANGED <<now, logged, globals, pc, stamp, due, nodes, batch, sinks, resolved,
                   outVars, faults>>

Remember(a) ==
    /\ found[a] # None
    /\ cache' = cache \cup {found[a][1]}
    /\ batch' = [batch EXCEPT ![a] = @ \cup {found[a]}]
    /\ found' = [found EXCEPT ![a] = None]
    /\ UNCHANGED <<now, logged, recent, pc, stamp, due, nodes, lines, sinks, resolved,
                   outVars, faults>>

\* Mutant: the last log is not read to its end.
ReadAllButLines(a) == pc[a] = "reading" /\ nodes[a] = {} /\ found[a] = None

ReadAll(a) == pc[a] = "reading" /\ nodes[a] = {} /\ lines[a] = {} /\ found[a] = None

NothingNew(a) ==
    /\ ReadAll(a) /\ batch[a] = {}
    /\ Goto(a, "done")
    /\ UNCHANGED <<now, logged, globals, stamp, due, nodes, lines, found, batch, sinks,
                   resolved, outVars, faults>>

\* An exception ends the task: the API answers with another status, while pods
\* are listed, a log is read or the deception policy is resolved.
Die(a) ==
    /\ Fault({"apierror"})
    /\ \/ pc[a] \in {"listing", "alerting"}
       \/ \E n \in Nodes : ReadyToRead(a, n)
    /\ Goto(a, "died")
    /\ nodes' = [nodes EXCEPT ![a] = {}] /\ batch' = [batch EXCEPT ![a] = {}]
    /\ UNCHANGED <<now, logged, globals, stamp, due, lines, found, sinks, resolved, outVars>>

-----------------------------------------------------------------------------
(* The rest of load_new_alerts.                                            *)

\* try_read_alert_sinks swallows every error and returns no sinks then,
\* resolve_container_selectors returns no selectors to filter by.
ReadSinks(ss) == ss = Sinks \/ (ss = {} /\ "sinkerror" \in Env)
ResolveSelectors(known) == known \/ "apierror" \in Env

\* Mutant: without sinks there is nothing to do.
StartAlertingToSinks(a, ss, known) ==
    /\ ReadAll(a) /\ batch[a] # {} /\ ReadSinks(ss) /\ ResolveSelectors(known)
    /\ IF ss = Sinks /\ known THEN UNCHANGED faults ELSE Fault({"apierror", "sinkerror"})
    /\ sinks' = [sinks EXCEPT ![a] = ss] /\ resolved' = [resolved EXCEPT ![a] = known]
    /\ Goto(a, IF ss = {} THEN "done" ELSE "alerting")
    /\ batch' = [batch EXCEPT ![a] = IF ss = {} THEN {} ELSE @]
    /\ UNCHANGED <<now, logged, globals, stamp, due, nodes, lines, found, outVars>>

StartAlerting(a, ss, known) ==
    /\ ReadAll(a) /\ batch[a] # {} /\ ReadSinks(ss) /\ ResolveSelectors(known)
    /\ IF ss = Sinks /\ known THEN UNCHANGED faults ELSE Fault({"apierror", "sinkerror"})
    /\ sinks' = [sinks EXCEPT ![a] = ss] /\ resolved' = [resolved EXCEPT ![a] = known]
    /\ Goto(a, "alerting")
    /\ UNCHANGED <<now, logged, globals, stamp, due, nodes, lines, found, batch, outVars>>

\* is_filtered_alert and container_matches_selectors.
Filtered(a, l) == l[1] \in Own \/ (resolved[a] /\ l[1] \in Excluded)

\* send_alert to every sink, of which some fail.
Send(a, l, failed) == sent' = sent \cup {<<s, l[1]>> : s \in sinks[a] \ failed}

\* An alert is printed first and sent then.
Report(a, l, failed) ==
    IF Filtered(a, l)
    THEN failed = {} /\ UNCHANGED outVars
    ELSE printed' = [printed EXCEPT ![l[1]] = @ + 1] /\ Send(a, l, failed)

\* Mutant: an error of a sink ends the task.
AlertOrDie(a, l, failed) ==
    /\ pc[a] = "alerting" /\ l \in batch[a] /\ failed \subseteq sinks[a]
    /\ IF failed = {} THEN UNCHANGED faults ELSE Fault({"sinkerror"})
    /\ Report(a, l, failed)
    /\ batch' = [batch EXCEPT ![a] = IF failed = {} THEN @ \ {l} ELSE {}]
    /\ UNCHANGED <<now, logged, globals, pc, stamp, due, nodes, lines, found, sinks, resolved>>

\* One turn of the loop over events; an error of a sink is only logged.
Alert(a, l, failed) ==
    /\ pc[a] = "alerting" /\ l \in batch[a] /\ failed \subseteq sinks[a]
    /\ IF failed = {} THEN UNCHANGED faults ELSE Fault({"sinkerror"})
    /\ Report(a, l, failed)
    /\ batch' = [batch EXCEPT ![a] = @ \ {l}]
    /\ UNCHANGED <<now, logged, globals, pc, stamp, due, nodes, lines, found, sinks, resolved>>

FinishAlerting(a) ==
    /\ pc[a] = "alerting" /\ batch[a] = {}
    /\ Goto(a, "done")
    /\ UNCHANGED <<now, logged, globals, stamp, due, nodes, lines, found, batch, sinks,
                   resolved, outVars, faults>>

\* Threads and globals are gone.
Restart ==
    /\ Fault({"restart"})
    /\ recent' = 0 /\ cache' = {}
    /\ pc' = [a \in Accesses |-> IF pc[a] \in {"none"} \cup Over THEN pc[a] ELSE "died"]
    /\ nodes' = [a \in Accesses |-> {}]
    /\ lines' = [a \in Accesses |-> {}] /\ batch' = lines'
    /\ found' = [a \in Accesses |-> None]
    /\ UNCHANGED <<now, logged, stamp, due, sinks, resolved, outVars>>

-----------------------------------------------------------------------------
TaskStep(a) ==
    \/ TakeTime(a) \/ NoteTrigger(a) \/ WakeUp(a) \/ ListPods(a)
    \/ (\E n \in Nodes : ReadLog(a, n)) \/ (\E l \in lines[a] : LookUp(a, l)) \/ Remember(a)
    \/ NothingNew(a) \/ (\E ss \in {{}, Sinks}, known \in BOOLEAN : StartAlerting(a, ss, known))
    \/ (\E l \in batch[a], failed \in SUBSET Sinks : Alert(a, l, failed)) \/ FinishAlerting(a)

ErrorStep(a) == Refuse(a) \/ (\E n \in Nodes : SkipLog(a, n)) \/ Die(a)

Next == \/ Tick \/ Restart
        \/ \E a \in Accesses : Access(a) \/ TaskStep(a) \/ ErrorStep(a)

Spec == Init /\ [][Next]_vars

\* Threads are scheduled, the clock ticks.
Fairness == WF_vars(Tick) /\ \A a \in Accesses : WF_vars(TaskStep(a))
FairSpec == Spec /\ Fairness

-----------------------------------------------------------------------------
(* Properties.                                                             *)

\* A call is debounced only in favour of a later one that is not debounced: the
\* latest task of all reads the logs, whatever the order in which handlers
\* read the clock and write most_recent_trigger.
OneTaskSurvives ==
    \A a \in Accesses : pc[a] = "debounced" =>
       \E b \in Accesses : stamp[b] > stamp[a] /\ pc[b] \notin {"refused", "debounced"}

\* An access is reported once, although its lines are logged several times and
\* every task reads the lines of the ones before it (comment of event_cache:
\* "to prevent duplicates").
NoDuplicates == \A a \in Accesses : printed[a] <= 1

\* What is in the cache has been processed: when no task is under way, there is
\* an alert for it unless it is filtered (comment of event_cache: "already
\* processed events").
CachedIsProcessed ==
    (\A a \in Accesses : pc[a] \notin Running)
       => \A a \in cache : printed[a] > 0 \/ a \in Own \cup Excluded

\* Every access that is not filtered is reported on stdout in the end, although
\* sinks fail, calls come in bursts, most of their tasks are debounced and tasks
\* take lines from each other, unless a restart has killed a task (the loop of
\* load_new_alerts, in which an error of a sink is only logged).
EveryAccessAlerts ==
    \A a \in Accesses \ (Own \cup Excluded) :
       logged[a] > 0 ~> printed[a] > 0 \/ \E b \in Accesses : pc[b] = "died"
=============================================================================
