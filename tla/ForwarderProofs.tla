-------------------------- MODULE ForwarderProofs --------------------------
(***************************************************************************)
(* Proofs about the alert forwarder, for any number of accesses, log lines,*)
(* Tetragon pods and sinks, and any interleaving of handlers and tasks.    *)
(***************************************************************************)
EXTENDS AlertForwarder, TLAPS

-----------------------------------------------------------------------------
(* Types.                                                                  *)

\* The initial state is well typed.
LEMMA InitType == Init => TypeOK
BY DEF Init, TypeOK

\* A new line is a line of the log.
LEMMA LineTypes ==
    ASSUME TypeOK, NEW a \in Accesses
    PROVE  /\ lines[a] \subseteq Lines /\ batch[a] \subseteq Lines
           /\ \A l \in Lines : l[1] \in Accesses
           /\ found[a] # None => found[a] \in Lines
BY DEF TypeOK, Lines

\* Each step of a handler keeps the types.
LEMMA HandlerType ==
    ASSUME TypeOK, NEW a \in Accesses, Access(a) \/ TakeTime(a) \/ Refuse(a) \/ NoteTrigger(a)
    PROVE  TypeOK'
<1>1. CASE Access(a)
  BY <1>1 DEF TypeOK, Access, Goto, globals, outVars
<1>2. CASE TakeTime(a)
  BY <1>2 DEF TypeOK, TakeTime, Goto, globals, outVars
<1>3. CASE Refuse(a)
  BY <1>3 DEF TypeOK, Refuse, Fault, Goto, Over, globals, outVars
<1>4. CASE NoteTrigger(a)
  BY <1>4, TimeAssumption DEF TypeOK, NoteTrigger, Goto, outVars
<1> QED BY <1>1, <1>2, <1>3, <1>4

\* So does each step of a task up to the end of the logs.
LEMMA ReaderType ==
    ASSUME TypeOK, NEW a \in Accesses,
           \/ WakeUp(a) \/ ListPods(a) \/ \E n \in Nodes : ReadLog(a, n) \/ SkipLog(a, n)
           \/ (\E l \in lines[a] : LookUp(a, l)) \/ Remember(a) \/ NothingNew(a)
    PROVE  TypeOK'
<1>1. CASE WakeUp(a)
  BY <1>1 DEF TypeOK, WakeUp, Goto, Over, Running, globals, outVars
<1>2. CASE ListPods(a)
  BY <1>2 DEF TypeOK, ListPods, Goto, Running, globals, outVars
<1>3. ASSUME NEW n \in Nodes, ReadLog(a, n) PROVE TypeOK'
  BY <1>3 DEF TypeOK, ReadLog, ReadyToRead, globals, outVars
<1>4. ASSUME NEW n \in Nodes, SkipLog(a, n) PROVE TypeOK'
  BY <1>4 DEF TypeOK, SkipLog, ReadyToRead, Fault, globals, outVars
<1>5. ASSUME NEW l \in lines[a], LookUp(a, l) PROVE TypeOK'
  <2>1. l \in Lines
    BY LineTypes
  <2> QED BY <1>5, <2>1 DEF TypeOK, LookUp, globals, outVars
<1>6. CASE Remember(a)
  <2>1. found[a] \in Lines /\ found[a][1] \in Accesses /\ pc[a] = "reading"
    BY <1>6, LineTypes DEF Remember, TypeOK
  <2> QED BY <1>6, <2>1 DEF TypeOK, Remember, outVars
<1>7. CASE NothingNew(a)
  BY <1>7 DEF TypeOK, NothingNew, ReadAll, Goto, Over, globals, outVars
<1> QED BY <1>1, <1>2, <1>3, <1>4, <1>5, <1>6, <1>7

\* So does each step after that.
LEMMA ReporterType ==
    ASSUME TypeOK, NEW a \in Accesses,
           \/ \E ss \in {{}, Sinks}, known \in BOOLEAN : StartAlerting(a, ss, known)
           \/ \E l \in batch[a], failed \in SUBSET Sinks : Alert(a, l, failed)
           \/ FinishAlerting(a) \/ Die(a)
    PROVE  TypeOK'
<1>1. ASSUME NEW ss \in {{}, Sinks}, NEW known \in BOOLEAN, StartAlerting(a, ss, known)
      PROVE  TypeOK'
  <2>1. faults' \in Nat
    BY <1>1 DEF TypeOK, StartAlerting, Fault
  <2> QED BY <1>1, <2>1 DEF TypeOK, StartAlerting, ReadAll, Goto, Running, globals, outVars
<1>2. ASSUME NEW l \in batch[a], NEW failed \in SUBSET Sinks, Alert(a, l, failed)
      PROVE  TypeOK'
  <2>1. faults' \in Nat
    BY <1>2 DEF TypeOK, Alert, Fault
  <2>2. l \in Lines /\ l[1] \in Accesses /\ sinks[a] \subseteq Sinks
    BY LineTypes DEF TypeOK
  <2>3. printed' \in [Accesses -> Nat] /\ sent' \subseteq Sinks \X Accesses
    BY <1>2, <2>2 DEF TypeOK, Alert, Report, Send, outVars
  <2> QED BY <1>2, <2>1, <2>3 DEF TypeOK, Alert, globals
<1>3. CASE FinishAlerting(a)
  BY <1>3 DEF TypeOK, FinishAlerting, Goto, Over, globals, outVars
<1>4. CASE Die(a)
  BY <1>4 DEF TypeOK, Die, ReadyToRead, Fault, Goto, Over, globals, outVars
<1> QED BY <1>1, <1>2, <1>3, <1>4

\* Every step keeps the types.
LEMMA StepType == TypeOK /\ [Next]_vars => TypeOK'
<1> SUFFICES ASSUME TypeOK, [Next]_vars PROVE TypeOK'
  OBVIOUS
<1>1. CASE Tick
  BY <1>1 DEF TypeOK, Tick, globals, taskVars, outVars
<1>2. CASE Restart
  BY <1>2 DEF TypeOK, Restart, Fault, Over, outVars
<1>3. ASSUME NEW a \in Accesses, Access(a) \/ TaskStep(a) \/ ErrorStep(a) PROVE TypeOK'
  BY <1>3, HandlerType, ReaderType, ReporterType DEF TaskStep, ErrorStep
<1>4. CASE UNCHANGED vars
  BY <1>4 DEF TypeOK, vars, globals, taskVars, outVars
<1> QED BY <1>1, <1>2, <1>3, <1>4 DEF Next

\* Every variable keeps its type, and tasks keep lines only while they read and
\* alert, whatever the environment does.
THEOREM ForwarderIsTyped == Spec => []TypeOK
BY InitType, StepType, PTL DEF Spec

-----------------------------------------------------------------------------
(* Debouncing.                                                             *)

Surviving == {"asleep", "done", "died"} \cup Running

\* What a task compares its own call with is the call of a task that was started.
RecentIsACall ==
    recent = 0 \/ \E b \in Accesses : stamp[b] = recent /\ pc[b] \in Surviving \cup {"debounced"}

\* A debounced call has a later one whose task has been started already, and has not
\* been debounced: one that is still to be started may yet be refused.
LaterSurvives ==
    \A a \in Accesses : pc[a] = "debounced" =>
       \E b \in Accesses : stamp[b] > stamp[a] /\ pc[b] \in Surviving

DebounceInv == RecentIsACall /\ LaterSurvives

\* Tasks that are started stay so, but for the one that is debounced, and keep their
\* timestamps.
LEMMA DebounceStable ==
    ASSUME TypeOK, DebounceInv, NEW a \in Accesses,
           \A b \in Accesses \ {a} : pc'[b] = pc[b] /\ stamp'[b] = stamp[b],
           recent' = recent, pc'[a] # "debounced",
           pc[a] \in Surviving => pc'[a] \in Surviving /\ stamp'[a] = stamp[a],
           pc[a] # "debounced"
    PROVE  DebounceInv'
<1>1. RecentIsACall'
  <2>1. CASE recent = 0
    BY <2>1 DEF RecentIsACall
  <2>2. ASSUME NEW b \in Accesses, stamp[b] = recent, pc[b] \in Surviving \cup {"debounced"}
        PROVE  RecentIsACall'
    <3>1. stamp'[b] = recent' /\ pc'[b] \in Surviving \cup {"debounced"}
      BY <2>2
    <3> QED BY <3>1 DEF RecentIsACall, Surviving, Running
  <2> QED BY <2>1, <2>2 DEF DebounceInv, RecentIsACall
<1>2. ASSUME NEW c \in Accesses, pc'[c] = "debounced"
      PROVE  \E b \in Accesses : stamp'[b] > stamp'[c] /\ pc'[b] \in Surviving
  <2>1. c # a /\ pc[c] = "debounced" /\ stamp'[c] = stamp[c]
    BY <1>2
  <2>2. PICK b \in Accesses : stamp[b] > stamp[c] /\ pc[b] \in Surviving
    BY <2>1 DEF DebounceInv, LaterSurvives
  <2>3. stamp'[b] = stamp[b] /\ pc'[b] \in Surviving
    BY <2>2
  <2> QED BY <2>1, <2>2, <2>3
<1> QED BY <1>1, <1>2 DEF DebounceInv, LaterSurvives, Surviving, Running

\* The task that wakes up and finds a later call is the only one that is lost; the
\* later call is not, or has a survivor itself.
LEMMA WakeUpDebounces ==
    ASSUME TypeOK, DebounceInv, NEW a \in Accesses, WakeUp(a) PROVE DebounceInv'
<1>1. /\ pc[a] = "asleep" /\ UNCHANGED <<stamp, recent>>
      /\ \A b \in Accesses \ {a} : pc'[b] = pc[b]
      /\ pc'[a] = IF stamp[a] < recent THEN "debounced" ELSE "listing"
      /\ stamp \in [Accesses -> Nat] /\ recent \in Nat
  BY DEF WakeUp, Goto, TypeOK, globals, Running, Over
<1>2. CASE ~(stamp[a] < recent)
  <2>1. pc'[a] = "listing"
    BY <1>1, <1>2
  <2> QED BY <1>1, <2>1, DebounceStable DEF Surviving, Running
<1>3. CASE stamp[a] < recent
  <2>1. RecentIsACall'
    <3>1. PICK b \in Accesses : stamp[b] = recent /\ pc[b] \in Surviving \cup {"debounced"}
      BY <1>1, <1>3 DEF DebounceInv, RecentIsACall
    <3>2. b # a
      BY <1>1, <1>3, <3>1
    <3> QED BY <1>1, <3>1, <3>2 DEF RecentIsACall, Surviving, Running
  <2>2. PICK b \in Accesses : stamp[b] >= recent /\ pc[b] \in Surviving /\ b # a
    <3>1. PICK b \in Accesses : stamp[b] = recent /\ pc[b] \in Surviving \cup {"debounced"}
      BY <1>1, <1>3 DEF DebounceInv, RecentIsACall
    <3>2. CASE pc[b] = "debounced"
      <4>1. PICK d \in Accesses : stamp[d] > stamp[b] /\ pc[d] \in Surviving
        BY <3>2 DEF DebounceInv, LaterSurvives
      <4>2. stamp[d] \in Nat /\ stamp[b] \in Nat /\ stamp[a] \in Nat
        BY <1>1
      <4> QED BY <1>1, <1>3, <3>1, <4>1, <4>2
    <3>3. CASE pc[b] # "debounced"
      BY <1>1, <1>3, <3>1, <3>3
    <3> QED BY <3>2, <3>3
  <2>3. pc'[b] \in Surviving
    BY <1>1, <2>2
  <2>4. ASSUME NEW c \in Accesses, pc'[c] = "debounced"
        PROVE  \E d \in Accesses : stamp'[d] > stamp'[c] /\ pc'[d] \in Surviving
    <3>1. CASE c = a
      BY <1>1, <1>3, <2>2, <2>3, <3>1
    <3>2. CASE c # a
      <4>1. PICK d \in Accesses : stamp[d] > stamp[c] /\ pc[d] \in Surviving
        BY <1>1, <2>4, <3>2 DEF DebounceInv, LaterSurvives
      <4>2. CASE d = a
        <5>1. stamp[b] > stamp[c]
          BY <1>1, <1>3, <2>2, <4>1, <4>2
        <5> QED BY <1>1, <2>3, <5>1
      <4>3. CASE d # a
        BY <1>1, <4>1, <4>3
      <4> QED BY <4>2, <4>3
    <3> QED BY <3>1, <3>2
  <2> QED BY <2>1, <2>4 DEF DebounceInv, LaterSurvives
<1> QED BY <1>2, <1>3

\* A call is noted when its task is started, and a handler that overtakes another
\* may note an older one.
LEMMA NoteDebounces ==
    ASSUME TypeOK, DebounceInv, NEW a \in Accesses, NoteTrigger(a) PROVE DebounceInv'
<1>1. /\ pc[a] = "timed" /\ UNCHANGED stamp /\ recent' = stamp[a]
      /\ \A b \in Accesses \ {a} : pc'[b] = pc[b]
      /\ pc'[a] = "asleep"
  BY DEF NoteTrigger, Goto, TypeOK
<1>2. RecentIsACall'
  BY <1>1 DEF RecentIsACall, Surviving
<1>3. \A b \in Accesses : pc[b] \in Surviving => pc'[b] \in Surviving
  BY <1>1 DEF Surviving
<1>4. LaterSurvives'
  BY <1>1, <1>3 DEF DebounceInv, LaterSurvives, Surviving, Running
<1> QED BY <1>2, <1>4 DEF DebounceInv

\* A restart ends all tasks and forgets the last call.
LEMMA RestartDebounces == TypeOK /\ DebounceInv /\ Restart => DebounceInv'
<1> SUFFICES ASSUME TypeOK, DebounceInv, Restart PROVE DebounceInv'
  OBVIOUS
<1>1. recent' = 0 /\ UNCHANGED stamp
  BY DEF Restart
<1>2. \A b \in Accesses : pc[b] \in Surviving => pc'[b] \in Surviving
  BY DEF Restart, Surviving, Running, Over
<1>3. \A b \in Accesses : pc'[b] = "debounced" => pc[b] = "debounced"
  BY DEF Restart, Over
<1> QED BY <1>1, <1>2, <1>3 DEF DebounceInv, RecentIsACall, LaterSurvives, Surviving, Running

\* Every step keeps the invariant.
LEMMA DebounceStep == TypeOK /\ DebounceInv /\ [Next]_vars => DebounceInv'
<1> SUFFICES ASSUME TypeOK, DebounceInv, [Next]_vars PROVE DebounceInv'
  OBVIOUS
<1> DEFINE Stays(a) == /\ \A b \in Accesses \ {a} : pc'[b] = pc[b] /\ stamp'[b] = stamp[b]
                       /\ recent' = recent /\ pc[a] # "debounced" /\ pc'[a] # "debounced"
                       /\ pc[a] \in Surviving => pc'[a] \in Surviving /\ stamp'[a] = stamp[a]
<1>1. CASE UNCHANGED <<pc, stamp, recent>>
  BY <1>1 DEF DebounceInv, RecentIsACall, LaterSurvives, Surviving, Running
<1>2. CASE Tick \/ UNCHANGED vars
  BY <1>1, <1>2 DEF Tick, vars, globals, taskVars
<1>3. ASSUME NEW a \in Accesses, Access(a) \/ TaskStep(a) \/ ErrorStep(a) PROVE DebounceInv'
  <2>1. CASE WakeUp(a) \/ NoteTrigger(a)
    BY <2>1, WakeUpDebounces, NoteDebounces
  <2>2. CASE Access(a) \/ TakeTime(a) \/ Refuse(a)
    <3>1. Stays(a)
      BY <2>2 DEF Access, TakeTime, Refuse, Goto, globals, TypeOK, Surviving, Running, Over
    <3> QED BY <3>1, DebounceStable
  <2>3. CASE \/ ListPods(a) \/ NothingNew(a) \/ FinishAlerting(a) \/ Die(a)
             \/ \E ss \in {{}, Sinks}, known \in BOOLEAN : StartAlerting(a, ss, known)
    <3>1. /\ pc[a] \in Running /\ UNCHANGED <<stamp, recent>>
          /\ \E place \in Running \cup {"done", "died"} : pc' = [pc EXCEPT ![a] = place]
      BY <2>3 DEF ListPods, NothingNew, FinishAlerting, Die, ReadyToRead, StartAlerting,
                  ReadAll, Goto, globals, Running
    <3>2. Stays(a)
      BY <3>1 DEF TypeOK, Surviving, Running, Over
    <3> QED BY <3>2, DebounceStable
  <2>4. CASE \/ \E n \in Nodes : ReadLog(a, n) \/ SkipLog(a, n)
             \/ (\E l \in lines[a] : LookUp(a, l)) \/ Remember(a)
             \/ \E l \in batch[a], failed \in SUBSET Sinks : Alert(a, l, failed)
    BY <1>1, <2>4 DEF ReadLog, SkipLog, LookUp, Remember, Alert, globals
  <2> QED BY <1>3, <2>1, <2>2, <2>3, <2>4 DEF TaskStep, ErrorStep
<1>4. CASE Restart
  BY <1>4, RestartDebounces
<1> QED BY <1>2, <1>3, <1>4 DEF Next

\* However handlers and tasks interleave, calls fail and the forwarder restarts, a call
\* is debounced only in favour of a later one that reads the logs or was killed.
THEOREM SomeTaskReads == Spec => []OneTaskSurvives
<1>1. Init => DebounceInv
  BY DEF Init, DebounceInv, RecentIsACall, LaterSurvives
<1>2. DebounceInv => OneTaskSurvives
  BY DEF DebounceInv, LaterSurvives, OneTaskSurvives, Surviving, Running
<1> QED BY <1>1, <1>2, DebounceStep, ForwarderIsTyped, PTL DEF Spec

-----------------------------------------------------------------------------
(* The cache.                                                              *)

\* What is in the cache is reported, filtered, or waits in the batch of a task.
Accounted ==
    \A x \in cache : \/ printed[x] > 0 \/ x \in Own \cup Excluded
                     \/ \E a \in Accesses : \E l \in batch[a] : l[1] = x

\* Steps that touch neither cache nor batches nor output.
QuietStep(a) ==
    \/ Access(a) \/ TakeTime(a) \/ Refuse(a) \/ NoteTrigger(a) \/ WakeUp(a)
    \/ ListPods(a) \/ (\E n \in Nodes : ReadLog(a, n) \/ SkipLog(a, n))
    \/ (\E l \in lines[a] : LookUp(a, l)) \/ NothingNew(a) \/ FinishAlerting(a)
    \/ \E ss \in {{}, Sinks}, known \in BOOLEAN : StartAlerting(a, ss, known)

\* A quiet step leaves them alone.
LEMMA QuietSteps ==
    ASSUME NEW a \in Accesses, QuietStep(a)
    PROVE  UNCHANGED <<cache, batch, printed>>
BY DEF QuietStep, Access, TakeTime, Refuse, NoteTrigger, WakeUp, ListPods, ReadLog, SkipLog,
       LookUp, NothingNew, FinishAlerting, StartAlerting, globals, outVars

\* The cases of a step, for the proofs below.
LEMMA StepCases ==
    ASSUME [Next]_vars
    PROVE  \/ Restart \/ Tick \/ UNCHANGED vars
           \/ \E a \in Accesses :
                 \/ QuietStep(a) \/ Remember(a) \/ Die(a)
                 \/ \E l \in batch[a], failed \in SUBSET Sinks : Alert(a, l, failed)
BY DEF Next, TaskStep, ErrorStep, QuietStep

\* A line that a task takes up joins its batch, and one leaves the batch when it is
\* reported or filtered.
LEMMA AccountedStep ==
    ASSUME "apierror" \notin Env, TypeOK, Accounted, [Next]_vars
    PROVE  Accounted'
<1>1. CASE UNCHANGED <<cache, batch, printed>>
  BY <1>1 DEF Accounted
<1>2. CASE Tick \/ UNCHANGED vars \/ \E a \in Accesses : QuietStep(a)
  BY <1>1, <1>2, QuietSteps DEF Tick, vars, globals, taskVars, outVars
<1>3. CASE Restart
  BY <1>3 DEF Restart, Accounted
<1>4. ASSUME NEW a \in Accesses, Die(a) PROVE FALSE
  BY <1>4 DEF Die, Fault
<1>5. ASSUME NEW a \in Accesses, Remember(a) PROVE Accounted'
  <2>1. /\ cache' = cache \cup {found[a][1]} /\ UNCHANGED printed
        /\ batch'[a] = batch[a] \cup {found[a]}
        /\ \A b \in Accesses \ {a} : batch'[b] = batch[b]
    BY <1>5 DEF Remember, TypeOK, outVars
  <2>2. ASSUME NEW x \in cache', printed'[x] = 0 \/ ~(printed'[x] > 0), x \notin Own \cup Excluded
        PROVE  \E b \in Accesses : \E l \in batch'[b] : l[1] = x
    <3>1. CASE x = found[a][1]
      BY <2>1, <3>1
    <3>2. CASE x # found[a][1]
      <4>1. PICK b \in Accesses : \E l \in batch[b] : l[1] = x
        BY <2>1, <2>2, <3>2 DEF Accounted
      <4> QED BY <2>1, <4>1
    <3> QED BY <3>1, <3>2
  <2> QED BY <2>2 DEF Accounted
<1>6. ASSUME NEW a \in Accesses, NEW l \in batch[a], NEW failed \in SUBSET Sinks,
             Alert(a, l, failed)
      PROVE  Accounted'
  <2>1. /\ UNCHANGED cache /\ batch'[a] = batch[a] \ {l}
        /\ \A b \in Accesses \ {a} : batch'[b] = batch[b]
    BY <1>6 DEF Alert, TypeOK, globals
  <2>2. /\ l[1] \in Accesses /\ printed \in [Accesses -> Nat] /\ cache \subseteq Accesses
        /\ \/ Filtered(a, l) /\ UNCHANGED printed
           \/ printed' = [printed EXCEPT ![l[1]] = @ + 1]
    BY <1>6, LineTypes DEF Alert, Report, TypeOK, outVars
  <2>3. ASSUME NEW x \in cache', ~(printed'[x] > 0), x \notin Own \cup Excluded
        PROVE  \E b \in Accesses : \E m \in batch'[b] : m[1] = x
    <3>1. x \in cache /\ ~(printed[x] > 0)
      BY <2>1, <2>2, <2>3
    <3>2. x # l[1]
      BY <2>1, <2>2, <2>3 DEF Filtered
    <3>3. PICK b \in Accesses : \E m \in batch[b] : m[1] = x
      BY <2>3, <3>1 DEF Accounted
    <3> QED BY <2>1, <3>2, <3>3
  <2> QED BY <2>3 DEF Accounted
<1> QED BY <1>2, <1>3, <1>4, <1>5, <1>6, StepCases

\* If no call to the Kubernetes API fails, everything in the cache has been processed
\* when no task is under way, although tasks overlap, sinks fail and the forwarder
\* restarts.
THEOREM CacheIsProcessed == "apierror" \notin Env /\ Spec => []CachedIsProcessed
<1> SUFFICES ASSUME "apierror" \notin Env PROVE Spec => []CachedIsProcessed
  OBVIOUS
<1>1. Init => Accounted
  BY DEF Init, Accounted
<1>2. TypeOK /\ Accounted /\ [Next]_vars => Accounted'
  BY AccountedStep
<1>3. TypeOK /\ Accounted => CachedIsProcessed
  BY DEF TypeOK, Accounted, CachedIsProcessed, Running
<1> QED BY <1>1, <1>2, <1>3, ForwarderIsTyped, PTL DEF Spec

-----------------------------------------------------------------------------
(* Duplicates.                                                             *)

OneReader == \A a, b \in Accesses : pc[a] = "reading" /\ pc[b] = "reading" => a = b

\* Between test and addition nobody else adds the access to the cache.
NewIsNew == \A a \in Accesses : found[a] # None => found[a][1] \notin cache

\* An access waits in one batch at most, with one of its lines; and then it is in the
\* cache and has no alert yet.
WaitsOnce ==
    \A a, b \in Accesses : \A l \in batch[a], m \in batch[b] :
       /\ l[1] = m[1] => a = b /\ l = m
       /\ l[1] \in cache /\ printed[l[1]] = 0

UnknownIsSilent == \A x \in Accesses \ cache : printed[x] = 0

OnceInv == OneReader /\ NewIsNew /\ WaitsOnce /\ UnknownIsSilent /\ NoDuplicates

\* A task begins to read only when no other one reads.
LEMMA OneReaderStep ==
    ASSUME "overlap" \notin Env, "restart" \notin Env, TypeOK, OneReader, [Next]_vars
    PROVE  OneReader'
<1>1. ~Restart
  BY DEF Restart, Fault
<1>2. CASE UNCHANGED pc
  BY <1>2 DEF OneReader
<1>3. ASSUME NEW a \in Accesses, pc' = [pc EXCEPT ![a] = pc'[a]], pc'[a] # "reading"
      PROVE  OneReader'
  BY <1>3 DEF OneReader, TypeOK
<1>4. ASSUME NEW a \in Accesses, Access(a) \/ TaskStep(a) \/ ErrorStep(a) PROVE OneReader'
  <2>1. CASE ListPods(a)
    BY <2>1 DEF ListPods, Goto, OneReader, TypeOK
  <2>2. CASE \/ \E n \in Nodes : ReadLog(a, n) \/ SkipLog(a, n)
             \/ (\E l \in lines[a] : LookUp(a, l)) \/ Remember(a)
             \/ \E l \in batch[a], failed \in SUBSET Sinks : Alert(a, l, failed)
    BY <1>2, <2>2 DEF ReadLog, SkipLog, LookUp, Remember, Alert
  <2>3. CASE \/ Access(a) \/ TakeTime(a) \/ Refuse(a) \/ NoteTrigger(a) \/ WakeUp(a)
             \/ NothingNew(a) \/ FinishAlerting(a) \/ Die(a)
             \/ \E ss \in {{}, Sinks}, known \in BOOLEAN : StartAlerting(a, ss, known)
    <3>1. \E place \in {"called", "timed", "refused", "asleep", "debounced", "listing",
                        "done", "died", "alerting"} : pc' = [pc EXCEPT ![a] = place]
      BY <2>3 DEF Access, TakeTime, Refuse, NoteTrigger, WakeUp, NothingNew,
                  FinishAlerting, Die, StartAlerting, Goto
    <3> QED BY <1>3, <3>1 DEF TypeOK
  <2> QED BY <1>4, <2>1, <2>2, <2>3 DEF TaskStep, ErrorStep
<1> QED BY <1>1, <1>2, <1>4 DEF Next, Tick, taskVars, vars

\* A quiet step finds at most lines whose access is not in the cache.
LEMMA QuietOnce ==
    ASSUME TypeOK, OnceInv, NEW a \in Accesses, QuietStep(a)
    PROVE  (NewIsNew /\ WaitsOnce /\ UnknownIsSilent /\ NoDuplicates)'
<1>1. UNCHANGED <<cache, batch, printed>>
  BY QuietSteps
<1>2. NewIsNew'
  <2>1. ASSUME NEW l \in lines[a], LookUp(a, l) PROVE NewIsNew'
    BY <2>1 DEF LookUp, globals, OnceInv, NewIsNew, TypeOK
  <2>2. CASE UNCHANGED found
    BY <1>1, <2>2 DEF OnceInv, NewIsNew
  <2> QED BY <2>1, <2>2 DEF QuietStep, Access, TakeTime, Refuse, NoteTrigger, WakeUp, ListPods,
             ReadLog, SkipLog, NothingNew, FinishAlerting, StartAlerting
<1> QED BY <1>1, <1>2 DEF OnceInv, WaitsOnce, UnknownIsSilent, NoDuplicates

\* The line that a task takes up is the first of its access.
LEMMA RememberOnce ==
    ASSUME TypeOK, OnceInv, NEW a \in Accesses, Remember(a)
    PROVE  (NewIsNew /\ WaitsOnce /\ UnknownIsSilent /\ NoDuplicates)'
<1> DEFINE f == found[a]
<1>1. /\ f # None /\ f[1] \in Accesses /\ f[1] \notin cache /\ pc[a] = "reading"
      /\ cache' = cache \cup {f[1]} /\ UNCHANGED printed
      /\ batch'[a] = batch[a] \cup {f} /\ found'[a] = None
      /\ \A b \in Accesses \ {a} : batch'[b] = batch[b] /\ found'[b] = found[b]
  BY LineTypes DEF Remember, TypeOK, OnceInv, NewIsNew, outVars
<1>2. NewIsNew'
  <2>1. \A b \in Accesses \ {a} : found[b] = None
    BY <1>1 DEF TypeOK, OnceInv, OneReader
  <2> QED BY <1>1, <2>1 DEF NewIsNew
<1>3. WaitsOnce'
  <2>1. printed[f[1]] = 0
    BY <1>1 DEF OnceInv, UnknownIsSilent
  <2>2. \A b \in Accesses : \A l \in batch[b] : l[1] \in cache /\ printed[l[1]] = 0 /\ l[1] # f[1]
    BY <1>1 DEF OnceInv, WaitsOnce
  <2>3. \A b \in Accesses : \A l \in batch'[b] : l \in batch[b] \/ (b = a /\ l = f)
    BY <1>1
  <2>4. ASSUME NEW b \in Accesses, NEW c \in Accesses, NEW l \in batch'[b], NEW m \in batch'[c]
        PROVE  /\ l[1] = m[1] => b = c /\ l = m
               /\ l[1] \in cache' /\ printed'[l[1]] = 0
    <3>1. l[1] \in cache' /\ printed'[l[1]] = 0
      BY <1>1, <2>1, <2>2, <2>3
    <3>2. CASE l \in batch[b] /\ m \in batch[c]
      BY <3>1, <3>2 DEF OnceInv, WaitsOnce
    <3>3. CASE ~(l \in batch[b] /\ m \in batch[c])
      BY <2>2, <2>3, <3>1, <3>3
    <3> QED BY <3>2, <3>3
  <2> QED BY <2>4 DEF WaitsOnce
<1> QED BY <1>1, <1>2, <1>3 DEF OnceInv, UnknownIsSilent, NoDuplicates

\* An alert is the first of its access, and the last because no other line waits.
LEMMA AlertOnce ==
    ASSUME TypeOK, OnceInv, NEW a \in Accesses, NEW l \in batch[a], NEW failed \in SUBSET Sinks,
           Alert(a, l, failed)
    PROVE  (NewIsNew /\ WaitsOnce /\ UnknownIsSilent /\ NoDuplicates)'
<1>1. /\ UNCHANGED <<cache, found>> /\ batch'[a] = batch[a] \ {l}
      /\ \A b \in Accesses \ {a} : batch'[b] = batch[b]
  BY DEF Alert, TypeOK, globals
<1>2. /\ l[1] \in Accesses /\ printed \in [Accesses -> Nat]
      /\ printed' = printed \/ printed' = [printed EXCEPT ![l[1]] = @ + 1]
  BY LineTypes DEF Alert, Report, TypeOK, outVars
<1>3. l[1] \in cache /\ printed[l[1]] = 0
  BY DEF OnceInv, WaitsOnce
<1>4. \A b \in Accesses : \A m \in batch'[b] : m \in batch[b] /\ m[1] # l[1]
  BY <1>1 DEF OnceInv, WaitsOnce
<1>5. \A b \in Accesses : \A m \in batch'[b] : printed'[m[1]] = 0
  <2> TAKE b \in Accesses
  <2> TAKE m \in batch'[b]
  <2>1. m[1] # l[1] /\ printed[m[1]] = 0 /\ m[1] \in Accesses
    BY <1>4, LineTypes DEF OnceInv, WaitsOnce
  <2> QED BY <1>2, <2>1
<1>6. WaitsOnce'
  BY <1>1, <1>4, <1>5 DEF OnceInv, WaitsOnce
<1>7. UnknownIsSilent' /\ NoDuplicates'
  BY <1>1, <1>2, <1>3 DEF OnceInv, UnknownIsSilent, NoDuplicates
<1> QED BY <1>1, <1>6, <1>7 DEF OnceInv, NewIsNew

\* Every step keeps the invariant; lines that die with their task stay in the cache.
LEMMA OnceStep ==
    ASSUME "overlap" \notin Env, "restart" \notin Env, TypeOK, OnceInv, [Next]_vars
    PROVE  OnceInv'
<1>1. OneReader'
  BY OneReaderStep DEF OnceInv
<1>2. ~Restart
  BY DEF Restart, Fault
<1>3. CASE Tick \/ UNCHANGED vars
  BY <1>1, <1>3 DEF Tick, vars, globals, taskVars, outVars, OnceInv, NewIsNew, WaitsOnce,
                    UnknownIsSilent, NoDuplicates
<1>4. ASSUME NEW a \in Accesses, Die(a) PROVE OnceInv'
  <2>1. /\ UNCHANGED <<cache, found, printed>> /\ batch'[a] = {}
        /\ \A b \in Accesses \ {a} : batch'[b] = batch[b]
    BY <1>4 DEF Die, TypeOK, globals, outVars
  <2>2. \A b \in Accesses : batch'[b] \subseteq batch[b]
    BY <2>1
  <2>3. WaitsOnce'
    BY <2>1, <2>2 DEF OnceInv, WaitsOnce
  <2> QED BY <1>1, <2>1, <2>3 DEF OnceInv, NewIsNew, UnknownIsSilent, NoDuplicates
<1> QED BY <1>1, <1>2, <1>3, <1>4, StepCases, QuietOnce, RememberOnce, AlertOnce DEF OnceInv

\* As long as tasks do not read at the same time and the forwarder does not restart,
\* no access has two alerts, although its lines are logged several times, tasks read
\* the same minute again, and calls, sinks and tasks fail.
THEOREM NobodyIsToldTwice ==
    "overlap" \notin Env /\ "restart" \notin Env /\ Spec => []NoDuplicates
<1> SUFFICES ASSUME "overlap" \notin Env, "restart" \notin Env PROVE Spec => []NoDuplicates
  OBVIOUS
<1>1. Init => OnceInv
  BY DEF Init, OnceInv, OneReader, NewIsNew, WaitsOnce, UnknownIsSilent, NoDuplicates
<1>2. TypeOK /\ OnceInv /\ [Next]_vars => OnceInv'
  BY OnceStep
<1>3. OnceInv => NoDuplicates
  BY DEF OnceInv
<1> QED BY <1>1, <1>2, <1>3, ForwarderIsTyped, PTL DEF Spec
=============================================================================
