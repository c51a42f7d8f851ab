--------------------------- MODULE DecoyFileProofs ---------------------------
(***************************************************************************)
(* The annotations and the files agree: proofs for every instance in which *)
(* commands report what they did, and the controller is not stopped        *)
(* between a command and its record.  (Otherwise they need not agree; see  *)
(* README, Known divergences.)                                             *)
(***************************************************************************)
EXTENDS DecoyReconcilerProofs

\* The worker's caches are current, it does not restart, and a command that
\* fails has had no effect.
Reliable == Env \cap {"lag", "crash", "halfexec"} = {}

\* Running containers keep their files, and ready ones stay ready.
Restless == Env \cap {"flap", "restart"} # {}

-----------------------------------------------------------------------------
(* What steps do to files.                                                 *)

\* Commands and the end of containers are the only writes.
LEMMA FileWriters ==
    ASSUME [Next]_vars
    PROVE  \/ UNCHANGED file
           \/ \E d \in Pods : DeletePod(d) \/ \E c \in Containers : RestartContainer(d, c)
           \/ \E c \in Containers : ExecOk(c) \/ ExecHalfDone(c)
<1>1. UserStep => UNCHANGED file \/ \E d \in Pods : DeletePod(d)
  BY DEF UserStep, EditPolicy, CreatePolicy, DeletePolicy, CreatePod, LabelPod
<1>2. FaultStep => \/ UNCHANGED file
                   \/ \E d \in Pods, c \in Containers : RestartContainer(d, c)
                   \/ \E c \in Containers : ExecHalfDone(c)
  BY DEF FaultStep, Unready, ExecFails, Crash
<1>3. KubeletStep \/ InformerStep \/ (\E p \in Policies : FireTimer(p) \/ Fetch(p)) => UNCHANGED file
  BY DEF KubeletStep, Start, InformerStep, SyncPolicy, SyncPod, FireTimer, Fetch
<1>4. WorkerStep => UNCHANGED file \/ \E c \in Containers : ExecOk(c)
  BY DEF WorkerStep, PutFinalizer, PutFinalizerFails, ListAnnotated, StartItem, ExecUnreachable,
         SkipRecord, Annotate, AnnotateFails, AbortRemoval, FinishRemoval, ReleasePolicy,
         ReleaseConflict, MatchTrap, FinishDeploy, UpdateStatus, UpdateStatusFails
<1>5. UNCHANGED vars => UNCHANGED file
  BY DEF vars
<1> QED BY <1>1, <1>2, <1>3, <1>4, <1>5 DEF Next

\* A command that works leaves the decoy, or nothing, at one path of one container.
LEMMA EffectOnFiles ==
    ASSUME TypeOK, NEW c \in Containers, item # None, Effect(c)
    PROVE  /\ item.pod \in Pods /\ item.trap \in Traps
           /\ \A d \in Pods, b \in Containers, x \in Paths :
                 file'[d][b][x] = IF d = item.pod /\ b = c /\ x = PathOf[item.trap]
                                  THEN IF pc = "remove" THEN None ELSE item.trap
                                  ELSE file[d][b][x]
<1>1. item.pod \in Pods /\ item.trap \in Traps /\ PathOf[item.trap] \in Paths
  BY ItemType, PathAssumption DEF WorkItem
<1>2. file \in [Pods -> [Containers -> [Paths -> Traps \cup {None}]]]
  BY DEF TypeOK, FileTypes
<1> QED BY <1>1, <1>2 DEF Effect

\* A running pod runs until it is deleted, and its ready containers stay ready
\* unless they fail.
LEMMA LiveStays ==
    ASSUME TypeOK, Coherent, [Next]_vars, NEW d \in Pods, Live(d), ~DeletePod(d)
    PROVE  /\ Live(d)'
           /\ ~Restless => \A c \in Containers : pod[d].run[c] = "ready" => pod'[d].run[c] = "ready"
<1> DEFINE Stays == /\ pod'[d].phase = "live"
                    /\ ~Restless => \A c \in Containers :
                                       pod[d].run[c] = "ready" => pod'[d].run[c] = "ready"
<1>1. pod \in [Pods -> PodObject]
  BY DEF TypeOK, ObjectTypes
<1>2. pod'[d] = pod[d] => Stays
  BY DEF Live
<1>3. UNCHANGED pod => Stays
  BY <1>2
<1>4. Annotate => Stays
  BY <1>2, AnnotateEffect DEF Live
<1>5. ASSUME NEW e \in Pods,
             (\E b \in BOOLEAN : CreatePod(e, b)) \/ LabelPod(e) \/ DeletePod(e) \/ KubeletWrite(e)
      PROVE  Stays
  <2>1. \A o : WritePod(e, o) => pod'[d] = IF d = e THEN o ELSE pod[d]
    BY <1>1 DEF WritePod
  <2>2. CASE d # e
    <3>1. \E o : WritePod(e, o)
      BY <1>5 DEF CreatePod, LabelPod, DeletePod, KubeletWrite, Start, Unready, RestartContainer
    <3> QED BY <1>2, <2>1, <2>2, <3>1
  <2>3. CASE d = e
    <3>1. ~\E b \in BOOLEAN : CreatePod(e, b)
      BY <2>3 DEF CreatePod, Live
    <3>2. CASE LabelPod(e)
      <4> DEFINE o == [pod[e] EXCEPT !.labelled = ~@]
      <4>1. o.phase = pod[e].phase /\ o.run = pod[e].run
        BY <1>1 DEF PodObject
      <4>2. WritePod(e, o)
        BY <3>2 DEF LabelPod
      <4> HIDE DEF o
      <4> QED BY <2>1, <2>3, <4>1, <4>2 DEF Live
    <3>3. CASE KubeletWrite(e)
      <4>1. PICK c \in Containers : Start(e, c) \/ Unready(e, c) \/ RestartContainer(e, c)
        BY <3>3 DEF KubeletWrite
      <4>2. PICK r : WritePod(e, [pod[e] EXCEPT !.run[c] = r])
        BY <4>1 DEF Start, Unready, RestartContainer
      <4>3. ~Restless => pod[e].run[c] # "ready"
        BY <4>1 DEF Start, Unready, RestartContainer, Restless
      <4> DEFINE o == [pod[e] EXCEPT !.run[c] = r]
      <4>4. /\ o.phase = pod[e].phase
            /\ \A b \in Containers : b # c => o.run[b] = pod[e].run[b]
        BY <1>1 DEF PodObject
      <4>5. WritePod(e, o)
        BY <4>2
      <4> HIDE DEF o
      <4> QED BY <2>1, <2>3, <4>3, <4>4, <4>5 DEF Live
    <3> QED BY <1>5, <2>3, <3>1, <3>2, <3>3
  <2> QED BY <2>2, <2>3
<1>6. UNCHANGED vars => UNCHANGED pod
  BY DEF vars, apiVars
<1>7. Stays
  BY <1>3, <1>4, <1>5, <1>6, PodWriters
<1> QED BY <1>7 DEF Live

\* A pod that is not running has no files.
DeadAreEmpty == \A d \in Pods : ~Live(d) => \A c \in Containers, x \in Paths : file[d][c][x] = None

\* Only running pods get files, and they lose them when they go.
LEMMA DeadStep ==
    ASSUME TypeOK, Coherent, DeadAreEmpty, [Next]_vars
    PROVE  DeadAreEmpty'
<1> SUFFICES ASSUME NEW d \in Pods, NEW c \in Containers, NEW x \in Paths, ~Live(d)'
             PROVE  file'[d][c][x] = None
  BY DEF DeadAreEmpty
<1>1. file \in [Pods -> [Containers -> [Paths -> Traps \cup {None}]]]
  BY DEF TypeOK, FileTypes
<1>2. CASE DeletePod(d)
  BY <1>1, <1>2 DEF DeletePod
<1>3. CASE ~DeletePod(d)
  <2>1. ~Live(d) /\ file[d][c][x] = None
    BY <1>3, LiveStays DEF DeadAreEmpty
  <2>2. CASE UNCHANGED file
    BY <2>1, <2>2
  <2>3. ASSUME NEW e \in Pods, DeletePod(e) \/ \E b \in Containers : RestartContainer(e, b)
        PROVE  file'[d][c][x] = None
    <3>1. CASE DeletePod(e)
      BY <1>1, <2>1, <3>1 DEF DeletePod
    <3>2. ASSUME NEW b \in Containers, RestartContainer(e, b) PROVE file'[d][c][x] = None
      <4>1. file' = [file EXCEPT ![e][b] = [y \in Paths |-> None]]
        BY <3>2 DEF RestartContainer
      <4>2. CASE d = e /\ c = b
        BY <1>1, <4>1, <4>2
      <4>3. CASE d # e \/ c # b
        <5>1. file'[d][c] = file[d][c]
          BY <1>1, <4>1, <4>3
        <5> QED BY <2>1, <5>1
      <4> QED BY <4>2, <4>3
    <3> QED BY <2>3, <3>1, <3>2
  <2>4. ASSUME NEW b \in Containers, ExecOk(b) \/ ExecHalfDone(b) PROVE file'[d][c][x] = None
    <3>1. item # None /\ Effect(b) /\ Live(item.pod)
      BY <2>4 DEF ExecOk, ExecHalfDone, RunnableIn, Live
    <3> QED BY <2>1, <3>1, EffectOnFiles
  <2> QED BY <2>2, <2>3, <2>4, FileWriters
<1> QED BY <1>2, <1>3

-----------------------------------------------------------------------------
(* What steps do to the item in progress.                                  *)

\* Steps that are not the worker's leave its request alone and write no decoys.
Outside ==
    /\ UNCHANGED localVars
    /\ \A d \in Pods, c \in Containers, x \in Paths :
          /\ file'[d][c][x] \in {file[d][c][x], None}
          /\ "restart" \notin Env /\ Live(d)' => file'[d][c][x] = file[d][c][x]

\* Steps of the worker before and after its work on items.
BetweenItems ==
    /\ item = None /\ item' = None /\ UNCHANGED <<pod, file>>
    /\ pc' = "deploy" => work' = {}

Exec(c) == ExecOk(c) \/ ExecUnreachable(c) \/ ExecFails(c)

\* What happens outside.
LEMMA OutsideSteps ==
    ASSUME TypeOK,
           \/ UserStep \/ KubeletStep \/ InformerStep \/ UNCHANGED vars
           \/ (\E p \in Policies : FireTimer(p))
           \/ (\E d \in Pods, c \in Containers : Unready(d, c) \/ RestartContainer(d, c))
    PROVE  Outside
<1>1. UNCHANGED localVars
  BY DEF UserStep, EditPolicy, CreatePolicy, DeletePolicy, CreatePod, LabelPod, DeletePod,
         KubeletStep, Start, InformerStep, SyncPolicy, SyncPod, FireTimer, Unready,
         RestartContainer, vars
<1>2. /\ file \in [Pods -> [Containers -> [Paths -> Traps \cup {None}]]]
      /\ pod \in [Pods -> PodObject]
  BY DEF TypeOK, FileTypes, ObjectTypes
<1> SUFFICES ASSUME NEW d \in Pods, NEW c \in Containers, NEW x \in Paths
             PROVE  /\ file'[d][c][x] \in {file[d][c][x], None}
                    /\ "restart" \notin Env /\ Live(d)' => file'[d][c][x] = file[d][c][x]
  BY <1>1 DEF Outside
<1>3. CASE UNCHANGED file
  BY <1>3
<1>4. ASSUME NEW e \in Pods, DeletePod(e)
      PROVE  /\ file'[d][c][x] \in {file[d][c][x], None}
             /\ Live(d)' => file'[d][c][x] = file[d][c][x]
  <2>1. d # e => file'[d] = file[d]
    BY <1>2, <1>4 DEF DeletePod
  <2>2. d = e => file'[d][c][x] = None
    BY <1>2, <1>4 DEF DeletePod
  <2>3. d = e => ~Live(d)'
    BY <1>2, <1>4 DEF DeletePod, WritePod, NoPod, Live
  <2> QED BY <2>1, <2>2, <2>3
<1>5. ASSUME NEW e \in Pods, NEW b \in Containers, RestartContainer(e, b)
      PROVE  "restart" \in Env /\ file'[d][c][x] \in {file[d][c][x], None}
  <2>1. "restart" \in Env /\ file' = [file EXCEPT ![e][b] = [y \in Paths |-> None]]
    BY <1>5 DEF RestartContainer
  <2>2. d = e /\ c = b => file'[d][c][x] = None
    BY <1>2, <2>1
  <2>3. d # e \/ c # b => file'[d][c] = file[d][c]
    BY <1>2, <2>1
  <2> QED BY <2>1, <2>2, <2>3
<1>6. \/ UNCHANGED file
      \/ \E e \in Pods : DeletePod(e) \/ \E b \in Containers : RestartContainer(e, b)
  BY DEF UserStep, EditPolicy, CreatePolicy, DeletePolicy, CreatePod, LabelPod, KubeletStep,
         Start, InformerStep, SyncPolicy, SyncPod, FireTimer, Unready, vars
<1> QED BY <1>3, <1>4, <1>5, <1>6

\* What can happen, seen from the item in progress.
LEMMA StepKinds ==
    ASSUME Reliable, TypeOK, [Next]_vars
    PROVE  \/ Outside \/ BetweenItems
           \/ (\E w \in work : StartItem(w)) \/ (\E c \in Containers : Exec(c))
           \/ SkipRecord \/ AnnotateFails \/ Annotate
           \/ \E t \in Traps : MatchTrap(t)
<1>1. item # None => pc \in {"remove", "deploy"} /\ item \in work
  BY DEF TypeOK, ItemTypes
<1>2. CASE PutFinalizer \/ PutFinalizerFails \/ ReleasePolicy \/ ReleaseConflict \/ UpdateStatus
           \/ UpdateStatusFails \/ (\E p \in Policies : Fetch(p))
  <2>1. pc \in {"idle", "adopt", "release", "status"} /\ UNCHANGED <<pod, file>>
    BY <1>2 DEF PutFinalizer, PutFinalizerFails, ReleasePolicy, ReleaseConflict, UpdateStatus,
                UpdateStatusFails, Fetch, apiVars
  <2>2. pc' # "deploy" /\ (item' = None \/ item' = item)
    BY <1>2, <2>1 DEF PutFinalizer, PutFinalizerFails, ReleasePolicy, ReleaseConflict,
       UpdateStatus, UpdateStatusFails, Fetch, Return, ForgetRequest, localVars
  <2> QED BY <1>1, <2>1, <2>2 DEF BetweenItems
<1>3. CASE ListAnnotated \/ FinishRemoval \/ AbortRemoval \/ FinishDeploy
  <2>1. item = None /\ UNCHANGED <<pod, file>>
    BY <1>1, <1>3 DEF ListAnnotated, FinishRemoval, AbortRemoval, FinishDeploy, apiVars
  <2>2. item' = None /\ (pc' = "deploy" => work' = {})
    BY <1>3, <2>1 DEF ListAnnotated, FinishRemoval, AbortRemoval, FinishDeploy, Return,
                      ForgetRequest
  <2> QED BY <2>1, <2>2 DEF BetweenItems
<1>4. CASE FaultStep
  <2>1. ~Crash /\ \A c \in Containers : ~ExecHalfDone(c)
    BY DEF Reliable, Crash, ExecHalfDone
  <2> QED BY <1>4, <2>1, OutsideSteps DEF FaultStep, Exec
<1> QED BY <1>2, <1>3, <1>4, OutsideSteps DEF Next, WorkerStep, Exec

-----------------------------------------------------------------------------
(* The plan of a deployment and its progress.                              *)

\* What a deployment took from the caches still holds of the running pods when
\* it comes to their turn: each pod is planned once, and only its turn changes
\* the entry of the trap.
PlanAgrees ==
    pc = "deploy" => \A w \in work :
        /\ pod[w.pod].phase # "unborn"
        /\ Live(w.pod) => OnPod(w.pod, cur)[w.trap] = w.already
        /\ \A v \in work : w.trap = v.trap /\ (w.pod = v.pod => w = v)

\* A deployment keeps the containers that have the decoy, a removal counts only
\* those from which it is gone.
Progress ==
    item # None =>
        /\ left \cup acc \subseteq item.conts
        /\ pc = "deploy" => item.conts \cap item.already \subseteq acc
        /\ pc = "remove" => \A c \in acc : ~DecoyIn(item.pod, c, item.trap)

WorkInv == DeadAreEmpty /\ PlanAgrees /\ Progress

\* There is no plan in the beginning.
LEMMA WorkInit == Init => WorkInv
<1> SUFFICES ASSUME Init PROVE WorkInv
  OBVIOUS
<1>1. pc = "idle" /\ item = None
      /\ \A d \in Pods, c \in Containers, x \in Paths : file[d][c][x] = None
  BY DEF Init
<1> QED BY <1>1 DEF WorkInv, DeadAreEmpty, PlanAgrees, Progress

\* A step that does not annotate and plans nothing leaves a plan as good as it was.
LEMMA PlanStays ==
    ASSUME TypeOK, PlanAgrees, [Next]_vars, ~Annotate, work' \subseteq work,
           pc' = "deploy" => pc = "deploy", cur' = cur
    PROVE  PlanAgrees'
<1> SUFFICES ASSUME pc = "deploy", NEW w \in work'
             PROVE  /\ pod'[w.pod].phase # "unborn"
                    /\ Live(w.pod)' => pod'[w.pod].ann[cur][w.trap] = w.already
                    /\ \A v \in work' : w.trap = v.trap /\ (w.pod = v.pod => w = v)
  BY DEF PlanAgrees, OnPod, Live
<1>1. w \in work /\ w.pod \in Pods
  BY DEF TypeOK, ItemTypes, WorkItem
<1>2. /\ pod[w.pod].phase # "unborn"
      /\ Live(w.pod) => pod[w.pod].ann[cur][w.trap] = w.already
      /\ \A v \in work : w.trap = v.trap /\ (w.pod = v.pod => w = v)
  BY <1>1 DEF PlanAgrees, OnPod
<1> QED BY <1>1, <1>2, RecordsStay DEF Kept

\* The plan agrees with the annotations: MatchTrap reads current caches, and an
\* update of an annotation is the end of its item.
LEMMA PlanStep ==
    ASSUME Reliable, TypeOK, Coherent, GuardInv, PlanAgrees, [Next]_vars
    PROVE  PlanAgrees'
<1>1. CASE Annotate
  <2> SUFFICES ASSUME pc = "deploy", NEW w \in work'
               PROVE  /\ pod'[w.pod].phase # "unborn"
                      /\ Live(w.pod)' => pod'[w.pod].ann[cur][w.trap] = w.already
                      /\ \A v \in work' : w.trap = v.trap /\ (w.pod = v.pod => w = v)
    BY <1>1, AnnotateEffect DEF PlanAgrees, OnPod, Live
  <2>1. w \in work /\ w # item /\ w.pod \in Pods /\ item \in work
    BY <1>1, AnnotateEffect DEF TypeOK, ItemTypes, WorkItem
  <2>2. w.pod # item.pod /\ \A v \in work : w.trap = v.trap /\ (w.pod = v.pod => w = v)
    BY <2>1 DEF PlanAgrees
  <2>3. pod'[w.pod] = pod[w.pod] /\ work' \subseteq work
    BY <1>1, <2>1, <2>2, AnnotateEffect
  <2> QED BY <2>1, <2>2, <2>3 DEF PlanAgrees, OnPod, Live
<1>2. ASSUME NEW t \in Traps, MatchTrap(t) PROVE PlanAgrees'
  <2>1. /\ \A d \in Pods : cpod[d] = pod[d]
        /\ pod \in [Pods -> PodObject] /\ pod' = pod /\ cur \in Policies /\ cur' = cur
    BY <1>2 DEF MatchTrap, CanReadPods, Lagging, Reliable, Coherent, TypeOK, ObjectTypes,
                RequestTypes, apiVars
  <2>2. work' = {w \in WorkItem : /\ w.trap = t /\ w.pod \in Matched(t)
                                  /\ w.conts = Deployable(w.pod, t) /\ w.conts # {}
                                  /\ w.already = cpod[w.pod].ann[cur][t]}
    BY <1>2 DEF MatchTrap
  <2>3. \A w \in work' : /\ w \in WorkItem /\ w.trap = t /\ Live(w.pod)
                         /\ w.already = OnPod(w.pod, cur)[t] /\ w.conts = Deployable(w.pod, t)
    BY <2>1, <2>2 DEF Matched, Live, OnPod, WorkItem
  <2>4. \A w, v \in WorkItem :
           w.pod = v.pod /\ w.trap = v.trap /\ w.conts = v.conts /\ w.already = v.already => w = v
    BY DEF WorkItem
  <2> QED BY <2>1, <2>3, <2>4 DEF PlanAgrees, Live, OnPod
<1>3. CASE BetweenItems
  BY <1>3 DEF BetweenItems, PlanAgrees
<1>4. CASE ~Annotate /\ (Outside \/ (\E w \in work : StartItem(w)) \/ (\E c \in Containers : Exec(c))
                          \/ SkipRecord \/ AnnotateFails)
  <2>1. work' \subseteq work /\ UNCHANGED <<pc, cur>>
    BY <1>4 DEF Outside, localVars, StartItem, Exec, ExecOk, ExecUnreachable, ExecFails,
                SkipRecord, AnnotateFails, NextItem
  <2> QED BY <1>4, <2>1, PlanStays
<1> QED BY <1>1, <1>2, <1>3, <1>4, StepKinds

\* Commands move containers from left to acc, and a container moves in a removal only
\* when its decoy is gone.
LEMMA ProgressStep ==
    ASSUME Reliable, TypeOK, Coherent, GuardInv, Progress, [Next]_vars
    PROVE  Progress'
<1>1. CASE item' = None
  BY <1>1 DEF Progress
<1>2. ASSUME NEW w \in work, StartItem(w) PROVE Progress'
  <2>1. /\ item' = w /\ pc' = pc
        /\ left' = w.conts \ w.already /\ acc' = w.conts \cap w.already
    BY <1>2 DEF StartItem
  <2>2. pc = "remove" => w.already = {}
    BY DEF GuardInv, ListAgrees
  <2> QED BY <2>1, <2>2 DEF Progress
<1>3. CASE item # None /\ Outside
  <2>1. UNCHANGED <<pc, item, left, acc>>
    BY <1>3 DEF Outside, localVars
  <2>2. item \in WorkItem /\ acc \subseteq Containers /\ None \notin Traps
    BY <1>3, ItemType, NoneAssumption DEF TypeOK, ItemTypes
  <2>3. ASSUME pc = "remove", NEW c \in acc PROVE file'[item.pod][c][PathOf[item.trap]] # item.trap
    <3>1. /\ item.pod \in Pods /\ c \in Containers /\ item.trap \in Traps
          /\ PathOf[item.trap] \in Paths
      BY <2>2, PathAssumption DEF WorkItem
    <3>2. file[item.pod][c][PathOf[item.trap]] # item.trap /\ item.trap # None
      BY <1>3, <2>2, <2>3, <3>1 DEF Progress, DecoyIn
    <3> QED BY <1>3, <3>1, <3>2 DEF Outside
  <2> QED BY <1>3, <2>1, <2>3 DEF Progress, DecoyIn
<1>4. ASSUME NEW c \in Containers, ExecOk(c) PROVE Progress'
  <2>1. /\ item # None /\ c \in left /\ Effect(c) /\ UNCHANGED <<pc, item>>
        /\ left' = left \ {c} /\ acc' = acc \cup {c}
    BY <1>4 DEF ExecOk
  <2>2. None \notin Traps /\ acc \subseteq Containers
    BY NoneAssumption DEF TypeOK, ItemTypes
  <2>3. ASSUME pc = "remove", NEW b \in acc' PROVE file'[item.pod][b][PathOf[item.trap]] # item.trap
    <3>1. b \in Containers /\ item.trap \in Traps /\ item.pod \in Pods /\ PathOf[item.trap] \in Paths
      BY <2>1, <2>2, EffectOnFiles, PathAssumption
    <3>2. CASE b = c
      BY <2>1, <2>2, <2>3, <3>1, <3>2, EffectOnFiles
    <3>3. CASE b # c
      <4>1. file[item.pod][b][PathOf[item.trap]] # item.trap
        BY <2>1, <2>3, <3>3 DEF Progress, DecoyIn
      <4> QED BY <2>1, <3>1, <3>3, <4>1, EffectOnFiles
    <3> QED BY <3>2, <3>3
  <2> QED BY <2>1, <2>3 DEF Progress, DecoyIn
<1>5. ASSUME NEW c \in Containers, ExecUnreachable(c) \/ ExecFails(c) PROVE Progress'
  <2>1. item # None /\ left' \subseteq left /\ UNCHANGED <<pc, item, acc, file>>
    BY <1>5 DEF ExecUnreachable, ExecFails
  <2> QED BY <2>1 DEF Progress, DecoyIn
<1>6. Outside => UNCHANGED item
  BY DEF Outside, localVars
<1>7. BetweenItems \/ SkipRecord \/ AnnotateFails \/ Annotate => item' = None
  BY DEF BetweenItems, SkipRecord, AnnotateFails, Annotate, NextItem
<1>8. ASSUME NEW t \in Traps, MatchTrap(t) PROVE item' = None
  BY <1>8 DEF MatchTrap, TypeOK, ItemTypes
<1> QED BY <1>1, <1>2, <1>3, <1>4, <1>5, <1>6, <1>7, <1>8, StepKinds DEF Exec

\* All three over a step.
LEMMA WorkStep ==
    ASSUME Reliable, TypeOK, Coherent, GuardInv, WorkInv, [Next]_vars
    PROVE  WorkInv'
BY DeadStep, PlanStep, ProgressStep DEF WorkInv

\* The guards, the wants and the work, over all steps.
THEOREM StandingInv == Reliable /\ Spec => [](GuardInv /\ WantedInv /\ WorkInv)
<1> SUFFICES ASSUME Reliable PROVE Spec => [](GuardInv /\ WantedInv /\ WorkInv)
  OBVIOUS
<1>1. "lag" \notin Env
  BY DEF Reliable
<1>2. TypeOK /\ Coherent /\ GuardInv /\ WantedInv /\ [Next]_vars => WantedInv'
  BY <1>1, WantedStep
<1>3. TypeOK /\ TypeOK' /\ Coherent /\ GuardInv /\ [Next]_vars => GuardInv'
  BY <1>1, GuardStep
<1>4. TypeOK /\ Coherent /\ GuardInv /\ WorkInv /\ [Next]_vars => WorkInv'
  BY WorkStep
<1> QED BY <1>2, <1>3, <1>4, WantedInit, GuardInit, WorkInit, TypeCorrect, CachesCohere, PTL
           DEF Spec

-----------------------------------------------------------------------------
(* Containers that are not ready.  DeployDecoy replaces the list of        *)
(* containers of a trap by the ready containers that it selects now.  That *)
(* forgets a decoy in a container that is not ready any more, or not       *)
(* selected any more.  In an instance where neither happens, nothing is    *)
(* forgotten.                                                              *)

\* All specs with a trap select the same containers for it.
SameSelection == \A s, r \in Specs : \A t \in s.traps \cap r.traps : s.sel[t] = r.sel[t]

\* What is recorded, every spec with the trap selects, and it is ready.
RecordedReady ==
    \A d \in Pods, p \in Policies, t \in Traps : Live(d) => \A c \in OnPod(d, p)[t] :
        pod[d].run[c] = "ready" /\ \A s \in Specs : t \in s.traps => c \in s.sel[t]

\* A plan names ready, selected containers, those that have the decoy included.
PlannedReady ==
    pc = "deploy" => \A w \in work :
        /\ w.already \subseteq w.conts /\ w.conts \subseteq goal.spec.sel[w.trap]
        /\ Live(w.pod) => \A c \in w.conts : pod[w.pod].run[c] = "ready"

ReadyInv == RecordedReady /\ PlannedReady

\* Nothing is recorded or planned in the beginning.
LEMMA ReadyInit == Init => ReadyInv
<1> SUFFICES ASSUME Init PROVE ReadyInv
  OBVIOUS
<1>1. pc = "idle" /\ \A d \in Pods : ~Live(d)
  BY DEF Init, NoPod, Live
<1> QED BY <1>1 DEF ReadyInv, RecordedReady, PlannedReady

\* A running pod that was running before keeps its ready containers.
LEMMA ReadyStays ==
    ASSUME ~Restless, TypeOK, Coherent, [Next]_vars, NEW d \in Pods, Live(d), Live(d)',
           NEW c \in Containers, pod[d].run[c] = "ready"
    PROVE  pod'[d].run[c] = "ready"
<1>1. ~DeletePod(d)
  <2> SUFFICES ASSUME DeletePod(d) PROVE FALSE
    OBVIOUS
  <2>1. pod \in [Pods -> PodObject]
    BY DEF TypeOK, ObjectTypes
  <2> QED BY <2>1 DEF DeletePod, WritePod, NoPod, Live
<1> QED BY <1>1, LiveStays

\* Deployments record what they planned.
LEMMA RecordedReadyStep ==
    ASSUME Reliable, ~Restless, SameSelection, TypeOK, Coherent, GuardInv, WantedInv, Progress,
           ReadyInv, [Next]_vars
    PROVE  RecordedReady'
<1> SUFFICES ASSUME NEW d \in Pods, NEW p \in Policies, NEW t \in Traps, Live(d)',
                    NEW c \in pod'[d].ann[p][t]
             PROVE  /\ pod'[d].run[c] = "ready"
                    /\ \A s \in Specs : t \in s.traps => c \in s.sel[t]
  BY DEF RecordedReady, OnPod
<1> DEFINE Selected == \A s \in Specs : t \in s.traps => c \in s.sel[t]
<1>1. /\ pod \in [Pods -> PodObject]
      /\ Live(d) /\ c \in pod[d].ann[p][t] => c \in Containers /\ pod[d].run[c] = "ready" /\ Selected
  BY DEF TypeOK, ObjectTypes, PodObject, Annotation, ReadyInv, RecordedReady, OnPod
<1>2. Live(d) /\ c \in pod[d].ann[p][t] => pod'[d].run[c] = "ready" /\ Selected
  BY <1>1, ReadyStays
<1>3. CASE ~Annotate
  <2>1. NoAnnotation[p][t] = {}
    BY DEF NoAnnotation
  <2> QED BY <1>2, <1>3, <2>1, RecordsStay DEF Kept
<1>4. CASE Annotate /\ (d # item.pod \/ p # cur \/ t # item.trap \/ pc = "remove")
  BY <1>2, <1>4, AnnotateEffect, RecordedParts DEF Live
<1>5. CASE Annotate /\ d = item.pod /\ p = cur /\ t = item.trap /\ pc = "deploy"
  <2>1. /\ c \in acc /\ item \in work /\ item # None /\ Live(item.pod)
        /\ pod'[item.pod].run = pod[item.pod].run
    BY <1>5, AnnotateEffect, RecordedParts
  <2>2. c \in item.conts
    BY <2>1 DEF Progress
  <2>3. pod[d].run[c] = "ready" /\ c \in goal.spec.sel[t]
    BY <1>5, <2>1, <2>2 DEF ReadyInv, PlannedReady
  <2>4. goal.spec \in Specs /\ t \in goal.spec.traps
    BY <1>5, <2>1 DEF WantedInv, SpecsAreUsers, OnlyWanted
  <2> QED BY <1>5, <2>1, <2>3, <2>4 DEF SameSelection
<1> QED BY <1>3, <1>4, <1>5, AnnotateEffect

\* Plans are made of ready containers, and containers stay ready.
LEMMA PlannedReadyStep ==
    ASSUME Reliable, ~Restless, TypeOK, Coherent, GuardInv, WantedInv, WorkInv, ReadyInv,
           [Next]_vars
    PROVE  PlannedReady'
<1>1. ASSUME work' \subseteq work, UNCHANGED <<pc, goal>> PROVE PlannedReady'
  <2> SUFFICES ASSUME pc = "deploy", NEW w \in work'
               PROVE  /\ w.already \subseteq w.conts /\ w.conts \subseteq goal.spec.sel[w.trap]
                      /\ Live(w.pod)' => \A c \in w.conts : pod'[w.pod].run[c] = "ready"
    BY <1>1 DEF PlannedReady, Live
  <2>1. /\ w \in work /\ w.pod \in Pods /\ w.conts \subseteq Containers
        /\ pod[w.pod].phase # "unborn"
    BY <1>1 DEF TypeOK, ItemTypes, WorkItem, WorkInv, PlanAgrees
  <2>2. Live(w.pod)' => Live(w.pod)
    BY <2>1, RecordsStay, AnnotateEffect DEF Kept, Live
  <2>3. /\ w.already \subseteq w.conts /\ w.conts \subseteq goal.spec.sel[w.trap]
        /\ Live(w.pod) => \A c \in w.conts : pod[w.pod].run[c] = "ready"
    BY <2>1 DEF ReadyInv, PlannedReady
  <2> QED BY <2>1, <2>2, <2>3, ReadyStays
<1>2. ASSUME NEW t \in Traps, MatchTrap(t) PROVE PlannedReady'
  <2>1. /\ \A d \in Pods : cpod[d] = pod[d]
        /\ UNCHANGED <<pod, goal, pc>> /\ cur \in Policies /\ t \in goal.spec.traps
        /\ goal.spec \in Specs
    BY <1>2 DEF MatchTrap, CanReadPods, Lagging, Reliable, Coherent, TypeOK, RequestTypes, apiVars,
                WantedInv, OnlyWanted, SpecsAreUsers
  <2>2. \A w \in work' : /\ w.trap = t /\ w.pod \in Pods /\ Live(w.pod)
                         /\ w.conts = {c \in goal.spec.sel[t] : pod[w.pod].run[c] = "ready"}
                         /\ w.already = OnPod(w.pod, cur)[t]
    BY <1>2, <2>1 DEF MatchTrap, Matched, Deployable, WorkItem, OnPod, Live
  <2>3. \A w \in work' : w.already \subseteq w.conts
    BY <1>2, <2>1, <2>2 DEF ReadyInv, RecordedReady
  <2> QED BY <2>1, <2>2, <2>3 DEF PlannedReady, Live
<1>3. CASE \/ Outside \/ (\E w \in work : StartItem(w)) \/ (\E c \in Containers : Exec(c))
           \/ SkipRecord \/ AnnotateFails \/ Annotate
  <2>1. work' \subseteq work /\ UNCHANGED <<pc, goal>>
    BY <1>3 DEF Outside, localVars, StartItem, Exec, ExecOk, ExecUnreachable, ExecFails,
                SkipRecord, AnnotateFails, Annotate, NextItem
  <2> QED BY <1>1, <2>1
<1>4. CASE BetweenItems
  BY <1>4 DEF BetweenItems, PlannedReady
<1> QED BY <1>2, <1>3, <1>4, StepKinds

-----------------------------------------------------------------------------
(* Whatever is in a container is recorded.                                 *)

\* A decoy that a step leaves in a container is there already, or is deployed now.
LEMMA WhoWroteIt ==
    ASSUME Reliable, TypeOK, [Next]_vars, NEW d \in Pods, NEW c \in Containers, NEW t \in Traps,
           DecoyIn(d, c, t)'
    PROVE  \/ DecoyIn(d, c, t)
           \/ /\ pc = "deploy" /\ item # None /\ item.pod = d /\ item.trap = t
              /\ ExecOk(c)
<1>1. PathOf[t] \in Paths /\ t # None
  BY PathAssumption, NoneAssumption
<1>2. CASE Outside
  BY <1>1, <1>2 DEF Outside, DecoyIn
<1>3. CASE UNCHANGED file
  BY <1>3 DEF DecoyIn
<1>4. ASSUME NEW b \in Containers, ExecOk(b)
      PROVE  DecoyIn(d, c, t) \/ (pc = "deploy" /\ item # None /\ item.pod = d /\ item.trap = t /\ b = c)
  <2>1. item # None /\ Effect(b) /\ pc \in {"remove", "deploy"}
    BY <1>4, ItemType DEF ExecOk
  <2> QED BY <1>1, <2>1, EffectOnFiles DEF DecoyIn
<1> QED BY <1>2, <1>3, <1>4, StepKinds DEF Exec, ExecUnreachable, ExecFails, BetweenItems, StartItem,
           SkipRecord, AnnotateFails, Annotate, MatchTrap

\* The step that ends an item records what it deployed and keeps the record of what
\* it could not remove.
LEMMA ItemEnds ==
    ASSUME Reliable, TypeOK, Coherent, GuardInv, WorkInv, PlannedReady, [Next]_vars, item # None,
           item' = None, NEW c \in Containers, Live(item.pod), DecoyIn(item.pod, c, item.trap),
           c \in OnPod(item.pod, cur)[item.trap] \/ c \in acc
    PROVE  c \in pod'[item.pod].ann[cur][item.trap]
<1>1. item \in work
  BY DEF TypeOK, ItemTypes
<1>2. CASE Annotate
  <2>1. CASE pc = "remove"
    <3>1. c \notin acc
      BY <2>1 DEF WorkInv, Progress
    <3> QED BY <1>2, <2>1, <3>1, RecordedParts DEF OnPod
  <2>2. CASE pc = "deploy"
    <3>1. OnPod(item.pod, cur)[item.trap] = item.already /\ item.already \subseteq item.conts
          /\ item.conts \cap item.already \subseteq acc
      BY <1>1, <2>2 DEF WorkInv, PlanAgrees, Progress, PlannedReady
    <3> QED BY <1>2, <2>2, <3>1, RecordedParts
  <2> QED BY <1>2, <2>1, <2>2, AnnotateEffect
<1>3. CASE SkipRecord
  <2>1. pc = "deploy" /\ acc = {} /\ UNCHANGED pod
    BY <1>3 DEF SkipRecord, apiVars
  <2> QED BY <2>1 DEF OnPod
<1>4. ~AnnotateFails
  BY DEF AnnotateFails, Lagging, Reliable, Live
<1>5. ~Outside /\ ~BetweenItems /\ (\A w \in work : ~StartItem(w)) /\ \A b \in Containers : ~Exec(b)
  BY DEF Outside, localVars, BetweenItems, StartItem, Exec, ExecOk, ExecUnreachable, ExecFails
<1>6. \A t \in Traps : ~MatchTrap(t)
  BY <1>1 DEF MatchTrap
<1> QED BY <1>2, <1>3, <1>4, <1>5, <1>6, StepKinds

\* An item goes on until it ends.
LEMMA ItemGoesOn ==
    ASSUME Reliable, TypeOK, [Next]_vars, item # None, item' # None
    PROVE  item' = item /\ acc \subseteq acc'
<1>1. item \in work
  BY DEF TypeOK, ItemTypes
<1> QED BY <1>1, StepKinds DEF Outside, localVars, BetweenItems, StartItem, Exec, ExecOk,
           ExecUnreachable, ExecFails, SkipRecord, AnnotateFails, Annotate, NextItem, MatchTrap

\* No step leaves a decoy without a record.
LEMMA ThereIsRecordedStep ==
    ASSUME Reliable, TypeOK, Coherent, GuardInv, WorkInv, WorkInv', PlannedReady,
           ThereIsRecorded, [Next]_vars
    PROVE  ThereIsRecorded'
<1> SUFFICES ASSUME NEW d \in Pods, NEW t \in Traps, NEW c \in Containers, DecoyIn(d, c, t)'
             PROVE  \/ \E p \in Policies : c \in pod'[d].ann[p][t]
                    \/ InProgress(d, c, t)'
  BY DEF ThereIsRecorded, OnPod
<1>1. PathOf[t] \in Paths /\ t # None
  BY PathAssumption, NoneAssumption
<1>2. CASE pc = "deploy" /\ item # None /\ item.pod = d /\ item.trap = t /\ ExecOk(c)
  BY <1>2 DEF ExecOk, InProgress
<1>3. CASE DecoyIn(d, c, t)
  <2>1. Live(d)
    BY <1>1, <1>3 DEF WorkInv, DeadAreEmpty, DecoyIn
  <2>2. Live(d)'
    BY <1>1 DEF WorkInv, DeadAreEmpty, DecoyIn
  <2>3. ASSUME item # None, item.pod = d, item.trap = t, item' = None,
               c \in OnPod(d, cur)[t] \/ c \in acc
        PROVE  \E p \in Policies : c \in pod'[d].ann[p][t]
    <3>1. cur \in Policies
      BY <2>3, ItemType
    <3> QED BY <1>3, <2>1, <2>3, <3>1, ItemEnds
  <2>4. ASSUME NEW p \in Policies, c \in OnPod(d, p)[t]
        PROVE  \E q \in Policies : c \in pod'[d].ann[q][t]
    <3>1. CASE ~Annotate
      <4>1. pod'[d].ann = pod[d].ann
        BY <2>1, <2>2, <3>1, RecordsStay DEF Kept, Live
      <4> QED BY <2>4, <4>1 DEF OnPod
    <3>2. CASE Annotate /\ (d # item.pod \/ p # cur \/ t # item.trap)
      BY <2>4, <3>2, AnnotateEffect, RecordedParts DEF OnPod
    <3>3. CASE Annotate /\ d = item.pod /\ p = cur /\ t = item.trap
      BY <2>3, <2>4, <3>3, AnnotateEffect
    <3> QED BY <3>1, <3>2, <3>3
  <2>5. CASE InProgress(d, c, t)
    <3>1. item # None /\ item.pod = d /\ item.trap = t /\ c \in acc
      BY <2>5 DEF InProgress
    <3>2. CASE item' = None
      BY <2>3, <3>1, <3>2
    <3>3. CASE item' # None
      BY <3>1, <3>3, ItemGoesOn DEF InProgress
    <3> QED BY <3>2, <3>3
  <2> QED BY <1>3, <2>4, <2>5 DEF ThereIsRecorded
<1> QED BY <1>2, <1>3, WhoWroteIt

\* There is nothing to record in the beginning.
LEMMA ThereIsRecordedInit == Init => ThereIsRecorded
<1> SUFFICES ASSUME Init, NEW d \in Pods, NEW t \in Traps, NEW c \in Containers,
                    DecoyIn(d, c, t)
             PROVE  FALSE
  BY DEF ThereIsRecorded
<1>1. PathOf[t] \in Paths /\ t # None
  BY PathAssumption, NoneAssumption
<1> QED BY <1>1 DEF Init, DecoyIn

\* As long as commands report what they did, the controller does not stop between a
\* command and its record, ready containers stay ready and a trap keeps its selection,
\* every decoy in a container is recorded on its pod, or in the item in progress
\* (DeployDecoy and RemoveDecoy record what their commands did, container by container).
THEOREM WhatIsThereIsRecorded ==
    Reliable /\ ~Restless /\ SameSelection /\ Spec => []ThereIsRecorded
<1> SUFFICES ASSUME Reliable, ~Restless, SameSelection PROVE Spec => []ThereIsRecorded
  OBVIOUS
<1>1. Spec => [](GuardInv /\ WantedInv /\ WorkInv)
  BY StandingInv
<1>2. TypeOK /\ Coherent /\ GuardInv /\ WantedInv /\ WorkInv /\ ReadyInv /\ [Next]_vars => ReadyInv'
  <2> SUFFICES ASSUME TypeOK, Coherent, GuardInv, WantedInv, WorkInv, ReadyInv, [Next]_vars
               PROVE  ReadyInv'
    OBVIOUS
  <2>1. RecordedReady'
    BY RecordedReadyStep DEF WorkInv
  <2>2. PlannedReady'
    BY PlannedReadyStep
  <2> QED BY <2>1, <2>2 DEF ReadyInv
<1>3. TypeOK /\ Coherent /\ GuardInv /\ WorkInv /\ WorkInv' /\ ReadyInv /\ ThereIsRecorded
      /\ [Next]_vars => ThereIsRecorded'
  BY ThereIsRecordedStep DEF ReadyInv
<1> QED BY <1>1, <1>2, <1>3, ReadyInit, ThereIsRecordedInit, TypeCorrect, CachesCohere, PTL DEF Spec

\* On the same terms, nothing is left in running containers when the last policy is gone
\* (README, Cleanup): what is there is recorded, what is recorded is guarded by the
\* finalizer of a policy, and there is no policy.
THEOREM CleanUpIsComplete ==
    Reliable /\ ~Restless /\ SameSelection /\ Spec => []NothingLeftBehind
<1> SUFFICES ASSUME Reliable, ~Restless, SameSelection PROVE Spec => []NothingLeftBehind
  OBVIOUS
<1>1. Spec => [](GuardInv /\ WantedInv /\ WorkInv)
  BY StandingInv
<1>2. TypeOK /\ GuardInv /\ WorkInv /\ ThereIsRecorded => NothingLeftBehind
  <2> SUFFICES ASSUME TypeOK, GuardInv, WorkInv, ThereIsRecorded,
                      \A p \in Policies : policy[p].phase = "absent", pc = "idle",
                      NEW d \in Pods, NEW c \in Containers, NEW t \in Traps, DecoyIn(d, c, t)
               PROVE  FALSE
    BY DEF NothingLeftBehind
  <2>1. PathOf[t] \in Paths /\ t # None
    BY PathAssumption, NoneAssumption
  <2>2. Live(d) /\ item = None
    BY <2>1 DEF WorkInv, DeadAreEmpty, DecoyIn, TypeOK, ItemTypes
  <2>3. PICK p \in Policies : c \in OnPod(d, p)[t]
    BY <2>2 DEF ThereIsRecorded, InProgress
  <2>4. IsAnnotated(pod[d].ann, p)
    BY <2>3 DEF IsAnnotated, OnPod
  <2> QED BY <2>2, <2>4 DEF GuardInv, FinalizerGuards, Guarded
<1> QED BY <1>1, <1>2, WhatIsThereIsRecorded, TypeCorrect, PTL

-----------------------------------------------------------------------------
(* Whatever is recorded is in the container.  Two policies with decoys at  *)
(* one path overwrite each other's files; here every path has one owner.   *)

\* Policies have decoys only at their own paths.
PathsOwned(owner) ==
    \A p \in Policies : policy[p].phase # "absent" =>
        \A t \in policy[p].spec.traps : owner[PathOf[t]] = p

\* So have the request and the records.
GoalOwned(owner) == pc # "idle" => \A t \in goal.spec.traps : owner[PathOf[t]] = cur

RecordsOwned(owner) ==
    \A d \in Pods, p \in Policies, t \in Traps :
       Live(d) /\ OnPod(d, p)[t] # {} => owner[PathOf[t]] = p

\* RecordedIsThere is not inductive: an item of a deployment takes containers over
\* from the annotation, and records them again when it ends.
RecordsTrue ==
    \A d \in Pods, p \in Policies, t \in Traps, c \in Containers :
       Live(d) /\ c \in OnPod(d, p)[t] => DecoyIn(d, c, t) \/ (pc = "remove" /\ InProgress(d, c, t))

Deployed ==
    pc = "deploy" /\ item # None /\ Live(item.pod) => \A c \in acc : DecoyIn(item.pod, c, item.trap)

TrueInv(owner) == GoalOwned(owner) /\ RecordsOwned(owner) /\ RecordsTrue /\ Deployed

\* Nothing is claimed of the initial state.
LEMMA TrueInit == ASSUME NEW owner, Init PROVE TrueInv(owner)
<1>1. pc = "idle" /\ item = None /\ \A d \in Pods : ~Live(d)
  BY DEF Init, NoPod, Live
<1> QED BY <1>1 DEF TrueInv, GoalOwned, RecordsOwned, RecordsTrue, Deployed

\* A request gets its goal when it is fetched.
LEMMA GoalStays ==
    ASSUME Reliable, TypeOK, [Next]_vars
    PROVE  \/ pc' = "idle" \/ (pc # "idle" /\ UNCHANGED <<cur, goal>>)
           \/ \E p \in Policies : Fetch(p)
<1>1. CASE UNCHANGED localVars
  BY <1>1 DEF localVars
<1>2. item # None => pc # "idle"
  BY DEF TypeOK, ItemTypes
<1>3. CASE PutFinalizer \/ PutFinalizerFails \/ ReleasePolicy \/ ReleaseConflict \/ UpdateStatus
           \/ UpdateStatusFails
  BY <1>3 DEF PutFinalizer, PutFinalizerFails, ReleasePolicy, ReleaseConflict, UpdateStatus,
     UpdateStatusFails, Return, ForgetRequest
<1>4. CASE ListAnnotated \/ FinishRemoval \/ AbortRemoval \/ FinishDeploy
           \/ (\E t \in Traps : MatchTrap(t))
  BY <1>4 DEF ListAnnotated, FinishRemoval, AbortRemoval, FinishDeploy, MatchTrap, Return,
     ForgetRequest
<1>5. CASE \/ (\E w \in work : StartItem(w)) \/ (\E c \in Containers : Exec(c))
           \/ SkipRecord \/ Annotate \/ AnnotateFails
  BY <1>2, <1>5 DEF StartItem, Exec, ExecOk, ExecUnreachable, ExecFails, SkipRecord, Annotate,
     AnnotateFails, MustRecord
<1>6. ~Crash /\ \A c \in Containers : ~ExecHalfDone(c)
  BY DEF Reliable, Crash, ExecHalfDone
<1> QED BY <1>1, <1>3, <1>4, <1>5, <1>6, OutsideSteps DEF Next, WorkerStep, FaultStep, Exec, Outside

\* The goal is a copy of a policy.
LEMMA GoalOwnedStep ==
    ASSUME NEW owner, Reliable, TypeOK, Coherent, PathsOwned(owner), GoalOwned(owner), [Next]_vars
    PROVE  GoalOwned(owner)'
<1>1. CASE pc' = "idle" \/ (pc # "idle" /\ UNCHANGED <<cur, goal>>)
  BY <1>1 DEF GoalOwned
<1>2. ASSUME NEW p \in Policies, Fetch(p) PROVE GoalOwned(owner)'
  <2>1. cpolicy[p] = policy[p]
    BY <1>2 DEF Fetch, CanReadPolicy, Lagging, Reliable, Coherent
  <2> QED BY <1>2, <2>1 DEF Fetch, GoalOwned, PathsOwned, localVars
<1> QED BY <1>1, <1>2, GoalStays

\* A record that a step leaves was there already, or is of the item that was deployed.
LEMMA WhoRecordedIt ==
    ASSUME TypeOK, Coherent, GuardInv, [Next]_vars, NEW d \in Pods, NEW p \in Policies,
           NEW t \in Traps, NEW c \in pod'[d].ann[p][t], Live(d)'
    PROVE  \/ Live(d) /\ c \in OnPod(d, p)[t]
           \/ /\ Annotate /\ pc = "deploy" /\ c \in acc
              /\ d = item.pod /\ p = cur /\ t = item.trap
<1>1. NoAnnotation[p][t] = {}
  BY DEF NoAnnotation
<1>2. CASE ~Annotate
  BY <1>1, <1>2, RecordsStay DEF Kept, OnPod
<1>3. CASE Annotate
  BY <1>3, AnnotateEffect, RecordedParts DEF OnPod, Live
<1> QED BY <1>2, <1>3

\* Records are of traps of the goal.
LEMMA RecordsOwnedStep ==
    ASSUME NEW owner, TypeOK, Coherent, GuardInv, WantedInv, GoalOwned(owner), RecordsOwned(owner),
           [Next]_vars
    PROVE  RecordsOwned(owner)'
<1> SUFFICES ASSUME NEW d \in Pods, NEW p \in Policies, NEW t \in Traps, Live(d)',
                    NEW c \in pod'[d].ann[p][t]
             PROVE  owner[PathOf[t]] = p
  BY DEF RecordsOwned, OnPod
<1>1. CASE Live(d) /\ c \in OnPod(d, p)[t]
  BY <1>1 DEF RecordsOwned
<1>2. CASE Annotate /\ pc = "deploy" /\ p = cur /\ t = item.trap
  BY <1>2, AnnotateEffect DEF WantedInv, OnlyWanted, GoalOwned
<1> QED BY <1>1, <1>2, WhoRecordedIt

\* A command for a decoy works at a path that is the policy's, and in a container where
\* the policy has no other decoy recorded at that path.
LEMMA OnlyItsOwnDecoy ==
    ASSUME NEW owner, DistinctPaths, TypeOK, GuardInv, WantedInv, OnePerPath, Progress,
           GoalOwned(owner), RecordsOwned(owner), item # None, Live(item.pod),
           NEW c \in left \cup acc,
           NEW p \in Policies, NEW t \in Traps, c \in OnPod(item.pod, p)[t],
           PathOf[t] = PathOf[item.trap]
    PROVE  p = cur /\ t = item.trap
<1>1. /\ item \in work /\ item.pod \in Pods /\ item.trap \in Traps /\ cur \in Policies
      /\ pc \in {"remove", "deploy"} /\ c \in item.conts
  BY ItemType DEF WorkItem, TypeOK, ItemTypes, Progress
<1>2. owner[PathOf[t]] = p
  BY <1>1 DEF RecordsOwned
<1>3. CASE pc = "deploy"
  <2>1. item.trap \in goal.spec.traps /\ goal.spec \in Specs
    BY <1>1, <1>3 DEF WantedInv, OnlyWanted, SpecsAreUsers
  <2>2. p = cur
    BY <1>2, <1>3, <2>1 DEF GoalOwned
  <2>3. t \in goal.spec.traps
    BY <1>1, <1>3, <2>2 DEF WantedInv, OnlyWanted
  <2> QED BY <2>1, <2>2, <2>3 DEF DistinctPaths
<1>4. CASE pc = "remove"
  <2>1. OnPod(item.pod, cur)[item.trap] = item.conts
    BY <1>1, <1>4 DEF GuardInv, ListAgrees
  <2>2. p = cur
    BY <1>1, <1>2, <2>1 DEF RecordsOwned
  <2> QED BY <1>1, <2>1, <2>2 DEF OnePerPath
<1> QED BY <1>1, <1>3, <1>4

\* Commands and updates keep the records true.
LEMMA RecordsTrueStep ==
    ASSUME NEW owner, Reliable, "restart" \notin Env, DistinctPaths, TypeOK, Coherent, GuardInv,
           WantedInv, OnePerPath, WorkInv, TrueInv(owner), [Next]_vars
    PROVE  RecordsTrue'
<1> SUFFICES ASSUME NEW d \in Pods, NEW p \in Policies, NEW t \in Traps, NEW c \in Containers,
                    Live(d)', c \in pod'[d].ann[p][t]
             PROVE  DecoyIn(d, c, t)' \/ (pc' = "remove" /\ InProgress(d, c, t)')
  BY DEF RecordsTrue, OnPod
<1>1. PathOf[t] \in Paths
  BY PathAssumption
<1>2. CASE Annotate /\ pc = "deploy" /\ c \in acc /\ d = item.pod /\ p = cur /\ t = item.trap
  BY <1>2, AnnotateEffect DEF TrueInv, Deployed, DecoyIn
<1>3. CASE Live(d) /\ c \in OnPod(d, p)[t]
  <2>1. DecoyIn(d, c, t) \/ (pc = "remove" /\ InProgress(d, c, t))
    BY <1>3 DEF TrueInv, RecordsTrue
  <2>2. CASE Outside
    BY <1>1, <2>1, <2>2 DEF Outside, localVars, DecoyIn, InProgress
  <2>3. CASE BetweenItems \/ SkipRecord \/ (\E w \in work : StartItem(w))
             \/ (\E u \in Traps : MatchTrap(u))
    <3>1. UNCHANGED file /\ (item = None \/ pc = "deploy")
      BY <2>3 DEF BetweenItems, SkipRecord, StartItem, MatchTrap
    <3> QED BY <2>1, <3>1 DEF DecoyIn, InProgress
  <2>4. CASE AnnotateFails
    <3>1. UNCHANGED file /\ ~Live(item.pod)
      BY <2>4 DEF AnnotateFails, Lagging, Reliable, Live
    <3> QED BY <1>3, <2>1, <3>1 DEF DecoyIn, InProgress
  <2>5. CASE Annotate
    <3>1. ~(pc = "remove" /\ InProgress(d, c, t))
      <4> SUFFICES ASSUME pc = "remove", InProgress(d, c, t) PROVE FALSE
        OBVIOUS
      <4>1. p = cur
        BY <1>3, OnlyItsOwnDecoy DEF InProgress, TrueInv, WorkInv
      <4> QED BY <2>5, <4>1, RecordedParts DEF InProgress
    <3> QED BY <2>1, <2>5, <3>1, AnnotateEffect DEF DecoyIn
  <2>6. ASSUME NEW b \in Containers, ExecUnreachable(b) \/ ExecFails(b)
        PROVE  DecoyIn(d, c, t)' \/ (pc' = "remove" /\ InProgress(d, c, t)')
    <3>1. UNCHANGED <<file, pc, item, acc>>
      BY <2>6 DEF ExecUnreachable, ExecFails
    <3> QED BY <2>1, <3>1 DEF DecoyIn, InProgress
  <2>7. ASSUME NEW b \in Containers, ExecOk(b)
        PROVE  DecoyIn(d, c, t)' \/ (pc' = "remove" /\ InProgress(d, c, t)')
    <3>1. /\ item # None /\ b \in left /\ Effect(b) /\ Live(item.pod)
          /\ UNCHANGED <<pc, item>> /\ acc' = acc \cup {b} /\ pc \in {"remove", "deploy"}
      BY <2>7, ItemType DEF ExecOk, RunnableIn, Live
    <3>2. CASE d = item.pod /\ c = b /\ PathOf[t] = PathOf[item.trap]
      <4>1. t = item.trap
        BY <1>3, <3>1, <3>2, OnlyItsOwnDecoy DEF TrueInv, WorkInv
      <4> QED BY <1>1, <3>1, <3>2, <4>1, EffectOnFiles DEF DecoyIn, InProgress
    <3>3. CASE ~(d = item.pod /\ c = b /\ PathOf[t] = PathOf[item.trap])
      <4>1. DecoyIn(d, c, t) => DecoyIn(d, c, t)'
        BY <1>1, <3>1, <3>3, EffectOnFiles DEF DecoyIn
      <4> QED BY <2>1, <3>1, <4>1 DEF InProgress
    <3> QED BY <3>2, <3>3
  <2> QED BY <2>2, <2>3, <2>4, <2>5, <2>6, <2>7, StepKinds DEF Exec
<1> QED BY <1>2, <1>3, WhoRecordedIt

\* What a deployment is going to record is there.
LEMMA DeployedStep ==
    ASSUME NEW owner, Reliable, "restart" \notin Env, TypeOK, Coherent, GuardInv,
           WorkInv, TrueInv(owner), [Next]_vars
    PROVE  Deployed'
<1> SUFFICES ASSUME pc' = "deploy", item' # None, pod'[item'.pod].phase = "live", NEW c \in acc'
             PROVE  file'[item'.pod][c][PathOf[item'.trap]] = item'.trap
  BY DEF Deployed, DecoyIn, Live
<1>1. item # None => /\ item \in work /\ item.pod \in Pods /\ item.trap \in Traps
                     /\ PathOf[item.trap] \in Paths
  BY ItemType, PathAssumption DEF WorkItem, TypeOK, ItemTypes
<1>2. CASE Outside
  <2>1. UNCHANGED <<pc, item, work, acc>> /\ c \in Containers
    BY <1>2 DEF Outside, localVars, TypeOK, ItemTypes
  <2>2. pod[item.pod].phase # "unborn" /\ ~Annotate
    BY <1>1, <2>1, AnnotateEffect DEF WorkInv, PlanAgrees
  <2>3. Live(item.pod) /\ Live(item.pod)'
    <3>1. \A e \in Pods : pod[e].phase # "unborn" /\ Live(e)' => Live(e)
      BY <2>2, RecordsStay DEF Kept
    <3>2. \A e \in Pods : pod'[e].phase = "live" => Live(e)'
      BY DEF Live
    <3> QED BY <1>1, <2>1, <2>2, <3>1, <3>2
  <2>4. file[item.pod][c][PathOf[item.trap]] = item.trap
    BY <2>1, <2>3 DEF TrueInv, Deployed, DecoyIn
  <2> QED BY <1>1, <1>2, <2>1, <2>3, <2>4 DEF Outside
<1>3. ASSUME NEW w \in work, StartItem(w) PROVE file'[w.pod][c][PathOf[w.trap]] = w.trap
  <2>1. UNCHANGED <<pc, cur, pod, file>> /\ item' = w /\ c \in w.already /\ pc = "deploy"
    BY <1>3 DEF StartItem, apiVars
  <2>2. w.pod \in Pods /\ w.trap \in Traps /\ c \in Containers /\ cur \in Policies /\ Live(w.pod)
    BY <2>1 DEF TypeOK, ItemTypes, WorkItem, RequestTypes, Live
  <2>3. c \in OnPod(w.pod, cur)[w.trap]
    BY <2>1, <2>2 DEF WorkInv, PlanAgrees
  <2> QED BY <2>1, <2>2, <2>3 DEF TrueInv, RecordsTrue, DecoyIn
<1>4. ASSUME NEW b \in Containers, Exec(b) PROVE file'[item.pod][c][PathOf[item.trap]] = item.trap
  <2>1. UNCHANGED <<pc, pod, item>> /\ item # None /\ acc \subseteq Containers
    BY <1>4 DEF Exec, ExecOk, ExecUnreachable, ExecFails, apiVars, TypeOK, ItemTypes
  <2>2. \A e \in acc : file[item.pod][e][PathOf[item.trap]] = item.trap
    BY <2>1 DEF TrueInv, Deployed, DecoyIn, Live
  <2>3. CASE ExecOk(b)
    <3>1. Effect(b) /\ acc' = acc \cup {b} /\ pc = "deploy"
      BY <2>1, <2>3 DEF ExecOk
    <3> QED BY <1>1, <2>1, <2>2, <3>1, EffectOnFiles
  <2>4. CASE ExecUnreachable(b) \/ ExecFails(b)
    BY <2>2, <2>4 DEF ExecUnreachable, ExecFails
  <2> QED BY <1>4, <2>3, <2>4 DEF Exec
<1>5. ~BetweenItems /\ ~SkipRecord /\ ~AnnotateFails /\ ~Annotate
  BY DEF BetweenItems, SkipRecord, AnnotateFails, Annotate, NextItem
<1>6. ASSUME NEW t \in Traps, MatchTrap(t) PROVE FALSE
  BY <1>1, <1>6 DEF MatchTrap
<1> QED BY <1>2, <1>3, <1>4, <1>5, <1>6, StepKinds DEF StartItem, Exec, ExecOk, ExecUnreachable,
           ExecFails

\* All four over a step.
LEMMA TrueStep ==
    ASSUME NEW owner, Reliable, "restart" \notin Env, DistinctPaths, TypeOK, Coherent, GuardInv,
           WantedInv, OnePerPath, WorkInv, PathsOwned(owner), TrueInv(owner), [Next]_vars
    PROVE  TrueInv(owner)'
<1>1. GoalOwned(owner)' /\ RecordsOwned(owner)'
  BY GoalOwnedStep, RecordsOwnedStep DEF TrueInv
<1>2. RecordsTrue'
  BY RecordsTrueStep
<1>3. Deployed'
  BY DeployedStep
<1> QED BY <1>1, <1>2, <1>3 DEF TrueInv

\* As long as commands report what they did, the controller does not stop between a
\* command and its record, containers keep their files and every path has one owner,
\* whatever the annotation of a running pod records is in the container, except while it
\* is being removed (RemoveDecoy and DeployDecoy record only what their commands did).
THEOREM WhatIsRecordedIsThere ==
    ASSUME NEW CONSTANT owner
    PROVE  Reliable /\ "restart" \notin Env /\ DistinctPaths /\ Spec /\ []PathsOwned(owner)
              => []RecordedIsThere
<1> SUFFICES ASSUME Reliable, "restart" \notin Env, DistinctPaths
             PROVE  Spec /\ []PathsOwned(owner) => []RecordedIsThere
  OBVIOUS
<1>1. Spec => [](GuardInv /\ WantedInv /\ WorkInv)
  BY StandingInv
<1>2. Spec => []OnePerPath
  BY RotationIsClean DEF Reliable
<1>3. TypeOK /\ Coherent /\ GuardInv /\ WantedInv /\ OnePerPath /\ WorkInv /\ PathsOwned(owner)
      /\ TrueInv(owner) /\ [Next]_vars => TrueInv(owner)'
  BY TrueStep
<1>4. Init => TrueInv(owner)
  BY TrueInit
<1>5. TrueInv(owner) => RecordedIsThere
  BY DEF TrueInv, RecordsTrue, RecordedIsThere
<1> QED BY <1>1, <1>2, <1>3, <1>4, <1>5, TypeCorrect, CachesCohere, PTL DEF Spec

\* In particular if there is only one policy: it owns every path.
THEOREM WhatIsRecordedIsThereAlone ==
    ASSUME NEW CONSTANT p, Policies = {p}
    PROVE  Reliable /\ "restart" \notin Env /\ DistinctPaths /\ Spec => []RecordedIsThere
<1> SUFFICES ASSUME Reliable, "restart" \notin Env, DistinctPaths PROVE Spec => []RecordedIsThere
  OBVIOUS
<1> DEFINE owner == [x \in Paths |-> p]
<1>1. WantedInv => PathsOwned(owner)
  <2>1. \A t \in Traps : owner[PathOf[t]] = p
    BY PathAssumption
  <2>2. \A q \in Policies : q = p
    OBVIOUS
  <2>3. WantedInv => \A q \in Policies : policy[q].phase # "absent" => policy[q].spec.traps \subseteq Traps
    BY SpecsAssumption DEF WantedInv, SpecsAreUsers, DeceptionPolicySpec
  <2> HIDE DEF owner
  <2> QED BY <2>1, <2>2, <2>3 DEF PathsOwned
<1> HIDE DEF owner
<1>2. Spec => [](GuardInv /\ WantedInv /\ WorkInv)
  BY StandingInv
<1>3. Spec => []OnePerPath
  BY RotationIsClean DEF Reliable
<1>4. TypeOK /\ Coherent /\ GuardInv /\ WantedInv /\ OnePerPath /\ WorkInv
      /\ TrueInv(owner) /\ [Next]_vars => TrueInv(owner)'
  BY <1>1, TrueStep
<1>5. Init => TrueInv(owner)
  BY TrueInit
<1>6. TrueInv(owner) => RecordedIsThere
  BY DEF TrueInv, RecordsTrue, RecordedIsThere
<1> QED BY <1>2, <1>3, <1>4, <1>5, <1>6, TypeCorrect, CachesCohere, PTL DEF Spec
=============================================================================
