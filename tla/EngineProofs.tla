---------------------------- MODULE EngineProofs ----------------------------
(***************************************************************************)
(* For any pool, Python worker and restarts, the rows of Engine go through *)
(* steps of Store only; so everything proved of Store holds of Engine.     *)
(***************************************************************************)
EXTENDS Engine, LedgerProofs

\* A claim, an outcome and a timeout are steps of Store wherever they come from.
LEMMA ClaimIsStoreStep ==
  ASSUME NEW t \in TaskID, NEW a \in AttemptID, NEW w \in WorkerID,
         ClaimTask(t, a, w, PoolQueue, TaskType)
  PROVE  Next
<1>1. PoolQueue \in Queue /\ TaskType \in SUBSET TaskType
  BY EngineConstants
<1>2. ClaimAnyTask
  BY <1>1 DEF ClaimAnyTask
<1> QED
  BY <1>2 DEF Next

LEMMA DeliverIsStoreStep ==
  ASSUME NEW e, exec[e].attempt \in AttemptID, Deliver(e)
  PROVE  [Next]_vars
BY DEF Deliver, Conclude, Next

\* Executors hold attempts whenever they have something to report; the pool
\* and the Python process are registered workers when they claim, and not the
\* same one.
Registered(w) == w \in WorkerID /\ workers[w].registered

MemoryInv ==
  /\ exec \in [Executor -> Activity]
  /\ stale \subseteq AttemptID
  /\ server \in {"down", "up", "stopping"}
  /\ server # "down" => Registered(poolWorker) /\ poolWorker # pyWorker
  /\ pyWorker # None => Registered(pyWorker)

LEMMA ActivityShape ==
  ASSUME NEW e \in Executor, exec \in [Executor -> Activity]
  PROVE  /\ exec[e].pc \in {"poll", "gone"} => exec[e].attempt = None
         /\ exec[e].pc \in {"run"} \cup Verdict => exec[e].attempt \in AttemptID
         /\ exec[e].attempt # None => exec[e].attempt \in AttemptID
BY DEF Activity, Idle, Verdict

LEMMA IdleIsActivity == Idle("poll") \in Activity /\ Idle("gone") \in Activity
BY DEF Activity

LEMMA BecomesType ==
  ASSUME exec \in [Executor -> Activity], NEW e \in Executor, NEW y \in Activity,
         Becomes(e, y)
  PROVE  exec' \in [Executor -> Activity]
BY DEF Becomes

\* Nothing unregisters a worker.
LEMMA StaysRegistered ==
  ASSUME TypeOK, [Next]_vars, NEW w, Registered(w)
  PROVE  Registered(w)'
<1> USE DEF Registered
<1>1. CASE workers' = workers
  BY <1>1
<1>2. ASSUME NEW v \in WorkerID, NEW c \in Concurrency, CreateWorker(v, c)
      PROVE  Registered(w)'
  BY <1>2 DEF CreateWorker, FreshWorker, TypeOK
<1>3. ASSUME NEW v \in WorkerID, Occupy(v) \/ Release(v)
      PROVE  Registered(w)'
  <2>1. PICK n, status :
          \/ workers' = workers
          \/ workers' = [workers EXCEPT ![v] =
                [workers[v] EXCEPT !.current_task_count = n, !.status = status]]
    BY <1>3 DEF Occupy, Release
  <2>2. workers[v] \in Worker /\ workers \in [WorkerID -> Worker]
    BY <1>3 DEF TypeOK
  <2>3. CASE workers' = workers
    BY <2>3
  <2>4. CASE w # v
    BY <2>1, <2>2, <2>4
  <2>5. CASE w = v /\ workers' # workers
    <3>1. workers'[v] = [workers[v] EXCEPT !.current_task_count = n, !.status = status]
      BY <2>1, <2>2, <2>5
    <3>2. workers'[v].registered = workers[v].registered
      BY <2>2, <3>1 DEF Worker
    <3> QED
      BY <2>5, <3>2
  <2> QED
    BY <2>3, <2>4, <2>5
<1>4. ASSUME NEW v, v \notin WorkerID, Occupy(v) \/ Release(v)
      PROVE  Registered(w)'
  BY <1>4 DEF Occupy, Release, TypeOK, Worker
<1>5. ASSUME NEW v, Occupy(v) \/ Release(v) PROVE Registered(w)'
  BY <1>3, <1>4, <1>5
<1>6. CASE ClaimAnyTask
  BY <1>6, <1>5 DEF ClaimAnyTask, ClaimTask
<1>7. ASSUME NEW a \in AttemptID,
             SucceedAttempt(a) \/ FailAttempt(a) \/ CancelAttempt(a) \/ TimeoutAttempt(a)
      PROVE  Registered(w)'
  BY <1>5, <1>7 DEF SucceedAttempt, FailAttempt, CancelAttempt, TimeoutAttempt, Finish
<1>8. CASE \/ CreateAnyTask \/ RestartAnyTask \/ RequeueRetrying \/ Tick
           \/ \E a \in AttemptID : UpdateHeartbeat(a)
           \/ \E t \in TaskID : HaltTask(t) \/ ResumeTask(t) \/ CancelTask(t) \/ RetryTask(t)
  BY <1>1, <1>8 DEF CreateAnyTask, CreateTask, RestartAnyTask, RestartTask, RequeueRetrying,
     Tick, UpdateHeartbeat, HaltTask, ResumeTask, CancelTask, RetryTask, Control
<1> QED
  BY <1>1, <1>2, <1>6, <1>7, <1>8 DEF Next, vars

-----------------------------------------------------------------------------
(* Every step of the engine is a step of Store, or moves no row.           *)

LEMMA EngineStepIsStoreStep ==
  ASSUME MemoryInv, [EngineNext]_allVars
  PROVE  [Next]_vars
<1>1. CASE ServerStep
  <2>1. CASE Start
    <3>1. PICK w \in WorkerID : CreateWorker(w, GlobalLimit)
      BY <2>1 DEF Start
    <3> QED
      BY <3>1, EngineConstants DEF Next
  <2> QED
    BY <1>1, <2>1 DEF ServerStep, Stop, Stopped, Crash
<1>2. ASSUME NEW g \in GoSlot, GoStep(g) PROVE [Next]_vars
  <2>1. g \in Executor /\ exec \in [Executor -> Activity]
    BY DEF Executor, MemoryInv
  <2>2. CASE GoClaim(g)
    <3>1. poolWorker \in WorkerID
      BY <2>2 DEF GoClaim, MemoryInv, Registered
    <3> QED
      BY <2>2, <3>1, ClaimIsStoreStep DEF GoClaim, Claim
  <2>3. CASE GoClaimLost(g)
    <3>1. poolWorker \in WorkerID
      BY <2>3 DEF GoClaimLost, MemoryInv, Registered
    <3> QED
      BY <2>3, <3>1, ClaimIsStoreStep DEF GoClaimLost, LostClaim
  <2>4. CASE GoHeartbeat(g)
    <3>1. exec[g].attempt \in AttemptID
      BY <2>1, <2>4, ActivityShape DEF GoHeartbeat
    <3> QED
      BY <2>4, <3>1 DEF GoHeartbeat, Next
  <2>5. CASE GoReport(g)
    <3>1. exec[g].attempt \in AttemptID
      BY <2>1, <2>5, ActivityShape DEF GoReport
    <3> QED
      BY <2>5, <3>1, DeliverIsStoreStep DEF GoReport
  <2>6. CASE GoDecide(g) \/ GoReportFails(g) \/ GoExit(g)
    BY <2>6 DEF GoDecide, GoReportFails, GoExit
  <2> QED
    BY <1>2, <2>2, <2>3, <2>4, <2>5, <2>6 DEF GoStep, GoEnd
<1>3. CASE ScannerStep
  <2>1. CASE Scan
    BY <2>1 DEF Scan
  <2>2. ASSUME NEW a \in stale, TimeoutStale(a) PROVE [Next]_vars
    <3>1. a \in AttemptID
      BY DEF MemoryInv
    <3> QED
      BY <2>2, <3>1 DEF TimeoutStale, Next
  <2> QED
    BY <1>3, <2>1, <2>2 DEF ScannerStep
<1>4. CASE PyRegister
  <2>1. PICK w \in WorkerID : CreateWorker(w, Cardinality(PyThread))
    BY <1>4 DEF PyRegister
  <2> QED
    BY <2>1, EngineConstants DEF Next
<1>5. ASSUME NEW p \in PyThread, PyStep(p) PROVE [Next]_vars
  <2>1. p \in Executor /\ exec \in [Executor -> Activity]
    BY DEF Executor, MemoryInv
  <2>2. CASE PyClaim(p) \/ PyClaimLost(p)
    <3>1. pyWorker \in WorkerID
      BY <2>2 DEF PyClaim, PyClaimLost, MemoryInv, Registered
    <3> QED
      BY <2>2, <3>1, ClaimIsStoreStep DEF PyClaim, PyClaimLost, Claim, LostClaim
  <2>3. CASE PyReport(p) \/ PyReportLost(p)
    <3>1. exec[p].attempt \in AttemptID
      BY <2>1, <2>3, ActivityShape DEF PyReport, PyReportLost
    <3> QED
      BY <2>3, <3>1, DeliverIsStoreStep DEF PyReport, PyReportLost
  <2>4. CASE PyDecide(p) \/ PyReportFails(p) \/ PyGone(p)
    BY <2>4 DEF PyDecide, PyReportFails, PyGone
  <2> QED
    BY <1>5, <2>2, <2>3, <2>4 DEF PyStep
<1>6. CASE OperatorStep
  BY <1>6 DEF OperatorStep, Next
<1>7. CASE ScannerFailure \/ Requeue \/ Clock
  BY <1>7 DEF ScannerFailure, AbandonScan, TimeoutStaleFails, Requeue, Clock, Next
<1>8. CASE UNCHANGED allVars
  BY <1>8 DEF allVars
<1> QED
  BY <1>1, <1>2, <1>3, <1>4, <1>5, <1>6, <1>7, <1>8 DEF EngineNext

-----------------------------------------------------------------------------
(* What the processes remember.                                            *)

LEMMA InitMemory == EngineInit => MemoryInv
BY IdleIsActivity DEF EngineInit, MemoryInv

\* Steps that register no worker and change no server keep the rest.
LEMMA SameProcesses ==
  ASSUME TypeOK, MemoryInv, [Next]_vars,
         UNCHANGED <<server, poolWorker, pyWorker>>,
         exec' \in [Executor -> Activity], stale' \subseteq AttemptID
  PROVE  MemoryInv'
<1>1. \A w : Registered(w) => Registered(w)'
  BY StaysRegistered
<1> QED
  BY <1>1 DEF MemoryInv, Registered

LEMMA ServerKeepsMemory ==
  ASSUME TypeOK, MemoryInv, [Next]_vars, ServerStep \/ PyRegister
  PROVE  MemoryInv'
<1>0. /\ \A w : Registered(w) => Registered(w)'
      /\ exec \in [Executor -> Activity]
  BY StaysRegistered DEF MemoryInv
<1>1. CASE Start
  <2>1. PICK w \in WorkerID : CreateWorker(w, GlobalLimit) /\ poolWorker' = w
    BY <1>1 DEF Start
  <2>2. ~workers[w].registered /\ workers'[w].registered
    BY <2>1 DEF CreateWorker, FreshWorker, TypeOK
  <2>3. exec' \in [Executor -> Activity]
    BY <1>0, <1>1, IdleIsActivity DEF Start
  <2>4. w # pyWorker
    BY <2>2, EngineConstants DEF MemoryInv, Registered
  <2>5. Registered(poolWorker)' /\ poolWorker' # pyWorker'
    BY <1>1, <2>1, <2>2, <2>4 DEF Start, Registered
  <2>6. pyWorker' # None => Registered(pyWorker)'
    BY <1>0, <1>1 DEF Start, MemoryInv, Registered
  <2> QED
    BY <1>1, <2>3, <2>5, <2>6 DEF Start, MemoryInv
<1>2. CASE Stop
  BY <1>0, <1>2 DEF Stop, MemoryInv, Registered
<1>3. CASE Stopped
  BY <1>0, <1>3 DEF Stopped, MemoryInv, Registered
<1>4. CASE Crash
  <2>1. exec' \in [Executor -> Activity]
    BY <1>0, <1>4, IdleIsActivity DEF Crash
  <2> QED
    BY <1>0, <1>4, <2>1 DEF Crash, MemoryInv, Registered
<1>5. CASE PyRegister
  <2>1. PICK w \in WorkerID : CreateWorker(w, Cardinality(PyThread)) /\ pyWorker' = w
    BY <1>5 DEF PyRegister
  <2>2. ~workers[w].registered /\ workers'[w].registered
    BY <2>1 DEF CreateWorker, FreshWorker, TypeOK
  <2> QED
    BY <1>0, <1>5, <2>1, <2>2 DEF PyRegister, MemoryInv, Registered
<1> QED
  BY <1>1, <1>2, <1>3, <1>4, <1>5 DEF ServerStep

LEMMA ExecutorsKeepMemory ==
  ASSUME TypeOK, MemoryInv, [Next]_vars,
         \/ \E g \in GoSlot : GoStep(g)
         \/ \E p \in PyThread : PyStep(p)
  PROVE  MemoryInv'
<1>0. exec \in [Executor -> Activity]
  BY DEF MemoryInv
<1>1. ASSUME NEW e \in Executor, NEW y \in Activity, Becomes(e, y),
             UNCHANGED <<server, poolWorker, pyWorker, stale>>
      PROVE  MemoryInv'
  <2>1. exec' \in [Executor -> Activity] /\ stale' \subseteq AttemptID
    BY <1>0, <1>1, BecomesType DEF MemoryInv
  <2> QED
    BY <1>1, <2>1, SameProcesses
<1>2. ASSUME NEW e \in Executor, NEW w, Claim(e, w) PROVE MemoryInv'
  <2>1. PICK a \in AttemptID : Becomes(e, [pc |-> "run", attempt |-> a])
    BY <1>2 DEF Claim
  <2>2. [pc |-> "run", attempt |-> a] \in Activity
    BY DEF Activity
  <2> QED
    BY <1>1, <1>2, <2>1, <2>2 DEF Claim
<1>3. ASSUME NEW e \in Executor, NEW w, NEW pc \in {"poll", "gone"}, LostClaim(e, w, Idle(pc))
      PROVE  MemoryInv'
  BY <1>1, <1>3, IdleIsActivity DEF LostClaim
<1>4. ASSUME NEW e \in Executor, exec[e].pc \in {"run"} \cup Verdict, NEW verdict \in Verdict
      PROVE  [exec[e] EXCEPT !.pc = verdict] \in Activity
  <2>1. exec[e] \in [pc: {"run"} \cup Verdict, attempt: AttemptID]
    BY <1>0, <1>4 DEF Activity, Idle, Verdict
  <2> QED
    BY <1>4, <2>1 DEF Activity
<1>5. ASSUME NEW g \in GoSlot, GoStep(g) PROVE MemoryInv'
  <2>1. g \in Executor
    BY DEF Executor
  <2>2. CASE GoClaim(g) \/ GoClaimLost(g)
    BY <1>2, <1>3, <2>1, <2>2 DEF GoClaim, GoClaimLost
  <2>3. CASE GoHeartbeat(g)
    BY <1>0, <2>3, SameProcesses DEF GoHeartbeat, memory, MemoryInv
  <2>4. CASE GoDecide(g)
    BY <1>1, <1>4, <2>1, <2>4 DEF GoDecide
  <2>5. CASE GoReport(g) \/ GoReportFails(g) \/ GoExit(g)
    BY <1>1, <2>1, <2>5, IdleIsActivity DEF GoReport, GoReportFails, GoExit, AfterReport
  <2> QED
    BY <1>5, <2>2, <2>3, <2>4, <2>5 DEF GoStep, GoEnd
<1>6. ASSUME NEW p \in PyThread, PyStep(p) PROVE MemoryInv'
  <2>1. p \in Executor
    BY DEF Executor
  <2>2. CASE PyClaim(p) \/ PyClaimLost(p)
    BY <1>2, <1>3, <2>1, <2>2 DEF PyClaim, PyClaimLost
  <2>3. CASE PyDecide(p)
    BY <1>1, <1>4, <2>1, <2>3 DEF PyDecide, Verdict
  <2>4. CASE PyReport(p) \/ PyReportFails(p) \/ PyGone(p)
    BY <1>1, <2>1, <2>4, IdleIsActivity DEF PyReport, PyReportFails, PyGone
  <2>5. CASE PyReportLost(p)
    BY <1>1, <1>4, <2>1, <2>5, IdleIsActivity DEF PyReportLost, Verdict
  <2> QED
    BY <1>6, <2>2, <2>3, <2>4, <2>5 DEF PyStep
<1> QED
  BY <1>5, <1>6

LEMMA StepMemory ==
  ASSUME TypeOK, MemoryInv, [EngineNext]_allVars
  PROVE  MemoryInv'
<1>0. [Next]_vars /\ exec \in [Executor -> Activity] /\ stale \subseteq AttemptID
  BY EngineStepIsStoreStep DEF MemoryInv
<1>1. CASE ServerStep \/ PyRegister
  BY <1>0, <1>1, ServerKeepsMemory
<1>2. CASE (\E g \in GoSlot : GoStep(g)) \/ (\E p \in PyThread : PyStep(p))
  BY <1>0, <1>2, ExecutorsKeepMemory
<1>3. CASE ScannerStep \/ ScannerFailure
  BY <1>0, <1>3, SameProcesses DEF ScannerStep, Scan, TimeoutStale, ScannerFailure, AbandonScan,
     TimeoutStaleFails, StaleAttempts
<1>4. CASE Requeue \/ OperatorStep \/ Clock \/ UNCHANGED allVars
  BY <1>0, <1>4, SameProcesses DEF Requeue, OperatorStep, Clock, allVars, memory
<1> QED
  BY <1>1, <1>2, <1>3, <1>4 DEF EngineNext

\* What the engine remembers is consistent with the rows in every state.
THEOREM EngineInvariant == EngineSpec => [](RowsInv /\ MemoryInv)
<1>1. RowsInv /\ MemoryInv /\ [EngineNext]_allVars => (RowsInv /\ MemoryInv)'
  <2> SUFFICES ASSUME RowsInv, MemoryInv, [EngineNext]_allVars
               PROVE  RowsInv' /\ MemoryInv'
    OBVIOUS
  <2>1. [Next]_vars
    BY EngineStepIsStoreStep
  <2>2. MemoryInv'
    BY StepMemory DEF RowsInv
  <2>3. RowsInv'
    BY <2>1, StepRows
  <2> QED
    BY <2>2, <2>3
<1>2. EngineInit => RowsInv /\ MemoryInv
  BY InitRows, InitMemory DEF EngineInit
<1> QED
  BY <1>1, <1>2, PTL DEF EngineSpec

\* Pool, scanner, Python workers, operators, restarts and lost messages move
\* the rows by transactions of Store only.
THEOREM EngineImplementsStore == EngineSpec => ImplementsStore
<1>1. EngineInit => Init
  BY DEF EngineInit
<1>2. MemoryInv /\ [EngineNext]_allVars => [Next]_vars
  BY EngineStepIsStoreStep
<1>3. RowsInv /\ MemoryInv => MemoryInv
  OBVIOUS
<1> QED
  BY <1>1, <1>2, <1>3, EngineInvariant, PTL DEF EngineSpec, ImplementsStore, Spec

-----------------------------------------------------------------------------
(* No attempt of the pool is forgotten.                                    *)

\* Attempts end and heartbeat; none starts running, none changes hands.
NoneStarts ==
  \A b \in AttemptID : attempts'[b].status = "running" =>
    attempts[b].status = "running" /\ attempts'[b].worker = attempts[b].worker

LEMMA OutcomeStartsNone ==
  ASSUME TypeOK, NEW a \in AttemptID,
         SucceedAttempt(a) \/ FailAttempt(a) \/ CancelAttempt(a) \/ TimeoutAttempt(a)
  PROVE  NoneStarts /\ attempts'[a].status # "running"
<1>1. PICK o \in {"succeeded", "failed", "cancelled"} :
        attempts' = [attempts EXCEPT ![a] = [attempts[a] EXCEPT !.status = o, !.idle = 0]]
  BY DEF SucceedAttempt, FailAttempt, CancelAttempt, TimeoutAttempt, Finish
<1>2. attempts \in [AttemptID -> Attempt] /\ attempts[a] \in Attempt
  BY DEF TypeOK
<1>3. attempts'[a].status = o
  BY <1>1, <1>2 DEF Attempt
<1>4. \A b \in AttemptID \ {a} : attempts'[b] = attempts[b]
  BY <1>1, <1>2
<1> QED
  BY <1>3, <1>4 DEF NoneStarts

LEMMA DeliverStartsNone ==
  ASSUME TypeOK, NEW e, exec[e].attempt \in AttemptID, Deliver(e)
  PROVE  NoneStarts /\ attempts'[exec[e].attempt].status # "running"
BY OutcomeStartsNone DEF Deliver, Conclude, NoneStarts, loadRunningAttempt, vars

LEMMA OtherStepsStartNone ==
  ASSUME TypeOK,
         \/ UNCHANGED attempts
         \/ Tick
         \/ \E a \in AttemptID : UpdateHeartbeat(a)
  PROVE  NoneStarts
<1>1. CASE UNCHANGED attempts
  BY <1>1 DEF NoneStarts
<1>2. CASE Tick
  BY <1>2 DEF Tick, NoneStarts, TypeOK, Attempt
<1>3. ASSUME NEW a \in AttemptID, UpdateHeartbeat(a) PROVE NoneStarts
  BY <1>3 DEF UpdateHeartbeat, NoneStarts, TypeOK, Attempt
<1> QED
  BY <1>1, <1>2, <1>3

\* A claim starts one attempt, of the worker that claims.
LEMMA ClaimStartsOne ==
  ASSUME TypeOK, NEW t \in TaskID, NEW a \in AttemptID, NEW w,
         ClaimTask(t, a, w, PoolQueue, TaskType)
  PROVE  /\ \A b \in AttemptID \ {a} : attempts'[b] = attempts[b]
         /\ attempts'[a].worker = w
BY DEF ClaimTask, TypeOK

\* The pool goes on accounting for an attempt as long as its goroutines hold
\* what they held and nothing starts.
LEMMA StillAccounted ==
  ASSUME PoolAttemptAccounted, server # "down",
         poolWorker' = poolWorker, dropped \subseteq dropped',
         \A b \in LiveAttemptsOn(poolWorker)' :
           \/ HeldByPool(b)' \/ b \in dropped'
           \/ b \in LiveAttemptsOn(poolWorker) /\ (HeldByPool(b) => HeldByPool(b)')
  PROVE  PoolAttemptAccounted'
BY DEF PoolAttemptAccounted

LEMMA StartsNoneAccounted ==
  ASSUME PoolAttemptAccounted, server # "down", NoneStarts,
         poolWorker' = poolWorker, dropped \subseteq dropped',
         \A g \in GoSlot : exec'[g].attempt = exec[g].attempt
  PROVE  PoolAttemptAccounted'
<1>1. \A b : HeldByPool(b) => HeldByPool(b)'
  BY DEF HeldByPool
<1>2. \A b \in LiveAttemptsOn(poolWorker)' : b \in LiveAttemptsOn(poolWorker)
  BY DEF NoneStarts, LiveAttemptsOn
<1> QED
  BY <1>1, <1>2, StillAccounted

LEMMA GoKeepsAccount ==
  ASSUME TypeOK, MemoryInv, PoolAttemptAccounted, server # "down",
         NEW g \in GoSlot, GoStep(g)
  PROVE  PoolAttemptAccounted'
<1>0. /\ exec \in [Executor -> Activity] /\ g \in Executor
      /\ \A h \in GoSlot : h \in Executor
      /\ None \notin AttemptID
  BY EngineConstants DEF MemoryInv, Executor
<1>1. ASSUME NEW y, Becomes(g, y)
      PROVE  /\ exec'[g] = y
             /\ \A h \in GoSlot \ {g} : exec'[h] = exec[h]
  BY <1>0, <1>1 DEF Becomes
\* The attempt g held, if any, is no longer running or was dropped.
<1>2. ASSUME NEW y, Becomes(g, y), NoneStarts, poolWorker' = poolWorker,
             dropped \subseteq dropped',
             exec[g].attempt \in AttemptID =>
               \/ attempts'[exec[g].attempt].status # "running"
               \/ exec[g].attempt \in dropped'
      PROVE  PoolAttemptAccounted'
  <2>1. \A b \in LiveAttemptsOn(poolWorker)' :
          /\ b \in AttemptID /\ b \in LiveAttemptsOn(poolWorker)
          /\ attempts'[b].status = "running"
    BY <1>2 DEF LiveAttemptsOn, NoneStarts
  <2>2. ASSUME NEW b \in LiveAttemptsOn(poolWorker)', b \notin dropped'
        PROVE  HeldByPool(b) => HeldByPool(b)'
    <3>1. exec[g].attempt # b
      BY <1>2, <2>1, <2>2
    <3> QED
      BY <1>1, <1>2, <3>1 DEF HeldByPool
  <2> QED
    BY <1>2, <2>1, <2>2, StillAccounted
<1>3. CASE GoClaim(g)
  <2>1. PICK t \in TaskID, a \in AttemptID :
          /\ ClaimTask(t, a, poolWorker, PoolQueue, TaskType)
          /\ Becomes(g, [pc |-> "run", attempt |-> a])
    BY <1>3 DEF GoClaim, Claim
  <2>2. HeldByPool(a)'
    BY <1>1, <2>1 DEF HeldByPool
  <2>3. exec[g].attempt = None
    BY <1>0, <1>3, ActivityShape DEF GoClaim
  <2>4. ASSUME NEW b \in AttemptID \ {a}, b \in LiveAttemptsOn(poolWorker)'
        PROVE  b \in LiveAttemptsOn(poolWorker) /\ (HeldByPool(b) => HeldByPool(b)')
    <3>1. HeldByPool(b) => HeldByPool(b)'
      BY <1>0, <1>1, <2>1, <2>3 DEF HeldByPool
    <3>2. attempts'[b] = attempts[b] /\ poolWorker' = poolWorker
      BY <1>3, <2>1, ClaimStartsOne DEF GoClaim, Claim
    <3> QED
      BY <2>4, <3>1, <3>2 DEF LiveAttemptsOn
  <2>5. \A b \in LiveAttemptsOn(poolWorker)' : b \in AttemptID
    BY DEF LiveAttemptsOn
  <2> QED
    BY <1>3, <2>2, <2>4, <2>5, StillAccounted DEF GoClaim, Claim
<1>4. CASE GoClaimLost(g)
  <2>1. PICK t \in TaskID, a \in AttemptID :
          /\ ClaimTask(t, a, poolWorker, PoolQueue, TaskType)
          /\ dropped' = dropped \cup {a}
    BY <1>4 DEF GoClaimLost, LostClaim
  <2>2. exec[g].attempt = None /\ poolWorker' = poolWorker
    BY <1>0, <1>4, ActivityShape DEF GoClaimLost, LostClaim
  <2>3. ASSUME NEW b \in AttemptID \ {a}, b \in LiveAttemptsOn(poolWorker)'
        PROVE  b \in LiveAttemptsOn(poolWorker) /\ (HeldByPool(b) => HeldByPool(b)')
    <3>1. HeldByPool(b) => HeldByPool(b)'
      BY <1>0, <1>1, <1>4, <2>2 DEF HeldByPool, GoClaimLost, LostClaim
    <3>2. attempts'[b] = attempts[b]
      BY <2>1, ClaimStartsOne
    <3> QED
      BY <2>2, <2>3, <3>1, <3>2 DEF LiveAttemptsOn
  <2>4. \A b \in LiveAttemptsOn(poolWorker)' : b \in AttemptID
    BY DEF LiveAttemptsOn
  <2> QED
    BY <2>1, <2>2, <2>3, <2>4, StillAccounted
<1>5. CASE GoHeartbeat(g)
  <2>1. exec[g].attempt \in AttemptID
    BY <1>0, <1>5, ActivityShape DEF GoHeartbeat
  <2>2. NoneStarts
    BY <1>5, <2>1, OtherStepsStartNone DEF GoHeartbeat
  <2> QED
    BY <1>5, <2>2, StartsNoneAccounted DEF GoHeartbeat, memory
<1>6. CASE GoDecide(g)
  <2>1. PICK verdict \in Verdict : Becomes(g, [exec[g] EXCEPT !.pc = verdict])
    BY <1>6 DEF GoDecide
  <2>2. exec[g] \in [pc: {"run"} \cup Verdict, attempt: AttemptID]
    BY <1>0, <1>6 DEF GoDecide, Activity, Idle
  <2>3. \A h \in GoSlot : exec'[h].attempt = exec[h].attempt
    BY <1>1, <2>1, <2>2
  <2>4. NoneStarts
    BY <1>6, OtherStepsStartNone DEF GoDecide, vars
  <2> QED
    BY <1>6, <2>3, <2>4, StartsNoneAccounted DEF GoDecide
<1>7. CASE GoReport(g)
  <2>1. exec[g].attempt \in AttemptID
    BY <1>0, <1>7, ActivityShape DEF GoReport
  <2>2. NoneStarts /\ attempts'[exec[g].attempt].status # "running"
    BY <1>7, <2>1, DeliverStartsNone DEF GoReport
  <2> QED
    BY <1>2, <1>7, <2>2 DEF GoReport
<1>8. CASE GoReportFails(g)
  <2>1. NoneStarts
    BY <1>8, OtherStepsStartNone DEF GoReportFails, vars
  <2> QED
    BY <1>2, <1>8, <2>1 DEF GoReportFails
<1>9. CASE GoExit(g)
  <2>1. NoneStarts
    BY <1>9, OtherStepsStartNone DEF GoExit, vars
  <2>2. exec[g].attempt = None
    BY <1>0, <1>9, ActivityShape DEF GoExit
  <2> QED
    BY <1>0, <1>2, <1>9, <2>1, <2>2 DEF GoExit
<1> QED
  BY <1>3, <1>4, <1>5, <1>6, <1>7, <1>8, <1>9 DEF GoStep, GoEnd

LEMMA PyKeepsAccount ==
  ASSUME TypeOK, MemoryInv, PoolAttemptAccounted, server # "down",
         NEW p \in PyThread, PyStep(p)
  PROVE  PoolAttemptAccounted'
<1>0. exec \in [Executor -> Activity] /\ p \in Executor
  BY DEF MemoryInv, Executor
<1>1. /\ poolWorker' = poolWorker /\ dropped \subseteq dropped'
      /\ \A g \in GoSlot : exec'[g] = exec[g]
  <2>1. PICK y : Becomes(p, y)
    BY DEF PyStep, PyClaim, PyClaimLost, Claim, LostClaim, PyDecide, PyReport,
           PyReportFails, PyReportLost, PyGone
  <2>2. \A g \in GoSlot : exec'[g] = exec[g]
    BY <1>0, <2>1, EngineConstants DEF Becomes, Executor
  <2> QED
    BY <2>2 DEF PyStep, PyClaim, PyClaimLost, Claim, LostClaim, PyDecide, PyReport,
           PyReportFails, PyReportLost, PyGone
<1>2. CASE PyClaim(p) \/ PyClaimLost(p)
  <2>1. PICK t \in TaskID, a \in AttemptID : ClaimTask(t, a, pyWorker, PoolQueue, TaskType)
    BY <1>2 DEF PyClaim, PyClaimLost, Claim, LostClaim
  <2>2. \A b \in LiveAttemptsOn(poolWorker)' : b \in LiveAttemptsOn(poolWorker)
    BY <1>1, <2>1, ClaimStartsOne DEF LiveAttemptsOn, MemoryInv
  <2> QED
    BY <1>1, <2>2, StillAccounted DEF HeldByPool
<1>3. CASE PyReport(p) \/ PyReportLost(p)
  <2>1. exec[p].attempt \in AttemptID
    BY <1>0, <1>3, ActivityShape DEF PyReport, PyReportLost
  <2>2. NoneStarts
    BY <1>3, <2>1, DeliverStartsNone, OtherStepsStartNone DEF PyReport, PyReportLost, vars
  <2> QED
    BY <1>1, <2>2, StartsNoneAccounted
<1>4. CASE PyDecide(p) \/ PyReportFails(p) \/ PyGone(p)
  <2>1. NoneStarts
    BY <1>4, OtherStepsStartNone DEF PyDecide, PyReportFails, PyGone, vars
  <2> QED
    BY <1>1, <2>1, StartsNoneAccounted
<1> QED
  BY <1>2, <1>3, <1>4 DEF PyStep

LEMMA StepAccounted ==
  ASSUME TypeOK, MemoryInv, PoolAttemptAccounted, [EngineNext]_allVars
  PROVE  PoolAttemptAccounted'
<1>1. CASE server' = "down"
  BY <1>1 DEF PoolAttemptAccounted
<1>2. CASE Start
  <2>1. PICK w \in WorkerID : CreateWorker(w, GlobalLimit) /\ poolWorker' = w
    BY <1>2 DEF Start
  <2>2. LiveAttemptsOn(poolWorker)' = {}
    BY <2>1 DEF CreateWorker, FreshWorker, LiveAttemptsOn
  <2> QED
    BY <2>2 DEF PoolAttemptAccounted
<1>3. ASSUME ~Start, server' # "down", ~UNCHANGED allVars, [EngineNext]_allVars
      PROVE  server # "down"
  <2>1. CASE ServerStep
    BY <1>3, <2>1 DEF ServerStep, Stop, Stopped, Crash
  <2>2. ASSUME NEW g \in GoSlot, GoStep(g) PROVE server' = server
    BY <2>2 DEF GoStep, GoEnd, GoClaim, GoClaimLost, GoHeartbeat, GoDecide, GoReport,
       GoReportFails, GoExit, Claim, LostClaim, memory
  <2>3. ASSUME NEW p \in PyThread, PyStep(p) PROVE server' = server
    BY <2>3 DEF PyStep, PyClaim, PyClaimLost, Claim, LostClaim, PyDecide, PyReport,
       PyReportFails, PyReportLost, PyGone
  <2>4. CASE ScannerStep \/ ScannerFailure \/ Requeue \/ PyRegister \/ OperatorStep \/ Clock
    BY <1>3, <2>4 DEF ScannerStep, Scan, TimeoutStale, ScannerFailure, AbandonScan,
       TimeoutStaleFails, Requeue, PyRegister,
       OperatorStep, Clock, memory
  <2> QED
    BY <1>3, <2>1, <2>2, <2>3, <2>4 DEF EngineNext
<1>4. CASE server # "down" /\ ((\E g \in GoSlot : GoStep(g)) \/ (\E p \in PyThread : PyStep(p)))
  BY <1>4, GoKeepsAccount, PyKeepsAccount
<1>5. ASSUME server # "down", NoneStarts, UNCHANGED <<poolWorker, dropped, exec>>
      PROVE  PoolAttemptAccounted'
  BY <1>5, StartsNoneAccounted
<1>6. CASE server # "down" /\ ScannerStep
  <2>1. CASE Scan
    BY <1>5, <1>6, <2>1, OtherStepsStartNone DEF Scan, vars
  <2>2. ASSUME NEW a \in stale, TimeoutStale(a) PROVE PoolAttemptAccounted'
    <3>1. NoneStarts
      BY <2>2, OutcomeStartsNone, OtherStepsStartNone DEF TimeoutStale, MemoryInv, vars
    <3> QED
      BY <1>5, <1>6, <2>2, <3>1 DEF TimeoutStale
  <2> QED
    BY <1>6, <2>1, <2>2 DEF ScannerStep
<1>7. CASE server # "down" /\ (ScannerFailure \/ Requeue \/ PyRegister \/ OperatorStep \/ Clock)
  <2>1. UNCHANGED attempts \/ Tick
    BY <1>7 DEF ScannerFailure, AbandonScan, TimeoutStaleFails, Requeue, PyRegister,
       OperatorStep, Clock, vars, RequeueRetrying,
       CreateWorker, CreateAnyTask, CreateTask, RestartAnyTask, RestartTask, HaltTask,
       ResumeTask, CancelTask, RetryTask, Control
  <2>2. NoneStarts
    BY <2>1, OtherStepsStartNone
  <2> QED
    BY <1>5, <1>7, <2>2 DEF ScannerFailure, AbandonScan, TimeoutStaleFails, Requeue,
       PyRegister, OperatorStep, Clock, memory
<1>8. CASE server # "down" /\ UNCHANGED allVars
  <2>1. NoneStarts
    BY <1>8, OtherStepsStartNone DEF allVars, vars
  <2> QED
    BY <1>5, <1>8, <2>1 DEF allVars, memory
<1>9. CASE server # "down" /\ (Stop \/ Stopped \/ Crash)
  <2>1. CASE Stop
    <3>1. NoneStarts
      BY <2>1, OtherStepsStartNone DEF Stop, vars
    <3> QED
      BY <1>5, <1>9, <2>1, <3>1 DEF Stop
  <2> QED
    BY <1>1, <1>9, <2>1 DEF Stopped, Crash
<1>10. CASE UNCHANGED allVars
  BY <1>1, <1>8, <1>10 DEF allVars, memory
<1>11. CASE EngineNext /\ server # "down"
  BY <1>2, <1>4, <1>6, <1>7, <1>9, <1>11 DEF EngineNext, ServerStep
<1> QED
  BY <1>1, <1>2, <1>3, <1>10, <1>11

\* No attempt of a pool that is up is forgotten, however large the pool.
THEOREM PoolAccounting == EngineSpec => []PoolAttemptAccounted
<1>1. EngineInit => PoolAttemptAccounted
  BY DEF EngineInit, PoolAttemptAccounted
<1>2. /\ RowsInv /\ MemoryInv
      /\ PoolAttemptAccounted /\ [EngineNext]_allVars
      => PoolAttemptAccounted'
  BY StepAccounted DEF RowsInv
<1> QED
  BY <1>1, <1>2, EngineInvariant, PTL DEF EngineSpec

\* ClaimTask never looks at a worker's concurrency.  The goroutines of the pool
\* keep it all the same: the attempts the rows give to the pool are at most its
\* concurrency, not counting those it has lost track of.
THEOREM PoolWithinConcurrency ==
  EngineSpec => [](server # "down" =>
                     Cardinality(LiveAttemptsOn(poolWorker) \ dropped) <= GlobalLimit)
<1> DEFINE held == {exec[g].attempt : g \in GoSlot}
           mine == LiveAttemptsOn(poolWorker) \ dropped
<1>1. ASSUME PoolAttemptAccounted, server # "down" PROVE Cardinality(mine) <= GlobalLimit
  <2> DEFINE holds == [g \in GoSlot |-> exec[g].attempt]
  <2>1. holds \in Surjection(GoSlot, held)
    BY DEF Surjection
  <2> HIDE DEF holds, held
  <2>2. IsFiniteSet(held) /\ Cardinality(held) <= GlobalLimit
    BY <2>1, EngineConstants, FS_Surjection
  <2>3. mine \subseteq held
    BY <1>1 DEF PoolAttemptAccounted, HeldByPool, held
  <2>4. Cardinality(mine) <= Cardinality(held) /\ Cardinality(mine) \in Nat
    BY <2>2, <2>3, FS_Subset, FS_CardinalityType
  <2> QED
    BY <2>2, <2>4, FS_CardinalityType, Limits
<1>2. PoolAttemptAccounted => (server # "down" => Cardinality(mine) <= GlobalLimit)
  BY <1>1
<1> QED
  BY <1>2, PoolAccounting, PTL

\* The rest of the types of what the engine remembers.
PoolTypes == poolWorker \in WorkerID \cup {None} /\ dropped \subseteq AttemptID

LEMMA StepPoolTypes ==
  ASSUME MemoryInv, PoolTypes, [EngineNext]_allVars
  PROVE  PoolTypes'
<1> USE DEF PoolTypes
<1>1. CASE ServerStep
  BY <1>1 DEF ServerStep, Start, Stop, Stopped, Crash
<1>2. ASSUME NEW g \in GoSlot, GoStep(g) PROVE PoolTypes'
  <2>1. exec[g].pc \in Verdict => exec[g].attempt \in AttemptID
    BY ActivityShape DEF Executor, MemoryInv
  <2>2. CASE GoClaim(g) \/ GoHeartbeat(g) \/ GoDecide(g) \/ GoReport(g) \/ GoExit(g)
    BY <2>2 DEF GoClaim, Claim, GoHeartbeat, GoDecide, GoReport, GoExit, memory
  <2>3. CASE GoClaimLost(g) \/ GoReportFails(g)
    BY <2>1, <2>3 DEF GoClaimLost, LostClaim, GoReportFails
  <2> QED
    BY <1>2, <2>2, <2>3 DEF GoStep, GoEnd
<1>3. ASSUME NEW p \in PyThread, PyStep(p) PROVE PoolTypes'
  <2>1. exec[p].pc \in Verdict => exec[p].attempt \in AttemptID
    BY ActivityShape DEF Executor, MemoryInv
  <2>2. CASE PyClaim(p) \/ PyDecide(p) \/ PyGone(p) \/ PyReport(p)
    BY <2>2 DEF PyClaim, Claim, PyDecide, PyGone, PyReport
  <2>3. CASE PyClaimLost(p) \/ PyReportFails(p) \/ PyReportLost(p)
    BY <2>1, <2>3 DEF PyClaimLost, LostClaim, PyReportFails, PyReportLost
  <2> QED
    BY <1>3, <2>2, <2>3 DEF PyStep
<1>4. CASE ScannerStep \/ ScannerFailure \/ Requeue \/ PyRegister \/ OperatorStep \/ Clock
  BY <1>4 DEF ScannerStep, Scan, TimeoutStale, ScannerFailure, AbandonScan,
       TimeoutStaleFails, Requeue, PyRegister,
     OperatorStep, Clock, memory
<1>5. CASE UNCHANGED allVars
  BY <1>5 DEF allVars, memory
<1> QED
  BY <1>1, <1>2, <1>3, <1>4, <1>5 DEF EngineNext

\* What goroutines, threads, scanner and server remember is well-formed: in
\* particular whoever reports holds an attempt.
THEOREM EngineTypeCorrect == EngineSpec => []EngineTypeOK
<1>1. EngineInit => PoolTypes
  BY DEF EngineInit, PoolTypes
<1>2. RowsInv /\ MemoryInv /\ PoolTypes /\ [EngineNext]_allVars => PoolTypes'
  BY StepPoolTypes
<1>3. MemoryInv /\ PoolTypes => EngineTypeOK
  BY DEF MemoryInv, PoolTypes, EngineTypeOK, Registered
<1> QED
  BY <1>1, <1>2, <1>3, EngineInvariant, PTL DEF EngineSpec

-----------------------------------------------------------------------------
(* Orphans stay orphans.                                                   *)

\* The attempt ends, or looks no younger than before.
Ages(b) ==
  attempts'[b].status # "running" \/ attempts'[b].idle >= attempts[b].idle

LEMMA IdleIsNumber ==
  ASSUME TypeOK, NEW b \in AttemptID PROVE attempts[b].idle \in Nat
<1>1. attempts[b] \in Attempt
  BY DEF TypeOK
<1> QED
  BY <1>1, Times DEF Attempt

LEMMA OutcomeAges ==
  ASSUME TypeOK, NEW a \in AttemptID, NEW b \in AttemptID,
         SucceedAttempt(a) \/ FailAttempt(a) \/ CancelAttempt(a) \/ TimeoutAttempt(a)
  PROVE  Ages(b)
<1>1. CASE b = a
  BY <1>1, OutcomeStartsNone DEF Ages
<1>2. CASE b # a
  <2>1. attempts'[b] = attempts[b]
    BY <1>2 DEF SucceedAttempt, FailAttempt, CancelAttempt, TimeoutAttempt, Finish, TypeOK
  <2> QED
    BY <2>1, IdleIsNumber DEF Ages
<1> QED
  BY <1>1, <1>2

LEMMA DeliverAges ==
  ASSUME TypeOK, NEW e, exec[e].attempt \in AttemptID, NEW b \in AttemptID, Deliver(e)
  PROVE  Ages(b)
<1>1. CASE UNCHANGED vars
  BY <1>1, IdleIsNumber DEF vars, Ages
<1> QED
  BY <1>1, OutcomeAges DEF Deliver, Conclude

\* A claim, or a heartbeat for another attempt, does not touch this one.
LEMMA OthersAge ==
  ASSUME TypeOK, NEW b \in AttemptID, attempts[b].status = "running",
         \/ UNCHANGED attempts
         \/ Tick
         \/ \E a \in AttemptID \ {b} : UpdateHeartbeat(a)
         \/ \E t \in TaskID, a \in AttemptID : \E w : ClaimTask(t, a, w, PoolQueue, TaskType)
  PROVE  Ages(b)
<1>1. attempts[b].idle \in Nat /\ attempts[b] \in Attempt
  BY IdleIsNumber DEF TypeOK
<1>2. CASE Tick
  <2>1. attempts'[b] = attempts[b] \/ attempts'[b] = [attempts[b] EXCEPT !.idle = @ + 1]
    BY <1>2 DEF Tick
  <2>2. attempts'[b].idle = attempts[b].idle \/ attempts'[b].idle = attempts[b].idle + 1
    BY <1>1, <2>1 DEF Attempt
  <2> QED
    BY <1>1, <2>2 DEF Ages
<1>3. ASSUME ~Tick PROVE attempts'[b] = attempts[b]
  BY <1>3 DEF UpdateHeartbeat, ClaimTask, FreshAttempt, TypeOK
<1> QED
  BY <1>1, <1>2, <1>3 DEF Ages

\* An executor that takes up something else leaves the attempt unheld.
LEMMA StaysUnheld ==
  ASSUME MemoryInv, NEW e \in Executor, NEW y, Becomes(e, y),
         NEW b, ~HeldByPool(b), e \in GoSlot => y.attempt # b
  PROVE  ~HeldByPool(b)'
<1>1. /\ exec'[e] = y
      /\ \A g \in GoSlot \ {e} : exec'[g] = exec[g]
  BY DEF Becomes, MemoryInv, Executor
<1> QED
  BY <1>1 DEF HeldByPool

LEMMA GoLeavesOrphan ==
  ASSUME TypeOK, MemoryInv, NEW b \in AttemptID, attempts[b].status = "running",
         ~HeldByPool(b), NEW g \in GoSlot, GoStep(g)
  PROVE  Ages(b) /\ ~HeldByPool(b)'
<1>0. /\ g \in Executor /\ exec \in [Executor -> Activity]
      /\ None \notin AttemptID /\ exec[g].attempt # b
  BY EngineConstants DEF MemoryInv, Executor, HeldByPool
<1>1. CASE GoClaim(g)
  <2>1. PICK t \in TaskID, a \in AttemptID :
          /\ ClaimTask(t, a, poolWorker, PoolQueue, TaskType)
          /\ Becomes(g, [pc |-> "run", attempt |-> a])
    BY <1>1 DEF GoClaim, Claim
  <2>2. a # b
    BY <2>1 DEF ClaimTask, FreshAttempt
  <2> QED
    BY <1>0, <2>1, <2>2, OthersAge, StaysUnheld
<1>2. CASE GoClaimLost(g)
  <2>1. Becomes(g, Idle("gone")) /\ Idle("gone").attempt # b
    BY <1>0, <1>2 DEF GoClaimLost, LostClaim, Idle
  <2> QED
    BY <1>0, <1>2, <2>1, OthersAge, StaysUnheld DEF GoClaimLost, LostClaim
<1>3. CASE GoHeartbeat(g)
  <2>1. exec[g].attempt \in AttemptID \ {b}
    BY <1>0, <1>3, ActivityShape DEF GoHeartbeat
  <2> QED
    BY <1>3, <2>1, OthersAge DEF GoHeartbeat, memory, HeldByPool
<1>4. CASE GoDecide(g)
  <2>1. PICK verdict \in Verdict : Becomes(g, [exec[g] EXCEPT !.pc = verdict])
    BY <1>4 DEF GoDecide
  <2>2. exec[g] \in [pc: {"run"} \cup Verdict, attempt: AttemptID]
    BY <1>0, <1>4 DEF GoDecide, Activity, Idle
  <2>3. [exec[g] EXCEPT !.pc = verdict].attempt # b
    BY <1>0, <2>2
  <2> QED
    BY <1>0, <1>4, <2>1, <2>3, OthersAge, StaysUnheld DEF GoDecide, vars
<1>5. CASE GoReport(g) \/ GoReportFails(g) \/ GoExit(g)
  <2>1. PICK pc \in {"poll", "gone"} : Becomes(g, Idle(pc))
    BY <1>5 DEF GoReport, GoReportFails, GoExit, AfterReport
  <2>2. ~HeldByPool(b)'
    BY <1>0, <2>1, StaysUnheld DEF Idle
  <2>3. GoReport(g) => Ages(b)
    BY <1>0, ActivityShape, DeliverAges DEF GoReport
  <2> QED
    BY <1>5, <2>2, <2>3, OthersAge DEF GoReportFails, GoExit, vars
<1> QED
  BY <1>1, <1>2, <1>3, <1>4, <1>5 DEF GoStep, GoEnd

LEMMA PyLeavesOrphan ==
  ASSUME TypeOK, MemoryInv, NEW b \in AttemptID, attempts[b].status = "running",
         ~HeldByPool(b), NEW p \in PyThread, PyStep(p)
  PROVE  Ages(b) /\ ~HeldByPool(b)'
<1>0. p \in Executor /\ exec \in [Executor -> Activity] /\ p \notin GoSlot
  BY EngineConstants DEF MemoryInv, Executor
<1>1. ~HeldByPool(b)'
  <2>1. PICK y : Becomes(p, y)
    BY DEF PyStep, PyClaim, PyClaimLost, Claim, LostClaim, PyDecide, PyReport,
           PyReportFails, PyReportLost, PyGone
  <2> QED
    BY <1>0, <2>1, StaysUnheld
<1>2. CASE PyClaim(p) \/ PyClaimLost(p)
  BY <1>1, <1>2, OthersAge DEF PyClaim, PyClaimLost, Claim, LostClaim
<1>3. CASE PyReport(p) \/ PyReportLost(p)
  <2>1. exec[p].attempt \in AttemptID
    BY <1>0, <1>3, ActivityShape DEF PyReport, PyReportLost
  <2> QED
    BY <1>1, <1>3, <2>1, DeliverAges, OthersAge DEF PyReport, PyReportLost, vars
<1>4. CASE PyDecide(p) \/ PyReportFails(p) \/ PyGone(p)
  BY <1>1, <1>4, OthersAge DEF PyDecide, PyReportFails, PyGone, vars
<1> QED
  BY <1>2, <1>3, <1>4 DEF PyStep

LEMMA StepOrphansAge ==
  ASSUME TypeOK, MemoryInv, [EngineNext]_allVars,
         NEW b \in AttemptID, attempts[b].status = "running", ~HeldByPool(b)
  PROVE  Ages(b) /\ ~HeldByPool(b)'
<1>0. exec \in [Executor -> Activity] /\ GoSlot \subseteq Executor /\ None # b
  BY EngineConstants DEF MemoryInv, Executor
<1>1. CASE ServerStep \/ PyRegister
  <2>1. Ages(b)
    BY <1>1, OthersAge
       DEF ServerStep, Start, Stop, Stopped, Crash, PyRegister, CreateWorker, vars
  <2>2. \A g \in GoSlot : exec'[g].attempt \in {exec[g].attempt, None}
    BY <1>0, <1>1 DEF ServerStep, Start, Stop, Stopped, Crash, PyRegister, Idle
  <2> QED
    BY <1>0, <2>1, <2>2 DEF HeldByPool
<1>2. CASE (\E g \in GoSlot : GoStep(g)) \/ (\E p \in PyThread : PyStep(p))
  BY <1>2, GoLeavesOrphan, PyLeavesOrphan
<1>3. CASE ScannerStep
  <2>1. CASE Scan
    BY <2>1, OthersAge DEF Scan, HeldByPool, vars
  <2>2. ASSUME NEW a \in stale, TimeoutStale(a) PROVE Ages(b) /\ ~HeldByPool(b)'
    BY <2>2, OutcomeAges, OthersAge DEF TimeoutStale, MemoryInv, HeldByPool, vars
  <2> QED
    BY <1>3, <2>1, <2>2 DEF ScannerStep
<1>4. CASE ScannerFailure \/ Requeue \/ OperatorStep \/ Clock \/ UNCHANGED allVars
  <2>1. exec' = exec
    BY <1>4 DEF ScannerFailure, AbandonScan, TimeoutStaleFails, Requeue,
       OperatorStep, Clock, allVars, memory
  <2>2. UNCHANGED attempts \/ Tick
    BY <1>4 DEF ScannerFailure, AbandonScan, TimeoutStaleFails, Requeue,
       OperatorStep, Clock, allVars, vars, RequeueRetrying,
       CreateAnyTask, CreateTask, RestartAnyTask, RestartTask, HaltTask, ResumeTask,
       CancelTask, RetryTask, Control
  <2> QED
    BY <2>1, <2>2, OthersAge DEF HeldByPool
<1> QED
  BY <1>1, <1>2, <1>3, <1>4 DEF EngineNext

\* What the pool has let go of it never takes up again, and nobody else keeps
\* it from growing stale.
THEOREM OrphansOnlyAge == EngineSpec => OrphansAge
<1>1. RowsInv /\ MemoryInv /\ [EngineNext]_allVars =>
        [\A a \in AttemptID :
           attempts[a].status = "running" /\ ~HeldByPool(a) =>
             \/ attempts'[a].status # "running"
             \/ ~HeldByPool(a)' /\ attempts'[a].idle >= attempts[a].idle]_allVars
  BY StepOrphansAge DEF RowsInv, Ages
<1> QED
  BY <1>1, EngineInvariant, PTL DEF EngineSpec, OrphansAge

-----------------------------------------------------------------------------
(* Claims hand out every attempt once.                                     *)

HolderWorker(e) == IF e \in GoSlot THEN poolWorker ELSE pyWorker

\* No two goroutines or threads, of the pool or of a Python worker, run and
\* report the same attempt.
SoleHolder ==
  \A e, f \in Executor :
    exec[e].attempt # None /\ exec[e].attempt = exec[f].attempt => e = f

\* Each of them heartbeats and reports an attempt the rows give to its own worker.
HoldersOwn ==
  \A e \in Executor :
    exec[e].attempt # None => /\ attempts[exec[e].attempt].status # "absent"
                              /\ attempts[exec[e].attempt].worker = HolderWorker(e)

HoldersInv == SoleHolder /\ HoldersOwn

\* Attempts that exist go on existing, with the same worker.
LEMMA WorkerOfAttemptStays ==
  ASSUME RowsInv, [Next]_vars, NEW a \in AttemptID, attempts[a].status # "absent"
  PROVE  attempts'[a].status # "absent" /\ attempts'[a].worker = attempts[a].worker
<1>1. CASE UNCHANGED vars
  BY <1>1 DEF vars
<1>2. CASE Next /\ ~ClaimAnyTask
  BY <1>2, OnlyClaimsAddAttempts DEF SameIdentity
<1>3. CASE ClaimAnyTask
  <2>1. PICK b \in AttemptID : FreshAttempt(b) /\ \E row : attempts' = [attempts EXCEPT ![b] = row]
    BY <1>3 DEF ClaimAnyTask, ClaimTask
  <2>2. attempts'[a] = attempts[a]
    BY <2>1 DEF FreshAttempt
  <2> QED
    BY <2>2
<1> QED
  BY <1>1, <1>2, <1>3

\* An executor that holds something held it before.
StillHolds(e) == exec'[e].attempt \in {exec[e].attempt, None}

LEMMA KeepersKeepHolders ==
  ASSUME RowsInv, MemoryInv, HoldersInv, [Next]_vars,
         \A e \in Executor : StillHolds(e),
         \A e \in Executor : exec'[e].attempt # None => HolderWorker(e)' = HolderWorker(e)
  PROVE  HoldersInv'
<1>1. SoleHolder'
  BY DEF HoldersInv, SoleHolder, StillHolds
<1>2. ASSUME NEW e \in Executor, exec'[e].attempt # None
      PROVE  /\ attempts'[exec'[e].attempt].status # "absent"
             /\ attempts'[exec'[e].attempt].worker = HolderWorker(e)'
  <2>1. exec'[e].attempt = exec[e].attempt /\ exec[e].attempt # None
    BY <1>2 DEF StillHolds
  <2>2. exec[e].attempt \in AttemptID
    BY <2>1, ActivityShape DEF MemoryInv
  <2>3. /\ attempts[exec[e].attempt].status # "absent"
        /\ attempts[exec[e].attempt].worker = HolderWorker(e)
    BY <2>1 DEF HoldersInv, HoldersOwn
  <2> QED
    BY <1>2, <2>1, <2>2, <2>3, WorkerOfAttemptStays
<1> QED
  BY <1>1, <1>2 DEF HoldersInv, HoldersOwn

\* A new attempt is nobody else's.
LEMMA ClaimKeepsHolders ==
  ASSUME RowsInv, MemoryInv, HoldersInv, [Next]_vars, NEW e \in Executor,
         Claim(e, HolderWorker(e)), UNCHANGED <<poolWorker, pyWorker>>
  PROVE  HoldersInv'
<1>1. PICK t \in TaskID, a \in AttemptID :
        /\ ClaimTask(t, a, HolderWorker(e), PoolQueue, TaskType)
        /\ Becomes(e, [pc |-> "run", attempt |-> a])
  BY DEF Claim
<1>2. FreshAttempt(a) /\ attempts'[a].status = "running" /\ attempts'[a].worker = HolderWorker(e)
  BY <1>1 DEF ClaimTask, RowsInv, TypeOK
<1>3. exec'[e].attempt = a /\ \A f \in Executor \ {e} : exec'[f] = exec[f]
  BY <1>1 DEF Becomes, MemoryInv
<1>4. \A f \in Executor : exec[f].attempt # None => exec[f].attempt \in AttemptID \ {a}
  BY <1>2, ActivityShape DEF MemoryInv, HoldersInv, HoldersOwn, FreshAttempt
<1>5. SoleHolder'
  <2> SUFFICES ASSUME NEW f \in Executor, NEW g \in Executor,
                      exec'[f].attempt # None, exec'[f].attempt = exec'[g].attempt
               PROVE  f = g
    BY DEF SoleHolder
  <2>1. CASE f # e /\ g # e
    BY <1>3, <2>1 DEF HoldersInv, SoleHolder
  <2>2. CASE f = e \/ g = e
    BY <1>3, <1>4, <2>2
  <2> QED
    BY <2>1, <2>2
<1>6. ASSUME NEW f \in Executor \ {e}, exec'[f].attempt # None
      PROVE  /\ attempts'[exec'[f].attempt].status # "absent"
             /\ attempts'[exec'[f].attempt].worker = HolderWorker(f)
  <2>1. /\ exec[f].attempt \in AttemptID
        /\ attempts[exec[f].attempt].status # "absent"
        /\ attempts[exec[f].attempt].worker = HolderWorker(f)
    BY <1>3, <1>4, <1>6 DEF HoldersInv, HoldersOwn
  <2> QED
    BY <1>3, <1>6, <2>1, WorkerOfAttemptStays
<1>7. \A f : HolderWorker(f)' = HolderWorker(f)
  BY DEF HolderWorker
<1> QED
  BY <1>2, <1>3, <1>5, <1>6, <1>7 DEF HoldersInv, HoldersOwn

LEMMA StepHolders ==
  ASSUME RowsInv, MemoryInv, HoldersInv, [EngineNext]_allVars
  PROVE  HoldersInv'
<1>0. /\ [Next]_vars /\ exec \in [Executor -> Activity]
      /\ GoSlot \subseteq Executor /\ PyThread \subseteq Executor
      /\ \A p \in PyThread : p \notin GoSlot
  BY EngineStepIsStoreStep, EngineConstants DEF MemoryInv, Executor
<1>1. ASSUME UNCHANGED <<exec, poolWorker, pyWorker>> PROVE HoldersInv'
  BY <1>0, <1>1, KeepersKeepHolders DEF StillHolds, HolderWorker
<1>2. ASSUME NEW e \in Executor, NEW y, Becomes(e, y), UNCHANGED <<poolWorker, pyWorker>>,
             y.attempt \in {exec[e].attempt, None}
      PROVE  HoldersInv'
  <2>1. \A f \in Executor : StillHolds(f)
    BY <1>0, <1>2 DEF Becomes, StillHolds
  <2> QED
    BY <1>0, <1>2, <2>1, KeepersKeepHolders DEF HolderWorker
<1>3. Idle("poll").attempt = None /\ Idle("gone").attempt = None
  BY DEF Idle
<1>4. ASSUME NEW e \in Executor, NEW verdict
      PROVE  [exec[e] EXCEPT !.pc = verdict].attempt = exec[e].attempt
  BY <1>0 DEF Activity, Idle
<1>5. CASE Start
  <2>1. ASSUME NEW e \in Executor
        PROVE  StillHolds(e) /\ (exec'[e].attempt # None => HolderWorker(e)' = HolderWorker(e))
    BY <1>0, <1>3, <1>5, <2>1 DEF Start, StillHolds, HolderWorker
  <2> QED
    BY <1>0, <2>1, KeepersKeepHolders
<1>6. CASE Crash
  <2>1. \A e \in Executor : StillHolds(e)
    BY <1>0, <1>3, <1>6 DEF Crash, StillHolds
  <2> QED
    BY <1>0, <1>6, <2>1, KeepersKeepHolders DEF Crash, HolderWorker
<1>7. CASE PyRegister
  <2>1. \A e \in Executor : StillHolds(e)
    BY <1>7 DEF PyRegister, StillHolds
  <2>2. ASSUME NEW e \in Executor, exec'[e].attempt # None
        PROVE  HolderWorker(e)' = HolderWorker(e)
    <3>1. CASE e \in GoSlot
      BY <1>7, <3>1 DEF PyRegister, HolderWorker
    <3>2. CASE e \notin GoSlot
      <4>1. exec[e].attempt \in AttemptID /\ attempts[exec[e].attempt].status # "absent"
            /\ attempts[exec[e].attempt].worker = None
        BY <1>0, <1>7, <2>2, <3>2, ActivityShape DEF PyRegister, HoldersInv, HoldersOwn, HolderWorker
      <4> QED
        BY <4>1, EngineConstants DEF RowsInv, AttemptRows
    <3> QED
      BY <3>1, <3>2
  <2> QED
    BY <1>0, <2>1, <2>2, KeepersKeepHolders
<1>8. ASSUME NEW g \in GoSlot, GoStep(g) PROVE HoldersInv'
  <2>1. g \in Executor /\ HolderWorker(g) = poolWorker
    BY <1>0 DEF HolderWorker
  <2>2. CASE GoClaim(g)
    BY <1>0, <2>1, <2>2, ClaimKeepsHolders DEF GoClaim, Claim
  <2>3. CASE GoHeartbeat(g)
    BY <1>1, <2>3 DEF GoHeartbeat, memory
  <2>4. CASE GoDecide(g)
    BY <1>2, <1>4, <2>1, <2>4 DEF GoDecide
  <2>5. CASE GoEnd(g)
    BY <1>2, <1>3, <2>1, <2>5 DEF GoEnd, GoReport, GoReportFails, GoExit, GoClaimLost,
       LostClaim, AfterReport
  <2> QED
    BY <1>8, <2>2, <2>3, <2>4, <2>5 DEF GoStep
<1>9. ASSUME NEW p \in PyThread, PyStep(p) PROVE HoldersInv'
  <2>1. p \in Executor /\ HolderWorker(p) = pyWorker
    BY <1>0 DEF HolderWorker
  <2>2. CASE PyClaim(p)
    BY <1>0, <2>1, <2>2, ClaimKeepsHolders DEF PyClaim, Claim
  <2>3. CASE PyDecide(p)
    BY <1>2, <1>4, <2>1, <2>3 DEF PyDecide
  <2>4. CASE PyReportLost(p)
    BY <1>2, <1>3, <1>4, <2>1, <2>4 DEF PyReportLost
  <2>5. CASE PyClaimLost(p) \/ PyReport(p) \/ PyReportFails(p) \/ PyGone(p)
    BY <1>2, <1>3, <2>1, <2>5 DEF PyClaimLost, LostClaim, PyReport, PyReportFails, PyGone
  <2> QED
    BY <1>9, <2>2, <2>3, <2>4, <2>5 DEF PyStep
<1>10. CASE Stop \/ Stopped \/ ScannerStep \/ ScannerFailure
  BY <1>1, <1>10 DEF Stop, Stopped, ScannerStep, Scan, TimeoutStale, ScannerFailure, AbandonScan,
     TimeoutStaleFails
<1>11. CASE Requeue \/ OperatorStep \/ Clock \/ UNCHANGED allVars
  BY <1>1, <1>11 DEF Requeue, OperatorStep, Clock, memory, allVars
<1> QED
  BY <1>5, <1>6, <1>7, <1>8, <1>9, <1>10, <1>11 DEF EngineNext, ServerStep

\* Whatever is lost, retried, timed out, stopped or restarted, an attempt is
\* run and reported by one goroutine or thread, which works for the worker the
\* attempt's row names.
THEOREM AttemptsHaveOneHolder == EngineSpec => [](SoleHolder /\ HoldersOwn)
<1>1. EngineInit => HoldersInv
  <2>1. Idle("poll").attempt = None /\ Idle("gone").attempt = None
    BY DEF Idle
  <2> QED
    BY <2>1 DEF EngineInit, HoldersInv, SoleHolder, HoldersOwn
<1>2. RowsInv /\ MemoryInv /\ HoldersInv /\ [EngineNext]_allVars => HoldersInv'
  BY StepHolders
<1>3. HoldersInv => SoleHolder /\ HoldersOwn
  BY DEF HoldersInv
<1> QED
  BY <1>1, <1>2, <1>3, EngineInvariant, PTL DEF EngineSpec

-----------------------------------------------------------------------------
(* What the rows owe to the store alone, said of the running system.       *)

\* Pool goroutines, Python threads, scanner and operators, with stops, crashes
\* and lost or repeated reports among them, never make a worker's count drift,
\* a held task lose its attempt, a task run past its retries or over the limits.
THEOREM EngineKeepsTheRows ==
  EngineSpec => [](/\ WorkerCountMatches
                   /\ HeldTaskHasLiveAttempt
                   /\ RetryBudget
                   /\ RunningWithinLimits
                   /\ OutcomeBacked)
BY EngineImplementsStore, WorkerCountInvariant, HeldTaskInvariant, RetryBudgetInvariant,
   LimitsInvariant, OutcomeBackedInvariant, PTL DEF ImplementsStore

\* A report that was lost, came late or came twice, a timeout beside it and a
\* restart of the server leave a ledger of starts: what the process forgets
\* neither erases a start nor grants one.
THEOREM EngineImplementsLedger == EngineSpec => ImplementsTaskLedger
BY EngineImplementsStore, StoreImplementsLedger, PTL DEF ImplementsStore

\* Left alone by the operators, a task is started at most 1 + max_retries times
\* and never has two attempts whose rows are running, though claims and reports
\* are lost, workers die, the scanner times attempts out and the server restarts.
THEOREM UnattendedTasks ==
  ASSUME NEW t \in TaskID
  PROVE  EngineSpec /\ [][~HaltTask(t) /\ ~ResumeTask(t) /\ ~RetryTask(t)]_vars
           => []( /\ Cardinality(AttemptsOf(t)) <= WorthOf(tasks[t])
                  /\ ~Stray(t) )
<1>1. /\ Spec /\ [][~ResumeTask(t) /\ ~RetryTask(t)]_vars
           => [](Cardinality(AttemptsOf(t)) <= WorthOf(tasks[t]))
      /\ Spec /\ [][~HaltTask(t)]_vars => []~Stray(t)
  BY StartsWithinWorth, UnhaltedTasksRunOnce
<1>2. /\ [~HaltTask(t) /\ ~ResumeTask(t) /\ ~RetryTask(t)]_vars
           => [~ResumeTask(t) /\ ~RetryTask(t)]_vars
      /\ [~HaltTask(t) /\ ~ResumeTask(t) /\ ~RetryTask(t)]_vars => [~HaltTask(t)]_vars
  OBVIOUS
<1> QED
  BY <1>1, <1>2, EngineImplementsStore, PTL DEF ImplementsStore

=============================================================================
