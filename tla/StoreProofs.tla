---------------------------- MODULE StoreProofs ----------------------------
(***************************************************************************)
(* Theorems about Store, for all values of its constants.                  *)
(***************************************************************************)
EXTENDS Store, FiniteSetTheorems, TLAPS

\* An absent attempt belongs to no task and no worker; every other one to a
\* task whose row exists (rows are never deleted).
AttemptRows ==
  \A a \in AttemptID :
    IF attempts[a].status = "absent"
    THEN attempts[a].task = None /\ attempts[a].worker = None
    ELSE /\ attempts[a].task \in TaskID /\ ~FreshTask(attempts[a].task)
         /\ attempts[a].worker \in WorkerID

\* The rows are well formed: what the other invariants rest on.
RowsInv == TypeOK /\ AttemptRows /\ AttemptHistory

LEMMA MaxOfInterval ==
  ASSUME NEW n \in Nat, n > 0
  PROVE  Max(1..n) = n
<1>1. n \in 1..n /\ \A y \in 1..n : n >= y
  OBVIOUS
<1> QED
  BY <1>1 DEF Max

\* A task has finitely many attempts.
LEMMA AttemptsFinite ==
  ASSUME NEW t
  PROVE  IsFiniteSet(AttemptsOf(t)) /\ Cardinality(AttemptsOf(t)) \in Nat
<1>1. AttemptsOf(t) \subseteq AttemptID /\ IsFiniteSet(AttemptID)
  BY FiniteIDs DEF AttemptsOf
<1> QED
  BY <1>1, FS_Subset, FS_CardinalityType

\* The query for the previous attempt number counts the attempts.
LEMMA PrevAttemptNumCounts ==
  ASSUME AttemptHistory, NEW t \in TaskID
  PROVE  PrevAttemptNum(t) = Cardinality(AttemptsOf(t))
<1> DEFINE n == Cardinality(AttemptsOf(t))
<1>1. n \in Nat /\ IsFiniteSet(AttemptsOf(t)) /\ (n = 0 <=> AttemptsOf(t) = {})
  BY AttemptsFinite, FS_EmptySet
<1>2. {attempts[a].attempt_num : a \in AttemptsOf(t)} = 1..n
  BY DEF AttemptHistory
<1>3. CASE AttemptsOf(t) = {}
  BY <1>1, <1>3 DEF PrevAttemptNum
<1>4. CASE AttemptsOf(t) # {}
  <2>1. Max(1..n) = n
    BY <1>1, <1>4, MaxOfInterval
  <2> QED
    BY <1>2, <1>4, <2>1 DEF PrevAttemptNum
<1> QED
  BY <1>3, <1>4

LEMMA BackoffType ==
  ASSUME NEW k \in Nat
  PROVE  retryBackoff(k) \in Nat
BY Times DEF retryBackoff

LEMMA InitRows == Init => RowsInv
<1> SUFFICES ASSUME Init PROVE RowsInv
  OBVIOUS
<1>1. TypeOK
  BY Inputs, Times DEF Init, TypeOK, AbsentTask, AbsentAttempt, AbsentWorker, Task,
     Attempt, Worker, TaskStatus, AttemptStatus, TaskEventType
<1>2. AttemptRows
  BY DEF Init, AttemptRows, AbsentAttempt
<1>3. AttemptHistory
  <2> SUFFICES ASSUME NEW t \in TaskID
               PROVE  {attempts[a].attempt_num : a \in AttemptsOf(t)}
                        = 1..Cardinality(AttemptsOf(t))
    BY DEF AttemptHistory
  <2>1. AttemptsOf(t) = {}
    BY FiniteIDs DEF Init, AttemptsOf, AbsentAttempt
  <2> QED
    BY <2>1, FS_EmptySet
<1> QED
  BY <1>1, <1>2, <1>3 DEF RowsInv

\* The row updates the transactions make keep a row a row.
LEMMA WorkerUpdate ==
  ASSUME NEW r \in Worker, NEW n \in Int, NEW s \in {"idle", "busy"}
  PROVE  [r EXCEPT !.current_task_count = n, !.status = s] \in Worker
BY Zenon DEF Worker

LEMMA AttemptUpdate ==
  ASSUME NEW r \in Attempt, NEW s \in AttemptStatus, NEW i \in 0..HeartbeatCutoff
  PROVE  /\ [r EXCEPT !.idle = i] \in Attempt
         /\ [r EXCEPT !.status = s, !.idle = i] \in Attempt
BY Zenon DEF Attempt

LEMMA TaskUpdate ==
  ASSUME NEW r \in Task, NEW s \in TaskStatus, NEW k \in Nat, NEW d \in Nat
  PROVE  /\ [r EXCEPT !.status = s] \in Task
         /\ [r EXCEPT !.delay = d] \in Task
         /\ [r EXCEPT !.status = s, !.delay = d] \in Task
         /\ [r EXCEPT !.status = s, !.retry_count = k, !.delay = d] \in Task
<1>1. [r EXCEPT !.status = s] \in Task
  BY Zenon DEF Task
<1>2. [r EXCEPT !.delay = d] \in Task
  BY Zenon DEF Task
<1>3. [r EXCEPT !.status = s, !.delay = d] \in Task
  BY Zenon DEF Task
<1>4. [r EXCEPT !.status = s, !.retry_count = k, !.delay = d] \in Task
  BY Zenon DEF Task
<1> QED
  BY <1>1, <1>2, <1>3, <1>4

LEMMA ReplacementRow ==
  ASSUME NEW r \in Task, NEW c \in Stamp, NEW p \in TaskID
  PROVE  [r EXCEPT !.status = "queued", !.retry_count = 0, !.delay = 0,
                   !.created = c, !.parent = p] \in Task
<1>1. 0 \in Nat /\ "queued" \in TaskStatus \cup {"absent"} /\ p \in TaskID \cup {None}
  BY DEF TaskStatus
<1> QED
  BY <1>1, Zenon DEF Task

LEMMA OccupyType ==
  ASSUME TypeOK, NEW w \in WorkerID, Occupy(w)
  PROVE  workers' \in [WorkerID -> Worker]
<1> DEFINE n == workers[w].current_task_count + 1
           status == IF n >= workers[w].concurrency THEN "busy" ELSE "idle"
           row == [workers[w] EXCEPT !.current_task_count = n, !.status = status]
<1>1. workers[w] \in Worker /\ status \in {"idle", "busy"}
  BY DEF TypeOK
<1>2. n \in Int
  BY <1>1 DEF Worker
<1>3. row \in Worker
  BY <1>1, <1>2, WorkerUpdate
<1>4. workers' = workers \/ workers' = [workers EXCEPT ![w] = row]
  BY DEF Occupy
<1> QED
  BY <1>3, <1>4 DEF TypeOK

LEMMA ReleaseType ==
  ASSUME TypeOK, NEW w \in WorkerID, Release(w)
  PROVE  workers' \in [WorkerID -> Worker]
<1> DEFINE n == workers[w].current_task_count - 1
           status == IF n < workers[w].concurrency THEN "idle" ELSE "busy"
           row == [workers[w] EXCEPT !.current_task_count = n, !.status = status]
<1>1. workers[w] \in Worker /\ status \in {"idle", "busy"}
  BY DEF TypeOK
<1>2. n \in Int
  BY <1>1 DEF Worker
<1>3. row \in Worker
  BY <1>1, <1>2, WorkerUpdate
<1>4. workers' = workers \/ workers' = [workers EXCEPT ![w] = row]
  BY DEF Release
<1> QED
  BY <1>3, <1>4 DEF TypeOK

LEMMA StepTypeOK ==
  ASSUME RowsInv, Next
  PROVE  TypeOK'
<1> USE DEF RowsInv
<1>1. ASSUME NEW w \in WorkerID, NEW c \in Concurrency, CreateWorker(w, c)
      PROVE  TypeOK'
  BY <1>1, Inputs DEF CreateWorker, TypeOK, Worker
<1>2. ASSUME CreateAnyTask PROVE TypeOK'
  BY <1>2, Inputs DEF CreateAnyTask, CreateTask, TypeOK, Task, TaskStatus, TaskEventType
<1>3. ASSUME NEW t \in TaskID, NEW a \in AttemptID, NEW w \in WorkerID,
             NEW q \in Queue, NEW types \in SUBSET TaskType,
             ClaimTask(t, a, w, q, types)
      PROVE  TypeOK'
  <2>1. PrevAttemptNum(t) + 1 \in Nat
    BY PrevAttemptNumCounts, AttemptsFinite
  <2>2. tasks' \in [TaskID -> Task] /\ lastEvent' \in [TaskID -> TaskEventType \cup {"none"}]
    BY <1>3 DEF ClaimTask, TypeOK, Task, TaskStatus, TaskEventType
  <2>3. attempts' \in [AttemptID -> Attempt]
    BY <1>3, <2>1, Times DEF ClaimTask, TypeOK, Attempt, AttemptStatus
  <2> QED
    BY <1>3, <2>2, <2>3, OccupyType DEF ClaimTask, TypeOK
<1>4. ASSUME NEW a \in AttemptID, NEW o \in AttemptStatus, NEW row \in Task,
             NEW e \in TaskEventType, Finish(a, o, row, e)
      PROVE  TypeOK'
  <2> DEFINE att == [attempts[a] EXCEPT !.status = o, !.idle = 0]
  <2>0. attempts[a] \in Attempt /\ attempts[a].worker \in WorkerID
    BY <1>4 DEF Finish, loadRunningAttempt, TypeOK, AttemptRows
  <2>1. att \in Attempt
    <3>1. 0 \in 0..HeartbeatCutoff
      BY Times
    <3> QED
      BY <2>0, <3>1, AttemptUpdate
  <2>3. attempts' \in [AttemptID -> Attempt]
    BY <1>4, <2>1 DEF Finish, TypeOK
  <2>2. tasks' \in [TaskID -> Task] /\ lastEvent' \in [TaskID -> TaskEventType \cup {"none"}]
    BY <1>4 DEF Finish, TypeOK
  <2> QED
    BY <1>4, <2>0, <2>2, <2>3, ReleaseType DEF Finish, TypeOK
<1>5. ASSUME NEW a \in AttemptID, loadRunningAttempt(a)
      PROVE  Row(a) \in Task /\ RetryOrBury(a) \in Task
  <2>1. Row(a) \in Task
    BY <1>5 DEF TypeOK, AttemptRows, Row, loadRunningAttempt
  <2>2. retryBackoff(Row(a).retry_count) \in Nat
    BY <2>1, BackoffType DEF Task
  <2> QED
    <3>1. Row(a).retry_count + 1 \in Nat
      BY <2>1 DEF Task
    <3>2. "retrying" \in TaskStatus /\ "dead" \in TaskStatus
      BY DEF TaskStatus
    <3> QED
      BY <2>1, <2>2, <3>1, <3>2, TaskUpdate DEF RetryOrBury
<1>6. ASSUME NEW a \in AttemptID, SucceedAttempt(a) PROVE TypeOK'
  <2>1. [Row(a) EXCEPT !.status = "succeeded"] \in Task
    BY <1>5, <1>6 DEF SucceedAttempt, Finish, Task, TaskStatus
  <2> QED
    BY <1>4, <1>6, <2>1 DEF SucceedAttempt, AttemptStatus, TaskEventType
<1>7. ASSUME NEW a \in AttemptID, FailAttempt(a) PROVE TypeOK'
  <2>1. RetryOrBury(a) \in Task
    BY <1>5, <1>7 DEF FailAttempt, Finish
  <2> QED
    BY <1>4, <1>7, <2>1 DEF FailAttempt, AttemptStatus, TaskEventType
<1>8. ASSUME NEW a \in AttemptID, CancelAttempt(a) PROVE TypeOK'
  <2>1. [Row(a) EXCEPT !.status = "cancelled"] \in Task
    BY <1>5, <1>8 DEF CancelAttempt, Finish, Task, TaskStatus
  <2> QED
    BY <1>4, <1>8, <2>1 DEF CancelAttempt, AttemptStatus, TaskEventType
<1>9. ASSUME NEW a \in AttemptID, TimeoutAttempt(a) PROVE TypeOK'
  <2>1. RetryOrBury(a) \in Task
    BY <1>5, <1>9 DEF TimeoutAttempt, Finish
  <2> QED
    BY <1>4, <1>9, <2>1 DEF TimeoutAttempt, AttemptStatus, TaskEventType
<1>10. ASSUME NEW a \in AttemptID, UpdateHeartbeat(a) PROVE TypeOK'
  BY <1>10, Times DEF UpdateHeartbeat, TypeOK, Attempt
<1>11. ASSUME NEW t \in TaskID, HaltTask(t) \/ ResumeTask(t) \/ CancelTask(t) \/ RetryTask(t)
       PROVE  TypeOK'
  <2>1. tasks[t] \in Task
    BY DEF TypeOK
  <2>2. \E row \in Task, e \in TaskEventType : \E from : Control(t, from, row, e)
    BY <1>11, <2>1, TaskUpdate
       DEF HaltTask, ResumeTask, CancelTask, RetryTask, TaskStatus, TaskEventType
  <2> QED
    BY <2>2 DEF Control, TypeOK
<1>12. ASSUME RestartAnyTask PROVE TypeOK'
  <2> PICK t \in TaskID, n \in TaskID, c \in Stamp : RestartTask(t, n, c)
    BY <1>12 DEF RestartAnyTask
  <2> DEFINE old == [tasks[t] EXCEPT !.status = "superseded"]
             new == [tasks[t] EXCEPT !.status = "queued", !.retry_count = 0,
                               !.delay = 0, !.created = c, !.parent = t]
  <2>1. old \in Task /\ new \in Task
    BY TaskUpdate, ReplacementRow DEF TypeOK, TaskStatus
  <2>2. tasks' = [tasks EXCEPT ![t] = old, ![n] = new]
    BY DEF RestartTask
  <2>3. tasks' \in [TaskID -> Task]
    BY <2>1, <2>2 DEF TypeOK
  <2> QED
    BY <2>3 DEF RestartTask, TypeOK, TaskEventType
<1>13. ASSUME RequeueRetrying PROVE TypeOK'
  BY <1>13 DEF RequeueRetrying, TypeOK, Task, TaskStatus
<1>14. ASSUME Tick PROVE TypeOK'
  <2>1. tasks' \in [TaskID -> Task]
    <3> SUFFICES ASSUME NEW t \in TaskID PROVE tasks'[t] \in Task
      BY <1>14 DEF Tick
    <3> DEFINE d == IF tasks[t].delay = 0 THEN 0 ELSE tasks[t].delay - 1
    <3>1. tasks[t] \in Task /\ tasks'[t] = [tasks[t] EXCEPT !.delay = d]
      BY <1>14 DEF Tick, TypeOK
    <3>2. d \in Nat
      BY <3>1 DEF Task
    <3>3. "queued" \in TaskStatus /\ 0 \in Nat
      BY DEF TaskStatus
    <3>4. [tasks[t] EXCEPT !.delay = d] \in Task
      BY <3>1, <3>2, <3>3, TaskUpdate
    <3> QED
      BY <3>1, <3>4
  <2>2. attempts' \in [AttemptID -> Attempt]
    <3> SUFFICES ASSUME NEW a \in AttemptID PROVE attempts'[a] \in Attempt
      BY <1>14 DEF Tick
    <3>1. attempts[a] \in Attempt
      BY DEF TypeOK
    <3>2. CASE attempts[a].status = "running" /\ attempts[a].idle < HeartbeatCutoff
      <4>1. attempts[a].idle + 1 \in 0..HeartbeatCutoff
        BY <3>1, <3>2, Times DEF Attempt
      <4>2. attempts'[a] = [attempts[a] EXCEPT !.idle = attempts[a].idle + 1]
        BY <1>14, <3>2 DEF Tick
      <4> QED
        BY <3>1, <4>1, <4>2 DEF Attempt
    <3>3. CASE ~(attempts[a].status = "running" /\ attempts[a].idle < HeartbeatCutoff)
      BY <1>14, <3>1, <3>3 DEF Tick
    <3> QED
      BY <3>2, <3>3
  <2> QED
    BY <1>14, <2>1, <2>2 DEF Tick, TypeOK
<1> QED
  BY <1>1, <1>2, <1>3, <1>6, <1>7, <1>8, <1>9, <1>10, <1>11, <1>12, <1>13, <1>14
     DEF Next, ClaimAnyTask

-----------------------------------------------------------------------------
(* Frames: what a step leaves alone.                                       *)

\* The identity of an attempt: what no transaction but ClaimTask writes.
SameIdentity(a) ==
  /\ attempts'[a].task = attempts[a].task
  /\ attempts'[a].worker = attempts[a].worker
  /\ attempts'[a].attempt_num = attempts[a].attempt_num
  /\ attempts'[a].status = "absent" <=> attempts[a].status = "absent"

LEMMA OnlyClaimsAddAttempts ==
  ASSUME RowsInv, Next, ~ClaimAnyTask
  PROVE  \A a \in AttemptID : SameIdentity(a)
<1> USE DEF RowsInv, TypeOK
<1>1. CASE attempts' = attempts
  BY <1>1 DEF SameIdentity
<1>2. ASSUME NEW a \in AttemptID, NEW o \in AttemptStatus, NEW row, NEW e,
             Finish(a, o, row, e)
      PROVE  \A b \in AttemptID : SameIdentity(b)
  <2>1. attempts' = [attempts EXCEPT ![a] = [attempts[a] EXCEPT !.status = o, !.idle = 0]]
    BY <1>2 DEF Finish
  <2>2. o # "absent" /\ attempts[a].status # "absent" /\ attempts[a] \in Attempt
    BY <1>2 DEF Finish, loadRunningAttempt, AttemptStatus
  <2> QED
    BY <2>1, <2>2 DEF SameIdentity, Attempt
<1>3. CASE \E a \in AttemptID :
             SucceedAttempt(a) \/ FailAttempt(a) \/ CancelAttempt(a) \/ TimeoutAttempt(a)
  BY <1>2, <1>3
     DEF SucceedAttempt, FailAttempt, CancelAttempt, TimeoutAttempt, AttemptStatus
<1>4. CASE \E a \in AttemptID : UpdateHeartbeat(a)
  BY <1>4 DEF UpdateHeartbeat, SameIdentity, Attempt
<1>5. CASE Tick
  BY <1>5 DEF Tick, SameIdentity, Attempt
<1> QED
  BY <1>1, <1>3, <1>4, <1>5
     DEF Next, CreateWorker, CreateAnyTask, CreateTask, HaltTask, ResumeTask, CancelTask,
         RetryTask, Control, RestartAnyTask, RestartTask, RequeueRetrying

\* Task rows are never deleted.
LEMMA TasksStay ==
  ASSUME RowsInv, Next, NEW t \in TaskID, ~FreshTask(t)
  PROVE  ~FreshTask(t)'
<1> USE DEF RowsInv, TypeOK, FreshTask
<1>2. ASSUME NEW u \in TaskID, HaltTask(u) \/ ResumeTask(u) \/ CancelTask(u) \/ RetryTask(u)
      PROVE  ~FreshTask(t)'
  <2>1. tasks[u] \in Task
    OBVIOUS
  <2>2. ASSUME NEW from, NEW row, NEW event, Control(u, from, row, event), row.status # "absent"
        PROVE  ~FreshTask(t)'
    BY <2>2 DEF Control
  <2>3. CASE HaltTask(u)
    BY <2>1, <2>2, <2>3 DEF HaltTask, Task
  <2>4. CASE ResumeTask(u)
    <3> DEFINE row == [tasks[u] EXCEPT !.status = "queued", !.delay = 0]
    <3>1. row.status = "queued"
      BY <2>1 DEF Task
    <3>2. Control(u, {"halted"}, row, "queued")
      BY <2>4 DEF ResumeTask
    <3> HIDE DEF row
    <3> QED
      BY <2>2, <3>1, <3>2
  <2>5. CASE CancelTask(u)
    BY <2>1, <2>2, <2>5 DEF CancelTask, Task
  <2>6. CASE RetryTask(u)
    <3> DEFINE row == [tasks[u] EXCEPT !.status = "queued", !.retry_count = 0, !.delay = 0]
    <3>1. row.status = "queued"
      BY <2>1 DEF Task
    <3>2. Control(u, {"dead", "cancelled"}, row, "queued")
      BY <2>6 DEF RetryTask
    <3> HIDE DEF row
    <3> QED
      BY <2>2, <3>1, <3>2
  <2> QED
    BY <1>2, <2>3, <2>4, <2>5, <2>6
<1>3. ASSUME NEW a \in AttemptID, SucceedAttempt(a) \/ CancelAttempt(a)
      PROVE  ~FreshTask(t)'
  BY <1>3 DEF SucceedAttempt, CancelAttempt, Finish, loadRunningAttempt, AttemptRows, Row, Task
<1>4. ASSUME NEW a \in AttemptID, FailAttempt(a) \/ TimeoutAttempt(a)
      PROVE  ~FreshTask(t)'
  <2>1. attempts[a].task \in TaskID /\ Row(a) \in Task
    BY <1>4 DEF FailAttempt, TimeoutAttempt, Finish, loadRunningAttempt, AttemptRows, Row
  <2>2. RetryOrBury(a).status # "absent"
    BY <2>1 DEF RetryOrBury, Task
  <2>3. tasks' = [tasks EXCEPT ![attempts[a].task] = RetryOrBury(a)]
    BY <1>4 DEF FailAttempt, TimeoutAttempt, Finish
  <2> QED
    BY <2>1, <2>2, <2>3
<1>5. ASSUME ClaimAnyTask PROVE ~FreshTask(t)'
  BY <1>5 DEF ClaimAnyTask, ClaimTask, Task
<1>6. ASSUME CreateAnyTask PROVE ~FreshTask(t)'
  BY <1>6 DEF CreateAnyTask, CreateTask, Task
<1>7. ASSUME RestartAnyTask PROVE ~FreshTask(t)'
  BY <1>7 DEF RestartAnyTask, RestartTask, Task
<1>8. ASSUME RequeueRetrying PROVE ~FreshTask(t)'
  BY <1>8 DEF RequeueRetrying, Task
<1>9. ASSUME Tick PROVE ~FreshTask(t)'
  BY <1>9 DEF Tick, Task
<1> QED
  BY <1>2, <1>3, <1>4, <1>5, <1>6, <1>7, <1>8, <1>9 DEF Next, CreateWorker, UpdateHeartbeat

LEMMA StepAttemptRows ==
  ASSUME RowsInv, Next
  PROVE  AttemptRows'
<1> USE DEF RowsInv
<1> SUFFICES ASSUME NEW b \in AttemptID
             PROVE  IF attempts'[b].status = "absent"
                    THEN attempts'[b].task = None /\ attempts'[b].worker = None
                    ELSE /\ attempts'[b].task \in TaskID
                         /\ tasks'[attempts'[b].task].status # "absent"
                         /\ attempts'[b].worker \in WorkerID
  BY DEF AttemptRows, FreshTask
<1>1. CASE SameIdentity(b)
  BY <1>1, TasksStay DEF AttemptRows, SameIdentity, FreshTask
<1>2. CASE ClaimAnyTask
  <2> PICK t \in TaskID, a \in AttemptID, w \in WorkerID, q \in Queue,
           types \in SUBSET TaskType : ClaimTask(t, a, w, q, types)
    BY <1>2 DEF ClaimAnyTask
  <2>1. CASE b = a
    <3>1. attempts'[b].status = "running" /\ attempts'[b].task = t /\ attempts'[b].worker = w
      BY <2>1 DEF ClaimTask, TypeOK
    <3>2. ~FreshTask(t)
      BY DEF ClaimTask, Claimable, FreshTask
    <3> QED
      BY <3>1, <3>2, TasksStay DEF FreshTask
  <2>2. CASE b # a
    BY <2>2, <1>1 DEF ClaimTask, TypeOK, SameIdentity
  <2> QED
    BY <2>1, <2>2
<1> QED
  BY <1>1, <1>2, OnlyClaimsAddAttempts

LEMMA StepAttemptHistory ==
  ASSUME RowsInv, Next
  PROVE  AttemptHistory'
<1> USE DEF RowsInv
<1> SUFFICES ASSUME NEW u \in TaskID
             PROVE  {attempts'[a].attempt_num : a \in AttemptsOf(u)'}
                      = 1..Cardinality(AttemptsOf(u)')
  BY DEF AttemptHistory, AttemptsOf
<1> DEFINE S == AttemptsOf(u)
           n == Cardinality(S)
<1>0. /\ IsFiniteSet(S) /\ n \in Nat /\ S \subseteq AttemptID
      /\ {attempts[a].attempt_num : a \in S} = 1..n
  BY AttemptsFinite DEF AttemptHistory, AttemptsOf
<1>1. ASSUME \A b \in AttemptID : SameIdentity(b)
      PROVE  {attempts'[a].attempt_num : a \in S'} = 1..Cardinality(S')
  <2>1. S' = S
    BY <1>1 DEF AttemptsOf, SameIdentity
  <2>2. {attempts'[a].attempt_num : a \in S} = {attempts[a].attempt_num : a \in S}
    BY <1>0, <1>1 DEF SameIdentity
  <2> QED
    BY <1>0, <2>1, <2>2
<1>2. CASE ClaimAnyTask
  <2> PICK t \in TaskID, a \in AttemptID, w \in WorkerID, q \in Queue,
           types \in SUBSET TaskType : ClaimTask(t, a, w, q, types)
    BY <1>2 DEF ClaimAnyTask
  <2>1. /\ attempts[a].task = None /\ attempts'[a].task = t
        /\ attempts'[a].attempt_num = PrevAttemptNum(t) + 1
        /\ \A b \in AttemptID : b # a => attempts'[b] = attempts[b]
    BY DEF ClaimTask, FreshAttempt, AttemptRows, TypeOK
  <2>2. a \notin S
    BY <2>1, FiniteIDs DEF AttemptsOf
  <2>3. CASE u = t
    <3>1. S' = S \cup {a}
      BY <2>1, <2>3 DEF AttemptsOf
    <3>2. Cardinality(S') = n + 1
      BY <1>0, <2>2, <3>1, FS_AddElement
    <3>3. attempts'[a].attempt_num = n + 1
      BY <2>1, <2>3, PrevAttemptNumCounts
    <3>4. {attempts'[b].attempt_num : b \in S'}
            = {attempts[b].attempt_num : b \in S} \cup {n + 1}
      BY <1>0, <2>1, <2>2, <3>1, <3>3
    <3> QED
      BY <1>0, <3>2, <3>4
  <2>4. CASE u # t
    <3>1. S' = S
      BY <2>1, <2>2, <2>4, FiniteIDs DEF AttemptsOf
    <3>2. {attempts'[b].attempt_num : b \in S} = {attempts[b].attempt_num : b \in S}
      BY <1>0, <2>1, <2>2
    <3> QED
      BY <1>0, <3>1, <3>2
  <2> QED
    BY <2>3, <2>4
<1> QED
  BY <1>1, <1>2, OnlyClaimsAddAttempts

LEMMA StepRows ==
  ASSUME RowsInv, [Next]_vars
  PROVE  RowsInv'
<1>1. CASE Next
  BY <1>1, StepTypeOK, StepAttemptRows, StepAttemptHistory DEF RowsInv
<1>2. CASE UNCHANGED vars
  BY <1>2 DEF RowsInv, vars, TypeOK, AttemptRows, AttemptHistory, AttemptsOf, FreshTask
<1> QED
  BY <1>1, <1>2

\* Every reachable row is well formed, its attempts numbered without gaps.
THEOREM RowsInvariant == Spec => []RowsInv
<1>1. RowsInv /\ [Next]_vars => RowsInv'
  BY StepRows
<1> QED
  BY InitRows, <1>1, PTL DEF Spec

\* Every row keeps its type, whatever is created, claimed, reported, timed out
\* or controlled.
THEOREM TypeCorrect == Spec => []TypeOK
<1>1. RowsInv => TypeOK
  BY DEF RowsInv
<1> QED
  BY <1>1, RowsInvariant, PTL

\* MAX(attempt_num) + 1 under operator retries, resumes and requeues never
\* skips or repeats a number.
THEOREM AttemptNumbering == Spec => []AttemptHistory
<1>1. RowsInv => AttemptHistory
  BY DEF RowsInv
<1> QED
  BY <1>1, RowsInvariant, PTL

-----------------------------------------------------------------------------
(* current_task_count counts the running attempts.                         *)

LEMMA LiveAttemptsFinite ==
  ASSUME NEW w
  PROVE  IsFiniteSet(LiveAttemptsOn(w)) /\ Cardinality(LiveAttemptsOn(w)) \in Nat
<1>1. LiveAttemptsOn(w) \subseteq AttemptID /\ IsFiniteSet(AttemptID)
  BY FiniteIDs DEF LiveAttemptsOn
<1> QED
  BY <1>1, FS_Subset, FS_CardinalityType

\* The property of one worker, in the state as it is and as it will be.
CountMatches(w) ==
  workers[w].registered =>
    /\ workers[w].current_task_count = Cardinality(LiveAttemptsOn(w))
    /\ workers[w].status = "busy" <=>
         workers[w].current_task_count >= workers[w].concurrency

LEMMA ClaimCounts ==
  ASSUME RowsInv, WorkerCountMatches, NEW v \in WorkerID,
         NEW t \in TaskID, NEW a \in AttemptID, NEW w \in WorkerID,
         NEW q \in Queue, NEW types \in SUBSET TaskType,
         ClaimTask(t, a, w, q, types)
  PROVE  CountMatches(v)'
<1> USE DEF RowsInv, TypeOK
<1>1. /\ attempts[a].status = "absent"
      /\ attempts'[a].status = "running" /\ attempts'[a].worker = w
      /\ \A b \in AttemptID : b # a => attempts'[b] = attempts[b]
  BY DEF ClaimTask, FreshAttempt
<1>2. a \notin LiveAttemptsOn(v)
  BY <1>1 DEF LiveAttemptsOn
<1>3. CASE v = w
  <2>1. LiveAttemptsOn(v)' = LiveAttemptsOn(v) \cup {a}
    BY <1>1, <1>3 DEF LiveAttemptsOn
  <2>2. Cardinality(LiveAttemptsOn(v)') = Cardinality(LiveAttemptsOn(v)) + 1
    BY <1>2, <2>1, LiveAttemptsFinite, FS_AddElement
  <2>3. workers[v].registered =>
          /\ workers'[v].current_task_count = workers[v].current_task_count + 1
          /\ workers'[v].concurrency = workers[v].concurrency
          /\ workers'[v].status = "busy" <=>
               workers[v].current_task_count + 1 >= workers[v].concurrency
    BY <1>3 DEF ClaimTask, Occupy, Worker
  <2>4. workers'[v].registered = workers[v].registered
    BY <1>3 DEF ClaimTask, Occupy, Worker
  <2> QED
    BY <2>2, <2>3, <2>4 DEF CountMatches, WorkerCountMatches
<1>4. CASE v # w
  <2>1. LiveAttemptsOn(v)' = LiveAttemptsOn(v)
    BY <1>1, <1>2, <1>4 DEF LiveAttemptsOn
  <2>2. workers'[v] = workers[v]
    BY <1>4 DEF ClaimTask, Occupy
  <2> QED
    BY <2>1, <2>2 DEF CountMatches, WorkerCountMatches
<1> QED
  BY <1>3, <1>4

LEMMA FinishCounts ==
  ASSUME RowsInv, WorkerCountMatches, NEW v \in WorkerID,
         NEW a \in AttemptID, NEW o \in AttemptStatus \ {"running"}, NEW row, NEW e,
         Finish(a, o, row, e)
  PROVE  CountMatches(v)'
<1> USE DEF RowsInv, TypeOK
<1> DEFINE w == attempts[a].worker
<1>1. /\ attempts[a].status = "running" /\ w \in WorkerID
      /\ attempts'[a].status # "running" /\ attempts'[a].worker = w
      /\ \A b \in AttemptID : b # a => attempts'[b] = attempts[b]
  BY DEF Finish, loadRunningAttempt, AttemptRows, Attempt, AttemptStatus
<1>2. a \notin LiveAttemptsOn(v)'
  BY <1>1 DEF LiveAttemptsOn
<1>3. CASE v = w
  <2>1. LiveAttemptsOn(v)' = LiveAttemptsOn(v) \ {a} /\ a \in LiveAttemptsOn(v)
    BY <1>1, <1>2, <1>3 DEF LiveAttemptsOn
  <2>2. Cardinality(LiveAttemptsOn(v)') = Cardinality(LiveAttemptsOn(v)) - 1
    <3> DEFINE S == LiveAttemptsOn(v)
    <3>1. IsFiniteSet(S) /\ a \in S
      BY <2>1, LiveAttemptsFinite
    <3> HIDE DEF S
    <3>2. Cardinality(S \ {a}) = Cardinality(S) - 1
      BY <3>1, FS_RemoveElement
    <3> QED
      BY <2>1, <3>2 DEF S
  <2>3. workers[v].registered =>
          /\ workers'[v].current_task_count = workers[v].current_task_count - 1
          /\ workers'[v].concurrency = workers[v].concurrency
          /\ workers'[v].status = "busy" <=>
               ~(workers[v].current_task_count - 1 < workers[v].concurrency)
    <3> SUFFICES ASSUME workers[v].registered
                 PROVE  /\ workers'[v].current_task_count = workers[v].current_task_count - 1
                        /\ workers'[v].concurrency = workers[v].concurrency
                        /\ workers'[v].status = "busy" <=>
                             ~(workers[v].current_task_count - 1 < workers[v].concurrency)
      OBVIOUS
    <3> DEFINE n == workers[v].current_task_count - 1
               status == IF n < workers[v].concurrency THEN "idle" ELSE "busy"
    <3>1. workers' = [workers EXCEPT ![v] =
                        [workers[v] EXCEPT !.current_task_count = n, !.status = status]]
      BY <1>1, <1>3 DEF Finish, Release
    <3> QED
      BY <3>1 DEF Worker
  <2>4. workers'[v].registered = workers[v].registered
    BY <1>1, <1>3 DEF Finish, Release, Worker
  <2>5. workers[v].current_task_count \in Int /\ workers[v].concurrency \in Int
    BY DEF Worker
  <2> QED
    <3> SUFFICES ASSUME workers'[v].registered
                 PROVE  /\ workers'[v].current_task_count = Cardinality(LiveAttemptsOn(v)')
                        /\ workers'[v].status = "busy" <=>
                             workers'[v].current_task_count >= workers'[v].concurrency
      BY DEF CountMatches
    <3>1. workers[v].current_task_count = Cardinality(LiveAttemptsOn(v))
      BY <2>4 DEF WorkerCountMatches
    <3> QED
      BY <2>2, <2>3, <2>4, <2>5, <3>1
<1>4. CASE v # w
  <2>1. LiveAttemptsOn(v)' = LiveAttemptsOn(v)
    BY <1>1, <1>2, <1>4 DEF LiveAttemptsOn
  <2>2. workers'[v] = workers[v]
    BY <1>4 DEF Finish, Release
  <2> QED
    BY <2>1, <2>2 DEF CountMatches, WorkerCountMatches
<1> QED
  BY <1>3, <1>4

LEMMA CreateWorkerCounts ==
  ASSUME RowsInv, WorkerCountMatches, NEW v \in WorkerID,
         NEW w \in WorkerID, NEW c \in Concurrency, CreateWorker(w, c)
  PROVE  CountMatches(v)'
<1> USE DEF RowsInv, TypeOK
<1>1. LiveAttemptsOn(v)' = LiveAttemptsOn(v)
  BY DEF CreateWorker, LiveAttemptsOn
<1>2. CASE v = w
  <2>1. LiveAttemptsOn(v) = {}
    BY <1>2 DEF CreateWorker, FreshWorker, LiveAttemptsOn
  <2>2. /\ workers'[v].current_task_count = 0 /\ workers'[v].status = "idle"
        /\ workers'[v].concurrency \in Int /\ workers'[v].concurrency > 0
    BY <1>2, Inputs DEF CreateWorker
  <2> QED
    BY <1>1, <2>1, <2>2, FS_EmptySet DEF CountMatches
<1>3. CASE v # w
  BY <1>1, <1>3 DEF CreateWorker, CountMatches, WorkerCountMatches
<1> QED
  BY <1>2, <1>3

LEMMA StepWorkerCountMatches ==
  ASSUME RowsInv, WorkerCountMatches, Next
  PROVE  WorkerCountMatches'
<1> USE DEF RowsInv, TypeOK
<1> SUFFICES ASSUME NEW v \in WorkerID PROVE CountMatches(v)'
  BY DEF WorkerCountMatches, CountMatches
<1>1. ASSUME workers' = workers,
             \A b \in AttemptID : /\ attempts'[b].worker = attempts[b].worker
                                  /\ attempts'[b].status = attempts[b].status
      PROVE  CountMatches(v)'
  <2>1. LiveAttemptsOn(v)' = LiveAttemptsOn(v)
    BY <1>1 DEF LiveAttemptsOn
  <2> QED
    BY <1>1, <2>1 DEF CountMatches, WorkerCountMatches
<1>2. CASE \E a \in AttemptID :
             SucceedAttempt(a) \/ FailAttempt(a) \/ CancelAttempt(a) \/ TimeoutAttempt(a)
  BY <1>2, FinishCounts
     DEF SucceedAttempt, FailAttempt, CancelAttempt, TimeoutAttempt, AttemptStatus
<1>3. CASE ClaimAnyTask
  BY <1>3, ClaimCounts DEF ClaimAnyTask
<1>4. CASE \E w \in WorkerID, c \in Concurrency : CreateWorker(w, c)
  BY <1>4, CreateWorkerCounts
<1>5. CASE \E a \in AttemptID : UpdateHeartbeat(a)
  BY <1>1, <1>5 DEF UpdateHeartbeat, Attempt
<1>6. CASE Tick
  BY <1>1, <1>6 DEF Tick, Attempt
<1>7. CASE attempts' = attempts /\ workers' = workers
  BY <1>1, <1>7
<1> QED
  BY <1>2, <1>3, <1>4, <1>5, <1>6, <1>7
     DEF Next, CreateAnyTask, CreateTask, HaltTask, ResumeTask, CancelTask,
         RetryTask, Control, RestartAnyTask, RestartTask, RequeueRetrying

\* For any number of workers, tasks and attempts, the derived column
\* current_task_count is exact and "busy" means full.
THEOREM WorkerCountInvariant == Spec => []WorkerCountMatches
<1>1. Init => WorkerCountMatches
  BY DEF Init, WorkerCountMatches, AbsentWorker
<1>2. RowsInv /\ WorkerCountMatches /\ [Next]_vars => WorkerCountMatches'
  <2>1. ASSUME WorkerCountMatches, UNCHANGED vars PROVE WorkerCountMatches'
    BY <2>1 DEF vars, WorkerCountMatches, LiveAttemptsOn
  <2> QED
    BY <2>1, StepWorkerCountMatches
<1> QED
  BY <1>1, <1>2, RowsInvariant, PTL DEF Spec

-----------------------------------------------------------------------------
(* Outcomes of attempts, seen from the task.                               *)

\* The columns no transaction rewrites.
SameConfig(r, s) ==
  r.type = s.type /\ r.queue = s.queue /\ r.max_retries = s.max_retries

LEMMA StatusUpdate ==
  ASSUME NEW r \in Task, NEW s \in TaskStatus
  PROVE  LET row == [r EXCEPT !.status = s]
         IN  /\ row \in Task /\ row.status = s /\ SameConfig(row, r)
             /\ row.retry_count = r.retry_count /\ row.delay = r.delay
BY Zenon DEF Task, SameConfig

Outcome(a) ==
  SucceedAttempt(a) \/ FailAttempt(a) \/ CancelAttempt(a) \/ TimeoutAttempt(a)

\* The rows, outcomes and events the four outcomes combine.
OutcomeRow(a, o, row, e) ==
  /\ row \in Task /\ SameConfig(row, Row(a))
  /\ \/ /\ o \in {"succeeded", "cancelled"} /\ row.status = o /\ e = o
        /\ row.retry_count = Row(a).retry_count
     \/ /\ o = "failed" /\ row.status = "retrying" /\ e \in {"retrying", "heartbeat_timeout"}
        /\ Row(a).retry_count < row.max_retries
        /\ row.retry_count = Row(a).retry_count + 1
     \/ /\ o = "failed" /\ row.status = "dead" /\ e \in {"dead", "heartbeat_timeout"}
        /\ ~(Row(a).retry_count < row.max_retries)
        /\ row.retry_count = Row(a).retry_count

LEMMA OutcomeShape ==
  ASSUME RowsInv, NEW a \in AttemptID, Outcome(a)
  PROVE  /\ attempts[a].task \in TaskID /\ attempts[a].status = "running"
         /\ \E o \in AttemptStatus \ {"running"}, row \in Task, e \in TaskEventType :
              Finish(a, o, row, e) /\ OutcomeRow(a, o, row, e)
<1> USE DEF RowsInv, TypeOK
<1>1. attempts[a].task \in TaskID /\ attempts[a].status = "running" /\ Row(a) \in Task
  BY DEF Outcome, SucceedAttempt, FailAttempt, CancelAttempt, TimeoutAttempt, Finish,
         loadRunningAttempt, AttemptRows, Row
<1>2. CASE SucceedAttempt(a)
  <2> DEFINE row == [Row(a) EXCEPT !.status = "succeeded"]
  <2>1. row \in Task /\ row.status = "succeeded" /\ SameConfig(row, Row(a))
        /\ row.retry_count = Row(a).retry_count
    BY <1>1, StatusUpdate DEF TaskStatus
  <2>2. Finish(a, "succeeded", row, "succeeded")
    BY <1>2 DEF SucceedAttempt
  <2> HIDE DEF row
  <2> QED
    BY <1>1, <2>1, <2>2 DEF OutcomeRow, AttemptStatus, TaskEventType
<1>3. CASE CancelAttempt(a)
  <2> DEFINE row == [Row(a) EXCEPT !.status = "cancelled"]
  <2>1. row \in Task /\ row.status = "cancelled" /\ SameConfig(row, Row(a))
        /\ row.retry_count = Row(a).retry_count
    BY <1>1, StatusUpdate DEF TaskStatus
  <2>2. Finish(a, "cancelled", row, "cancelled")
    BY <1>3 DEF CancelAttempt
  <2> HIDE DEF row
  <2> QED
    BY <1>1, <2>1, <2>2 DEF OutcomeRow, AttemptStatus, TaskEventType
<1>4. CASE FailAttempt(a) \/ TimeoutAttempt(a)
  <2> DEFINE row == RetryOrBury(a)
  <2>1. row \in Task
    <3>1. retryBackoff(Row(a).retry_count) \in Nat /\ Row(a).retry_count + 1 \in Nat
      BY <1>1, BackoffType DEF Task
    <3> QED
      BY <1>1, <3>1, TaskUpdate DEF RetryOrBury, TaskStatus
  <2>2. /\ SameConfig(row, Row(a))
        /\ IF HasRetryLeft(a)
           THEN row.status = "retrying" /\ row.retry_count = Row(a).retry_count + 1
           ELSE row.status = "dead" /\ row.retry_count = Row(a).retry_count
    BY <1>1 DEF RetryOrBury, Task, SameConfig
  <2>3. PICK e : /\ Finish(a, "failed", row, e)
                 /\ e \in {IF HasRetryLeft(a) THEN "retrying" ELSE "dead", "heartbeat_timeout"}
    BY <1>4 DEF FailAttempt, TimeoutAttempt
  <2>4. e \in TaskEventType
    BY <2>3 DEF TaskEventType
  <2> HIDE DEF row
  <2>5. OutcomeRow(a, "failed", row, e)
    BY <1>1, <2>1, <2>2, <2>3 DEF OutcomeRow, HasRetryLeft, SameConfig
  <2> QED
    BY <1>1, <2>1, <2>3, <2>4, <2>5 DEF AttemptStatus
<1> QED
  BY <1>1, <1>2, <1>3, <1>4 DEF Outcome

\* An outcome touches one attempt and the row of its task.
LEMMA OutcomeFrame ==
  ASSUME RowsInv, NEW a \in AttemptID, NEW o, NEW row, NEW e, Finish(a, o, row, e),
         attempts[a].task \in TaskID
  PROVE  /\ attempts'[a].status = o
         /\ \A b \in AttemptID \ {a} : attempts'[b] = attempts[b]
         /\ tasks'[attempts[a].task] = row /\ lastEvent'[attempts[a].task] = e
         /\ \A t \in TaskID \ {attempts[a].task} :
              tasks'[t] = tasks[t] /\ lastEvent'[t] = lastEvent[t]
BY DEF Finish, RowsInv, TypeOK, Attempt

-----------------------------------------------------------------------------
(* Steps that neither claim a task nor end an attempt.                     *)

\* The task keeps its configuration and retries and changes its status.
Moves(u, from, to, event) ==
  /\ tasks[u].status \in from /\ tasks'[u].status = to /\ lastEvent'[u] = event
  /\ SameConfig(tasks'[u], tasks[u]) /\ tasks'[u].retry_count = tasks[u].retry_count

\* The task is queued with all its retries ahead.
Begins(u, from) ==
  /\ tasks[u].status \in from /\ tasks'[u].status = "queued" /\ lastEvent'[u] = "queued"
  /\ tasks'[u].retry_count = 0

\* What such a step may do to the row of one task.
QuietMove(u) ==
  \/ Moves(u, {tasks[u].status}, tasks[u].status, lastEvent[u])
  \/ Moves(u, {"running"}, "halted", "halted")
  \/ Moves(u, {"halted"}, "queued", "queued")
  \/ Moves(u, {"queued", "halted"}, "cancelled", "cancelled")
  \/ Moves(u, {"retrying"}, "queued", lastEvent[u])
  \/ Moves(u, {"queued", "succeeded", "dead", "cancelled", "halted"}, "superseded",
           lastEvent[u])
  \/ Begins(u, {"dead", "cancelled", "absent"})

LEMMA Unmoved ==
  ASSUME NEW u, tasks'[u] = tasks[u], lastEvent'[u] = lastEvent[u]
  PROVE  QuietMove(u)
BY DEF QuietMove, Moves, SameConfig

LEMMA QuietSteps ==
  ASSUME RowsInv, Next, ~ClaimAnyTask, ~\E a \in AttemptID : Outcome(a)
  PROVE  /\ \A u \in TaskID : QuietMove(u)
         /\ \A b \in AttemptID : attempts'[b].status = attempts[b].status
<1> USE DEF RowsInv, TypeOK
<1>1. CASE tasks' = tasks /\ lastEvent' = lastEvent
  <2>1. \A u \in TaskID : QuietMove(u)
    BY <1>1, Unmoved
  <2>2. \A b \in AttemptID : attempts'[b].status = attempts[b].status
    <3>1. CASE \E a \in AttemptID : UpdateHeartbeat(a)
      BY <3>1 DEF UpdateHeartbeat, Attempt
    <3>2. CASE Tick
      BY <3>2 DEF Tick, Attempt
    <3>3. CASE attempts' = attempts
      BY <3>3
    <3> QED
      BY <3>1, <3>2, <3>3
         DEF Next, CreateWorker, Outcome, CreateAnyTask, CreateTask, HaltTask, ResumeTask,
             CancelTask, RetryTask, Control, RestartAnyTask, RestartTask, RequeueRetrying
  <2> QED
    BY <2>1, <2>2
<1>2. ASSUME NEW t \in TaskID, NEW from, NEW row, NEW e, Control(t, from, row, e),
             NEW u \in TaskID
      PROVE  /\ attempts' = attempts /\ tasks[t].status \in from
             /\ tasks'[t] = row /\ lastEvent'[t] = e
             /\ u # t => QuietMove(u)
  BY <1>2, Unmoved DEF Control
<1>3. ASSUME NEW t \in TaskID, HaltTask(t) \/ ResumeTask(t) \/ CancelTask(t) \/ RetryTask(t),
             NEW u \in TaskID
      PROVE  QuietMove(u) /\ attempts' = attempts
  <2>1. tasks[t] \in Task
    OBVIOUS
  <2>2. CASE HaltTask(t)
    <3> DEFINE row == [tasks[t] EXCEPT !.status = "halted"]
    <3>1. row.status = "halted" /\ SameConfig(row, tasks[t])
          /\ row.retry_count = tasks[t].retry_count
      BY <2>1, Zenon DEF Task, SameConfig
    <3>2. Control(t, {"running"}, row, "halted")
      BY <2>2 DEF HaltTask
    <3> HIDE DEF row
    <3> QED
      BY <1>2, <3>1, <3>2 DEF QuietMove, Moves
  <2>3. CASE CancelTask(t)
    <3> DEFINE row == [tasks[t] EXCEPT !.status = "cancelled"]
    <3>1. row.status = "cancelled" /\ SameConfig(row, tasks[t])
          /\ row.retry_count = tasks[t].retry_count
      BY <2>1, Zenon DEF Task, SameConfig
    <3>2. Control(t, {"queued", "halted"}, row, "cancelled")
      BY <2>3 DEF CancelTask
    <3> HIDE DEF row
    <3> QED
      BY <1>2, <3>1, <3>2 DEF QuietMove, Moves
  <2>4. CASE ResumeTask(t)
    <3> DEFINE row == [tasks[t] EXCEPT !.status = "queued", !.delay = 0]
    <3>1. row.status = "queued" /\ SameConfig(row, tasks[t])
          /\ row.retry_count = tasks[t].retry_count
      BY <2>1, Zenon DEF Task, SameConfig
    <3>2. Control(t, {"halted"}, row, "queued")
      BY <2>4 DEF ResumeTask
    <3> HIDE DEF row
    <3> QED
      BY <1>2, <3>1, <3>2 DEF QuietMove, Moves
  <2>5. CASE RetryTask(t)
    <3> DEFINE row == [tasks[t] EXCEPT !.status = "queued", !.retry_count = 0, !.delay = 0]
    <3>1. row.status = "queued" /\ row.retry_count = 0
      BY <2>1, Zenon DEF Task
    <3>2. Control(t, {"dead", "cancelled"}, row, "queued")
      BY <2>5 DEF RetryTask
    <3>3. tasks[t].status \in {"dead", "cancelled"} /\ tasks'[t] = row
          /\ lastEvent'[t] = "queued"
      BY <1>2, <3>2
    <3> HIDE DEF row
    <3>4. Begins(t, {"dead", "cancelled", "absent"})
      BY <3>1, <3>3 DEF Begins
    <3> QED
      BY <1>2, <3>2, <3>4 DEF QuietMove
  <2> QED
    BY <1>3, <2>2, <2>3, <2>4, <2>5
<1>4. ASSUME CreateAnyTask, NEW u \in TaskID
      PROVE  QuietMove(u) /\ attempts' = attempts
  <2>1. PICK n \in TaskID :
          /\ tasks[n].status = "absent" /\ tasks'[n].status = "queued"
          /\ tasks'[n].retry_count = 0 /\ lastEvent'[n] = "queued" /\ attempts' = attempts
          /\ \A v \in TaskID \ {n} : tasks'[v] = tasks[v] /\ lastEvent'[v] = lastEvent[v]
    BY <1>4 DEF CreateAnyTask, CreateTask, FreshTask
  <2> QED
    BY <2>1, Unmoved DEF QuietMove, Begins
<1>5. ASSUME RestartAnyTask, NEW u \in TaskID
      PROVE  QuietMove(u) /\ attempts' = attempts
  <2> PICK t \in TaskID, n \in TaskID, c \in Stamp : RestartTask(t, n, c)
    BY <1>5 DEF RestartAnyTask
  <2> DEFINE old == [tasks[t] EXCEPT !.status = "superseded"]
             new == [tasks[t] EXCEPT !.status = "queued", !.retry_count = 0,
                               !.delay = 0, !.created = c, !.parent = t]
  <2>1. /\ tasks' = [tasks EXCEPT ![t] = old, ![n] = new]
        /\ lastEvent' = [lastEvent EXCEPT ![n] = "queued"]
        /\ attempts' = attempts
        /\ tasks[n].status = "absent" /\ t # n
        /\ tasks[t].status \in {"queued", "succeeded", "dead", "cancelled", "halted"}
    BY DEF RestartTask, FreshTask
  <2>2. /\ old.status = "superseded" /\ SameConfig(old, tasks[t])
        /\ old.retry_count = tasks[t].retry_count
    BY StatusUpdate DEF TaskStatus
  <2>3. new.status = "queued" /\ new.retry_count = 0
    BY Zenon DEF Task
  <2> HIDE DEF old, new
  <2>4. /\ tasks'[t] = old /\ lastEvent'[t] = lastEvent[t]
        /\ tasks'[n] = new /\ lastEvent'[n] = "queued"
        /\ \A v \in TaskID \ {t, n} : tasks'[v] = tasks[v] /\ lastEvent'[v] = lastEvent[v]
    BY <2>1
  <2>5. QuietMove(t)
    BY <2>1, <2>2, <2>4 DEF QuietMove, Moves
  <2>6. QuietMove(n)
    BY <2>1, <2>3, <2>4 DEF QuietMove, Begins
  <2> QED
    BY <2>1, <2>4, <2>5, <2>6, Unmoved
<1>6. ASSUME RequeueRetrying, NEW u \in TaskID
      PROVE  QuietMove(u) /\ attempts' = attempts
  <2>1. tasks[u] \in Task /\ lastEvent' = lastEvent /\ attempts' = attempts
    BY <1>6 DEF RequeueRetrying
  <2>2. \/ tasks'[u] = tasks[u]
        \/ /\ tasks[u].status = "retrying"
           /\ tasks'[u] = [tasks[u] EXCEPT !.status = "queued"]
    BY <1>6 DEF RequeueRetrying
  <2>3. CASE tasks'[u] = tasks[u]
    BY <2>1, <2>3, Unmoved
  <2>4. CASE tasks'[u] # tasks[u]
    <3>1. /\ tasks'[u].status = "queued" /\ SameConfig(tasks'[u], tasks[u])
          /\ tasks'[u].retry_count = tasks[u].retry_count
      BY <2>1, <2>2, <2>4, Zenon DEF Task, SameConfig
    <3> QED
      BY <2>1, <2>2, <2>4, <3>1 DEF QuietMove, Moves
  <2> QED
    BY <2>1, <2>3, <2>4
<1>7. ASSUME Tick, NEW u \in TaskID
      PROVE  QuietMove(u)
  <2>1. tasks'[u] = [tasks[u] EXCEPT !.delay = tasks'[u].delay] /\ lastEvent' = lastEvent
    BY <1>7 DEF Tick, Task
  <2>2. /\ tasks'[u].status = tasks[u].status /\ SameConfig(tasks'[u], tasks[u])
        /\ tasks'[u].retry_count = tasks[u].retry_count
    BY <2>1 DEF Task, SameConfig
  <2> QED
    BY <2>1, <2>2 DEF QuietMove, Moves
<1>8. CASE \/ \E w \in WorkerID, c \in Concurrency : CreateWorker(w, c)
           \/ \E a \in AttemptID : UpdateHeartbeat(a)
  BY <1>1, <1>8 DEF CreateWorker, UpdateHeartbeat
<1>9. CASE \E t \in TaskID : HaltTask(t) \/ ResumeTask(t) \/ CancelTask(t) \/ RetryTask(t)
  BY <1>3, <1>9
<1>10. CASE CreateAnyTask \/ RestartAnyTask \/ RequeueRetrying
  <2>1. attempts' = attempts
    BY <1>10 DEF CreateAnyTask, CreateTask, RestartAnyTask, RestartTask, RequeueRetrying
  <2> QED
    BY <1>4, <1>5, <1>6, <1>10, <2>1
<1>11. CASE Tick
  <2>1. \A b \in AttemptID : attempts'[b].status = attempts[b].status
    BY <1>11 DEF Tick, Attempt
  <2> QED
    BY <1>7, <1>11, <2>1
<1> QED
  BY <1>8, <1>9, <1>10, <1>11 DEF Next, Outcome

-----------------------------------------------------------------------------
(* A running or halted task can still be moved on.                         *)

HasLiveAttempt(t) ==
  \E a \in AttemptsOf(t) :
    /\ attempts[a].status = "running"
    /\ \A b \in AttemptsOf(t) : attempts[b].attempt_num <= attempts[a].attempt_num

LEMMA StillLive ==
  ASSUME NEW t, \A b \in AttemptID : SameIdentity(b),
         \A b \in AttemptsOf(t) : attempts'[b].status = attempts[b].status,
         HasLiveAttempt(t)
  PROVE  HasLiveAttempt(t)'
<1>1. AttemptsOf(t)' = AttemptsOf(t)
  BY DEF AttemptsOf, SameIdentity
<1> QED
  BY <1>1 DEF HasLiveAttempt, AttemptsOf, SameIdentity

LEMMA StepHeldTask ==
  ASSUME RowsInv, HeldTaskHasLiveAttempt, Next
  PROVE  HeldTaskHasLiveAttempt'
<1> USE DEF RowsInv, TypeOK
<1> SUFFICES ASSUME NEW u \in TaskID, tasks'[u].status \in {"running", "halted"}
             PROVE  HasLiveAttempt(u)'
  BY DEF HeldTaskHasLiveAttempt, HasLiveAttempt, AttemptsOf
<1>1. tasks[u].status \in {"running", "halted"} => HasLiveAttempt(u)
  BY DEF HeldTaskHasLiveAttempt, HasLiveAttempt
<1>2. CASE ClaimAnyTask
  <2> PICK t \in TaskID, a \in AttemptID, w \in WorkerID, q \in Queue,
           types \in SUBSET TaskType : ClaimTask(t, a, w, q, types)
    BY <1>2 DEF ClaimAnyTask
  <2>1. /\ attempts[a].status = "absent" /\ attempts[a].task = None
        /\ attempts'[a].status = "running" /\ attempts'[a].task = t
        /\ attempts'[a].attempt_num = PrevAttemptNum(t) + 1
        /\ \A b \in AttemptID \ {a} : attempts'[b] = attempts[b]
    BY DEF ClaimTask, FreshAttempt, AttemptRows
  <2>2. CASE u = t
    <3> DEFINE n == Cardinality(AttemptsOf(t))
    <3>1. n \in Nat /\ attempts'[a].attempt_num = n + 1
      BY <2>1, PrevAttemptNumCounts, AttemptsFinite
    <3>2. \A b \in AttemptsOf(t) : attempts[b].attempt_num \in 1..n
      BY DEF AttemptHistory
    <3>3. AttemptsOf(t)' = AttemptsOf(t) \cup {a} /\ AttemptsOf(t) \subseteq AttemptID \ {a}
      BY <2>1, FiniteIDs DEF AttemptsOf
    <3>4. \A b \in AttemptsOf(t)' : attempts'[b].attempt_num <= attempts'[a].attempt_num
      BY <2>1, <3>1, <3>2, <3>3
    <3> QED
      BY <2>1, <2>2, <3>3, <3>4 DEF HasLiveAttempt
  <2>3. CASE u # t
    <3>1. tasks'[u] = tasks[u]
      BY <2>3 DEF ClaimTask
    <3>2. AttemptsOf(u)' = AttemptsOf(u) /\ AttemptsOf(u) \subseteq AttemptID \ {a}
      BY <2>1, <2>3, FiniteIDs DEF AttemptsOf
    <3> QED
      BY <1>1, <2>1, <3>1, <3>2 DEF HasLiveAttempt
  <2> QED
    BY <2>2, <2>3
<1>3. CASE ~ClaimAnyTask /\ \E a \in AttemptID : Outcome(a)
  <2> PICK a \in AttemptID : Outcome(a)
    BY <1>3
  <2> PICK o \in AttemptStatus \ {"running"}, row \in Task, e \in TaskEventType :
             Finish(a, o, row, e) /\ OutcomeRow(a, o, row, e)
    BY OutcomeShape
  <2>1. u # attempts[a].task /\ tasks'[u] = tasks[u]
    BY OutcomeShape, OutcomeFrame DEF OutcomeRow
  <2>2. \A b \in AttemptsOf(u) : attempts'[b].status = attempts[b].status
    BY <2>1, OutcomeShape, OutcomeFrame DEF AttemptsOf
  <2> QED
    BY <1>1, <1>3, <2>1, <2>2, OnlyClaimsAddAttempts, StillLive
<1>4. CASE ~ClaimAnyTask /\ ~\E a \in AttemptID : Outcome(a)
  <2>1. QuietMove(u) /\ \A b \in AttemptID : attempts'[b].status = attempts[b].status
    BY <1>4, QuietSteps
  <2>2. tasks[u].status \in {"running", "halted"}
    BY <2>1 DEF QuietMove, Moves, Begins
  <2> QED
    BY <1>1, <1>4, <2>1, <2>2, OnlyClaimsAddAttempts, StillLive DEF AttemptsOf
<1> QED
  BY <1>2, <1>3, <1>4

\* Whatever claims, outcomes, timeouts and controls interleave, a running or
\* halted task keeps its newest attempt running.
THEOREM HeldTaskInvariant == Spec => []HeldTaskHasLiveAttempt
<1>1. Init => HeldTaskHasLiveAttempt
  BY DEF Init, HeldTaskHasLiveAttempt, AbsentTask
<1>2. RowsInv /\ HeldTaskHasLiveAttempt /\ [Next]_vars => HeldTaskHasLiveAttempt'
  <2>1. ASSUME HeldTaskHasLiveAttempt, UNCHANGED vars PROVE HeldTaskHasLiveAttempt'
    BY <2>1 DEF vars, HeldTaskHasLiveAttempt, AttemptsOf
  <2> QED
    BY <2>1, StepHeldTask
<1> QED
  BY <1>1, <1>2, RowsInvariant, PTL DEF Spec

-----------------------------------------------------------------------------
(* Retries stay within the budget.                                         *)

WithinBudget(r) ==
  /\ r.retry_count = 0 \/ r.retry_count <= r.max_retries
  /\ r.status = "dead" => r.retry_count >= r.max_retries

LEMMA StepRetryBudget ==
  ASSUME RowsInv, RetryBudget, Next
  PROVE  RetryBudget'
<1> USE DEF RowsInv, TypeOK
<1> SUFFICES ASSUME NEW u \in TaskID PROVE WithinBudget(tasks'[u])
  BY DEF RetryBudget, WithinBudget
<1>1. /\ WithinBudget(tasks[u]) /\ tasks[u].retry_count \in Nat /\ tasks[u].max_retries \in Int
      /\ tasks'[u] \in Task
  BY StepTypeOK DEF RetryBudget, WithinBudget, Task
<1>2. CASE ClaimAnyTask
  <2>1. \/ tasks'[u] = tasks[u]
        \/ tasks'[u] = [tasks[u] EXCEPT !.status = "running"]
    BY <1>2 DEF ClaimAnyTask, ClaimTask
  <2> QED
    BY <1>1, <2>1 DEF WithinBudget, Task
<1>3. CASE \E a \in AttemptID : Outcome(a)
  <2> PICK a \in AttemptID : Outcome(a)
    BY <1>3
  <2> PICK o \in AttemptStatus \ {"running"}, row \in Task, e \in TaskEventType :
             Finish(a, o, row, e) /\ OutcomeRow(a, o, row, e)
    BY OutcomeShape
  <2>1. CASE u = attempts[a].task
    <3>1. tasks'[u] = row /\ Row(a) = tasks[u]
      BY <2>1, OutcomeShape, OutcomeFrame DEF Row
    <3> QED
      BY <1>1, <3>1 DEF OutcomeRow, SameConfig, WithinBudget
  <2>2. CASE u # attempts[a].task
    BY <1>1, <2>2, OutcomeShape, OutcomeFrame
  <2> QED
    BY <2>1, <2>2
<1>4. CASE ~ClaimAnyTask /\ ~\E a \in AttemptID : Outcome(a)
  <2>1. QuietMove(u)
    BY <1>4, QuietSteps
  <2> QED
    BY <1>1, <2>1 DEF QuietMove, Moves, Begins, SameConfig, WithinBudget
<1> QED
  BY <1>2, <1>3, <1>4

\* However many attempts of one task run beside each other, it is retried at
\* most max_retries times between two operator retries, and buried only then.
THEOREM RetryBudgetInvariant == Spec => []RetryBudget
<1>1. Init => RetryBudget
  BY DEF Init, RetryBudget, AbsentTask
<1>2. RowsInv /\ RetryBudget /\ [Next]_vars => RetryBudget'
  <2>1. ASSUME RetryBudget, UNCHANGED vars PROVE RetryBudget'
    BY <2>1 DEF vars, RetryBudget
  <2> QED
    BY <2>1, StepRetryBudget
<1> QED
  BY <1>1, <1>2, RowsInvariant, PTL DEF Spec

-----------------------------------------------------------------------------
(* Outcomes: reported ones are backed, recorded ones are final.            *)

LEMMA StepOutcomeFinal ==
  ASSUME RowsInv, Next, NEW b \in AttemptID,
         attempts[b].status \in AttemptStatus \ {"running"}
  PROVE  attempts'[b] = attempts[b]
<1> USE DEF RowsInv, TypeOK
<1>1. CASE \E a \in AttemptID : Outcome(a)
  BY <1>1, OutcomeShape, OutcomeFrame
<1>2. CASE ClaimAnyTask
  BY <1>2 DEF ClaimAnyTask, ClaimTask, FreshAttempt, AttemptStatus
<1>3. CASE \E a \in AttemptID : UpdateHeartbeat(a)
  BY <1>3 DEF UpdateHeartbeat
<1>4. CASE Tick
  BY <1>4 DEF Tick
<1>5. CASE attempts' = attempts
  BY <1>5
<1> QED
  BY <1>1, <1>2, <1>3, <1>4, <1>5
     DEF Next, Outcome, CreateWorker, CreateAnyTask, CreateTask, HaltTask, ResumeTask,
         CancelTask, RetryTask, Control, RestartAnyTask, RestartTask, RequeueRetrying

\* The first outcome of an attempt is the only one.
THEOREM OutcomeFinality == Spec => OutcomeIsFinal
<1>1. RowsInv /\ [Next]_vars =>
        [\A a \in AttemptID : attempts[a].status \in AttemptStatus \ {"running"} =>
                              attempts'[a] = attempts[a]]_vars
  BY StepOutcomeFinal
<1> QED
  BY <1>1, RowsInvariant, PTL DEF Spec, OutcomeIsFinal

\* t has an attempt that ended as o.
Ended(t, o) == \E a \in AttemptsOf(t) : attempts[a].status = o

LEMMA StillEnded ==
  ASSUME RowsInv, Next, NEW t \in TaskID, NEW o \in AttemptStatus \ {"running"}, Ended(t, o)
  PROVE  Ended(t, o)'
<1> PICK a \in AttemptID : attempts[a].task = t /\ attempts[a].status = o
  BY DEF Ended, AttemptsOf
<1>1. attempts'[a] = attempts[a]
  BY StepOutcomeFinal
<1> QED
  BY <1>1 DEF Ended, AttemptsOf

LEMMA StepOutcomeBacked ==
  ASSUME RowsInv, OutcomeBacked, Next
  PROVE  OutcomeBacked'
<1> USE DEF RowsInv, TypeOK
<1> SUFFICES ASSUME NEW u \in TaskID
             PROVE  /\ tasks'[u].status = "succeeded" => Ended(u, "succeeded")'
                    /\ tasks'[u].status \in {"dead", "retrying"} => Ended(u, "failed")'
  BY DEF OutcomeBacked, Ended, AttemptsOf
<1>1. /\ tasks[u].status = "succeeded" => Ended(u, "succeeded")'
      /\ tasks[u].status \in {"dead", "retrying"} => Ended(u, "failed")'
  <2>1. /\ tasks[u].status = "succeeded" => Ended(u, "succeeded")
        /\ tasks[u].status \in {"dead", "retrying"} => Ended(u, "failed")
    BY DEF OutcomeBacked, Ended
  <2> QED
    BY <2>1, StillEnded DEF AttemptStatus
<1>2. CASE ClaimAnyTask
  <2>1. tasks'[u] = tasks[u] \/ tasks'[u].status = "running"
    BY <1>2 DEF ClaimAnyTask, ClaimTask, Task
  <2> QED
    BY <1>1, <2>1
<1>3. CASE \E a \in AttemptID : Outcome(a)
  <2> PICK a \in AttemptID : Outcome(a)
    BY <1>3
  <2> PICK o \in AttemptStatus \ {"running"}, row \in Task, e \in TaskEventType :
             Finish(a, o, row, e) /\ OutcomeRow(a, o, row, e)
    BY OutcomeShape
  <2>1. CASE u = attempts[a].task
    <3>1. tasks'[u] = row /\ attempts'[a].status = o
      BY <2>1, OutcomeShape, OutcomeFrame
    <3>2. attempts'[a].task = u
      BY <2>1 DEF Finish, Attempt
    <3> QED
      BY <3>1, <3>2 DEF OutcomeRow, Ended, AttemptsOf
  <2>2. CASE u # attempts[a].task
    BY <1>1, <2>2, OutcomeShape, OutcomeFrame
  <2> QED
    BY <2>1, <2>2
<1>4. CASE ~ClaimAnyTask /\ ~\E a \in AttemptID : Outcome(a)
  <2>1. QuietMove(u)
    BY <1>4, QuietSteps
  <2>2. tasks'[u].status \in {"succeeded", "dead", "retrying"} =>
          tasks'[u].status = tasks[u].status
    BY <2>1 DEF QuietMove, Moves, Begins
  <2> QED
    BY <1>1, <2>2
<1> QED
  BY <1>2, <1>3, <1>4

\* Every succeeded task has a succeeded attempt, every dead or retrying task
\* a failed one.
THEOREM OutcomeBackedInvariant == Spec => []OutcomeBacked
<1>1. Init => OutcomeBacked
  BY DEF Init, OutcomeBacked, AbsentTask
<1>2. RowsInv /\ OutcomeBacked /\ [Next]_vars => OutcomeBacked'
  <2>1. ASSUME OutcomeBacked, UNCHANGED vars PROVE OutcomeBacked'
    BY <2>1 DEF vars, OutcomeBacked, AttemptsOf
  <2> QED
    BY <2>1, StepOutcomeBacked
<1> QED
  BY <1>1, <1>2, RowsInvariant, PTL DEF Spec

-----------------------------------------------------------------------------
(* The timeline lags by a requeue or a superseding only.                   *)

RetryingIsCounted == \A t \in TaskID : tasks[t].status = "retrying" => tasks[t].retry_count > 0

Timeline == TimelineGaps /\ RetryingIsCounted

GapAllowed(u) ==
  \/ lastEvent[u] \in EventsOf(tasks[u].status)
  \/ /\ tasks[u].status = "queued" /\ tasks[u].retry_count > 0
     /\ lastEvent[u] \in EventsOf("retrying")
  \/ tasks[u].status = "superseded" /\ lastEvent[u] \notin {"none", "started"}

LEMMA StepTimeline ==
  ASSUME RowsInv, Timeline, Next
  PROVE  Timeline'
<1> USE DEF RowsInv, TypeOK
<1> SUFFICES ASSUME NEW u \in TaskID
             PROVE  GapAllowed(u)' /\ (tasks'[u].status = "retrying" => tasks'[u].retry_count > 0)
  BY DEF Timeline, TimelineGaps, RetryingIsCounted, GapAllowed, EventsOf
<1>1. /\ GapAllowed(u) /\ (tasks[u].status = "retrying" => tasks[u].retry_count > 0)
      /\ tasks[u] \in Task /\ tasks[u].status \in TaskStatus \cup {"absent"}
      /\ tasks[u].retry_count \in Nat
  BY DEF Timeline, TimelineGaps, RetryingIsCounted, GapAllowed, Task
<1>2. CASE ClaimAnyTask
  <2>1. \/ tasks'[u] = tasks[u] /\ lastEvent'[u] = lastEvent[u]
        \/ tasks'[u].status = "running" /\ lastEvent'[u] = "started"
    BY <1>2 DEF ClaimAnyTask, ClaimTask, Task
  <2> QED
    BY <1>1, <2>1 DEF GapAllowed, EventsOf
<1>3. CASE \E a \in AttemptID : Outcome(a)
  <2> PICK a \in AttemptID : Outcome(a)
    BY <1>3
  <2> PICK o \in AttemptStatus \ {"running"}, row \in Task, e \in TaskEventType :
             Finish(a, o, row, e) /\ OutcomeRow(a, o, row, e)
    BY OutcomeShape
  <2>1. CASE u = attempts[a].task
    <3>1. tasks'[u] = row /\ lastEvent'[u] = e /\ Row(a) = tasks[u]
      BY <2>1, OutcomeShape, OutcomeFrame DEF Row
    <3> QED
      BY <1>1, <3>1 DEF OutcomeRow, GapAllowed, EventsOf
  <2>2. CASE u # attempts[a].task
    BY <1>1, <2>2, OutcomeShape, OutcomeFrame DEF GapAllowed
  <2> QED
    BY <2>1, <2>2
<1>4. CASE ~ClaimAnyTask /\ ~\E a \in AttemptID : Outcome(a)
  <2>1. QuietMove(u)
    BY <1>4, QuietSteps
  <2>2. CASE Moves(u, {tasks[u].status}, tasks[u].status, lastEvent[u])
    BY <1>1, <2>2 DEF Moves, GapAllowed
  <2>3. CASE Moves(u, {"retrying"}, "queued", lastEvent[u])
    BY <1>1, <2>3 DEF Moves, GapAllowed, EventsOf
  <2>4. CASE Moves(u, {"queued", "succeeded", "dead", "cancelled", "halted"}, "superseded",
                   lastEvent[u])
    BY <1>1, <2>4 DEF Moves, GapAllowed, EventsOf
  <2>5. CASE \/ Moves(u, {"running"}, "halted", "halted")
             \/ Moves(u, {"halted"}, "queued", "queued")
             \/ Moves(u, {"queued", "halted"}, "cancelled", "cancelled")
             \/ Begins(u, {"dead", "cancelled", "absent"})
    BY <2>5 DEF Moves, Begins, GapAllowed, EventsOf
  <2> QED
    BY <2>1, <2>2, <2>3, <2>4, <2>5 DEF QuietMove
<1> QED
  BY <1>2, <1>3, <1>4

\* Wherever the newest event of a task is not that of its status, it was
\* requeued or superseded.
THEOREM TimelineInvariant == Spec => []TimelineGaps
<1>1. Init => Timeline
  BY DEF Init, Timeline, TimelineGaps, RetryingIsCounted, AbsentTask, EventsOf
<1>2. RowsInv /\ Timeline /\ [Next]_vars => Timeline'
  <2>1. ASSUME Timeline, UNCHANGED vars PROVE Timeline'
    BY <2>1 DEF vars, Timeline, TimelineGaps, RetryingIsCounted
  <2> QED
    BY <2>1, StepTimeline
<1>3. Timeline => TimelineGaps
  BY DEF Timeline
<1> QED
  BY <1>1, <1>2, <1>3, RowsInvariant, PTL DEF Spec

-----------------------------------------------------------------------------
(* The concurrency limits.                                                 *)

RunningIn(q) == {t \in Running : tasks[t].queue = q}
RunningOf(y) == {t \in Running : tasks[t].type = y}

\* Adding one element to a set with room leaves it within its limit.
LEMMA AddOne ==
  ASSUME NEW S, IsFiniteSet(S), NEW x, NEW n \in Nat, Cardinality(S) < n
  PROVE  Cardinality(S \cup {x}) <= n
<1>1. Cardinality(S) \in Nat
  BY FS_CardinalityType
<1>2. Cardinality(S \cup {x}) = Cardinality(S) \/ Cardinality(S \cup {x}) = Cardinality(S) + 1
  BY FS_AddElement
<1> QED
  BY <1>1, <1>2

LEMMA RunningFinite ==
  /\ IsFiniteSet(Running)
  /\ \A q \in Queue : IsFiniteSet(RunningIn(q)) /\ Cardinality(RunningIn(q)) \in Nat
  /\ \A y \in TaskType : IsFiniteSet(RunningOf(y)) /\ Cardinality(RunningOf(y)) \in Nat
<1>1. Running \subseteq TaskID /\ IsFiniteSet(Running)
  BY FiniteIDs, FS_Subset DEF Running
<1>2. \A S : S \subseteq Running => IsFiniteSet(S) /\ Cardinality(S) \in Nat
  BY <1>1, FS_Subset, FS_CardinalityType
<1> QED
  BY <1>1, <1>2 DEF RunningIn, RunningOf

\* Only a claim makes a task run.
LEMMA RunningShrinks ==
  ASSUME RowsInv, Next, ~ClaimAnyTask, NEW t \in Running'
  PROVE  t \in Running /\ SameConfig(tasks'[t], tasks[t])
<1> USE DEF RowsInv, TypeOK
<1>0. t \in TaskID /\ tasks'[t].status = "running"
  BY DEF Running
<1>1. CASE \E a \in AttemptID : Outcome(a)
  <2> PICK a \in AttemptID : Outcome(a)
    BY <1>1
  <2> PICK o \in AttemptStatus \ {"running"}, row \in Task, e \in TaskEventType :
             Finish(a, o, row, e) /\ OutcomeRow(a, o, row, e)
    BY OutcomeShape
  <2>1. tasks'[t] = tasks[t]
    BY <1>0, OutcomeShape, OutcomeFrame DEF OutcomeRow
  <2> QED
    BY <1>0, <2>1 DEF Running, SameConfig
<1>2. CASE ~\E a \in AttemptID : Outcome(a)
  <2>1. QuietMove(t)
    BY <1>0, <1>2, QuietSteps
  <2> QED
    BY <1>0, <2>1 DEF QuietMove, Moves, Begins, Running
<1> QED
  BY <1>1, <1>2

LEMMA StepLimits ==
  ASSUME RowsInv, RunningWithinLimits, Next
  PROVE  RunningWithinLimits'
<1> USE DEF RowsInv, TypeOK
<1> SUFFICES
      /\ Cardinality(Running') <= GlobalLimit
      /\ \A q \in Queue : QueueLimit[q] > 0 => Cardinality(RunningIn(q)') <= QueueLimit[q]
      /\ \A y \in TaskType : TypeLimit[y] > 0 => Cardinality(RunningOf(y)') <= TypeLimit[y]
  BY DEF RunningWithinLimits, RunningIn, RunningOf, Running
<1>1. /\ Cardinality(Running) <= GlobalLimit
      /\ \A q \in Queue : QueueLimit[q] > 0 => Cardinality(RunningIn(q)) <= QueueLimit[q]
      /\ \A y \in TaskType : TypeLimit[y] > 0 => Cardinality(RunningOf(y)) <= TypeLimit[y]
  BY DEF RunningWithinLimits, RunningIn, RunningOf
<1>2. CASE ~ClaimAnyTask
  <2>1. \A S, T : IsFiniteSet(T) /\ S \subseteq T =>
           Cardinality(S) \in Nat /\ Cardinality(T) \in Nat /\ Cardinality(S) <= Cardinality(T)
    BY FS_Subset, FS_CardinalityType
  <2>2. /\ Running' \subseteq Running
        /\ \A q \in Queue : RunningIn(q)' \subseteq RunningIn(q)
        /\ \A y \in TaskType : RunningOf(y)' \subseteq RunningOf(y)
    BY <1>2, RunningShrinks DEF RunningIn, RunningOf, SameConfig
  <2>3. Cardinality(Running') <= GlobalLimit
    BY <1>1, <2>1, <2>2, RunningFinite, Limits
  <2>4. ASSUME NEW q \in Queue, QueueLimit[q] > 0
        PROVE  Cardinality(RunningIn(q)') <= QueueLimit[q]
    BY <1>1, <2>1, <2>2, <2>4, RunningFinite, Limits
  <2>5. ASSUME NEW y \in TaskType, TypeLimit[y] > 0
        PROVE  Cardinality(RunningOf(y)') <= TypeLimit[y]
    BY <1>1, <2>1, <2>2, <2>5, RunningFinite, Limits
  <2> QED
    BY <2>3, <2>4, <2>5
<1>3. CASE ClaimAnyTask
  <2> PICK t \in TaskID, a \in AttemptID, w \in WorkerID, queue \in Queue,
           types \in SUBSET TaskType : ClaimTask(t, a, w, queue, types)
    BY <1>3 DEF ClaimAnyTask
  <2>1. /\ tasks[t].queue = queue /\ tasks[t].type \in TaskType
        /\ Cardinality(Running) < GlobalLimit
        /\ Admits(QueueLimit[queue], RunningIn(queue))
        /\ Admits(TypeLimit[tasks[t].type], RunningOf(tasks[t].type))
    BY DEF ClaimTask, Claimable, RunningIn, RunningOf, Task
  <2>2. /\ tasks'[t].status = "running" /\ tasks'[t].queue = tasks[t].queue
        /\ tasks'[t].type = tasks[t].type
        /\ \A u \in TaskID \ {t} : tasks'[u] = tasks[u]
    BY DEF ClaimTask, Task
  <2>3. Running' = Running \cup {t}
    BY <2>2 DEF Running
  <2>4. Cardinality(Running') <= GlobalLimit
    BY <2>1, <2>3, AddOne, RunningFinite, Limits
  <2>5. ASSUME NEW q \in Queue, QueueLimit[q] > 0
        PROVE  Cardinality(RunningIn(q)') <= QueueLimit[q]
    <3>1. CASE q = queue
      <4>1. RunningIn(q)' = RunningIn(q) \cup {t}
        BY <2>1, <2>2, <2>3, <3>1 DEF RunningIn, Running
      <4>2. Cardinality(RunningIn(q)) < QueueLimit[q] /\ QueueLimit[q] \in Nat
        BY <2>1, <2>5, <3>1, Limits DEF Admits
      <4> QED
        BY <4>1, <4>2, AddOne, RunningFinite
    <3>2. CASE q # queue
      <4>1. RunningIn(q)' = RunningIn(q)
        BY <2>1, <2>2, <2>3, <3>2 DEF RunningIn, Running
      <4> QED
        BY <1>1, <2>5, <4>1
    <3> QED
      BY <3>1, <3>2
  <2>6. ASSUME NEW y \in TaskType, TypeLimit[y] > 0
        PROVE  Cardinality(RunningOf(y)') <= TypeLimit[y]
    <3>1. CASE y = tasks[t].type
      <4>1. RunningOf(y)' = RunningOf(y) \cup {t}
        BY <2>1, <2>2, <2>3, <3>1 DEF RunningOf, Running
      <4>2. Cardinality(RunningOf(y)) < TypeLimit[y] /\ TypeLimit[y] \in Nat
        BY <2>1, <2>6, <3>1, Limits DEF Admits
      <4> QED
        BY <4>1, <4>2, AddOne, RunningFinite
    <3>2. CASE y # tasks[t].type
      <4>1. RunningOf(y)' = RunningOf(y)
        BY <2>1, <2>2, <2>3, <3>2 DEF RunningOf, Running
      <4> QED
        BY <1>1, <2>6, <4>1
    <3> QED
      BY <3>1, <3>2
  <2> QED
    BY <2>4, <2>5, <2>6
<1> QED
  BY <1>2, <1>3

\* No limit of the configuration is ever exceeded by running tasks.
THEOREM LimitsInvariant == Spec => []RunningWithinLimits
<1>1. Init => RunningWithinLimits
  <2> SUFFICES ASSUME Init PROVE RunningWithinLimits
    OBVIOUS
  <2>1. Running = {}
    BY DEF Init, Running, AbsentTask
  <2> QED
    BY <2>1, FS_EmptySet, Limits DEF RunningWithinLimits
<1>2. RowsInv /\ RunningWithinLimits /\ [Next]_vars => RunningWithinLimits'
  <2>1. ASSUME RunningWithinLimits, UNCHANGED vars PROVE RunningWithinLimits'
    BY <2>1 DEF vars, RunningWithinLimits, Running
  <2> QED
    BY <2>1, StepLimits
<1> QED
  BY <1>1, <1>2, RowsInvariant, PTL DEF Spec

-----------------------------------------------------------------------------
(* NoOvertaking                                                            *)

\* Only a claim starts a task.
LEMMA OnlyClaimsStart ==
  ASSUME RowsInv, Next, ~ClaimAnyTask, NEW t \in TaskID,
         tasks[t].status = "queued"
  PROVE  tasks'[t].status # "running"
<1>1. CASE \E a \in AttemptID : Outcome(a)
  <2>1. PICK a \in AttemptID : Outcome(a)
    BY <1>1
  <2>2. PICK o \in AttemptStatus \ {"running"}, row \in Task, e \in TaskEventType :
          Finish(a, o, row, e) /\ OutcomeRow(a, o, row, e)
    BY <2>1, OutcomeShape
  <2>3. row.status # "running"
    BY <2>2 DEF OutcomeRow
  <2> QED
    BY <2>1, <2>2, <2>3, OutcomeShape, OutcomeFrame
<1>2. CASE ~\E a \in AttemptID : Outcome(a)
  BY <1>2, QuietSteps DEF QuietMove, Moves, Begins
<1> QED
  BY <1>1, <1>2

LEMMA OrderedByNumbers ==
  ASSUME RowsInv, NEW t \in TaskID
  PROVE  tasks[t].priority \in Int /\ tasks[t].created \in Int
<1>1. tasks[t] \in Task
  BY DEF RowsInv, TypeOK
<1>2. tasks[t].priority \in Priority /\ tasks[t].created \in Stamp
  BY <1>1 DEF Task
<1>3. Priority \subseteq Int /\ Stamp \subseteq Int
  <2>1. Priority \subseteq Int /\ Stamp \subseteq Nat
    BY Inputs
  <2> QED
    BY <2>1
<1> QED
  BY <1>2, <1>3

\* A due task of the same queue and type is claimable whenever t is.
LEMMA StepNoOvertaking ==
  ASSUME RowsInv, Next, NEW t \in TaskID, NEW u \in TaskID,
         tasks[t].status = "queued", tasks'[t].status = "running",
         tasks[u].status = "queued", tasks[u].delay = 0,
         tasks[u].queue = tasks[t].queue, tasks[u].type = tasks[t].type
  PROVE  \/ tasks[u].priority < tasks[t].priority
         \/ /\ tasks[u].priority = tasks[t].priority
            /\ tasks[u].created >= tasks[t].created
<1> USE DEF RowsInv, TypeOK
<1>1. ClaimAnyTask
  BY OnlyClaimsStart
<1>2. PICK s \in TaskID, a \in AttemptID, w \in WorkerID, q \in Queue,
           types \in SUBSET TaskType : ClaimTask(s, a, w, q, types)
  BY <1>1 DEF ClaimAnyTask
<1>3. s = t
  BY <1>2 DEF ClaimTask
<1>4. PICK eligible : /\ Claimable(t, q, eligible)
                      /\ \A v \in TaskID : Claimable(v, q, eligible) => Before(t, v)
  BY <1>2, <1>3 DEF ClaimTask
<1>5. Before(t, u)
  BY <1>4 DEF Claimable
<1>6. /\ tasks[t].priority \in Int /\ tasks[u].priority \in Int
      /\ tasks[t].created \in Int /\ tasks[u].created \in Int
  BY OrderedByNumbers
<1> QED
  BY <1>5, <1>6 DEF Before

\* No claim passes over a due task of the same queue and type that comes
\* before by priority and age, whatever types are asked for and whatever
\* limits are exhausted.
THEOREM ClaimsDoNotOvertake == Spec => NoOvertaking
<1> DEFINE overtakes(t, u) ==
      /\ tasks[t].status = "queued" /\ tasks'[t].status = "running"
      /\ tasks[u].status = "queued" /\ tasks[u].delay = 0
      /\ tasks[u].queue = tasks[t].queue /\ tasks[u].type = tasks[t].type
      => \/ tasks[u].priority < tasks[t].priority
         \/ /\ tasks[u].priority = tasks[t].priority
            /\ tasks[u].created >= tasks[t].created
<1>1. RowsInv /\ [Next]_vars => [\A t, u \in TaskID : overtakes(t, u)]_vars
  BY StepNoOvertaking
<1> QED
  BY <1>1, RowsInvariant, PTL DEF Spec, NoOvertaking

-----------------------------------------------------------------------------
(* OnlyHaltedGoStray                                                       *)

\* What is not stray has no live attempt, or one and is held by it.
LEMMA NotStray ==
  ASSUME NEW t, ~Stray(t), NEW a \in LiveAttemptsOf(t)
  PROVE  tasks[t].status \in {"running", "halted"} /\ LiveAttemptsOf(t) = {a}
BY DEF Stray

LEMMA SameLiveAttempts ==
  ASSUME NEW t, \A b \in AttemptID : SameIdentity(b),
         \A b \in AttemptsOf(t) : attempts'[b].status = attempts[b].status
  PROVE  LiveAttemptsOf(t)' = LiveAttemptsOf(t)
BY DEF LiveAttemptsOf, AttemptsOf, SameIdentity

LEMMA StepOnlyHaltedGoStray ==
  ASSUME RowsInv, Next, NEW u \in TaskID, ~Stray(u), Stray(u)'
  PROVE  tasks[u].status = "halted"
<1> USE DEF RowsInv, TypeOK
<1>1. ASSUME ClaimAnyTask PROVE FALSE
  <2> PICK t \in TaskID, a \in AttemptID, w \in WorkerID, q \in Queue,
           types \in SUBSET TaskType : ClaimTask(t, a, w, q, types)
    BY <1>1 DEF ClaimAnyTask
  <2>1. /\ attempts[a].status = "absent" /\ attempts[a].task = None
        /\ attempts'[a].status = "running" /\ attempts'[a].task = t
        /\ \A b \in AttemptID \ {a} : attempts'[b] = attempts[b]
    BY DEF ClaimTask, FreshAttempt, AttemptRows
  <2>2. CASE u = t
    <3>1. tasks[t].status = "queued" /\ tasks'[t].status = "running"
      BY DEF ClaimTask, Claimable, Task
    <3>2. LiveAttemptsOf(t) = {}
      BY <2>2, <3>1, NotStray
    <3>3. LiveAttemptsOf(t)' = {a}
      BY <2>1, <3>2, FiniteIDs DEF LiveAttemptsOf, AttemptsOf
    <3> QED
      BY <2>2, <3>1, <3>3 DEF Stray
  <2>3. CASE u # t
    <3>1. tasks'[u] = tasks[u]
      BY <2>3 DEF ClaimTask
    <3>2. LiveAttemptsOf(u)' = LiveAttemptsOf(u)
      BY <2>1, <2>3, FiniteIDs DEF LiveAttemptsOf, AttemptsOf
    <3> QED
      BY <3>1, <3>2 DEF Stray
  <2> QED
    BY <2>2, <2>3
<1>2. ASSUME ~ClaimAnyTask, \E a \in AttemptID : Outcome(a) PROVE FALSE
  <2> PICK a \in AttemptID : Outcome(a)
    BY <1>2
  <2> PICK o \in AttemptStatus \ {"running"}, row \in Task, e \in TaskEventType :
             Finish(a, o, row, e) /\ OutcomeRow(a, o, row, e)
    BY OutcomeShape
  <2>1. /\ attempts[a].task \in TaskID /\ attempts[a].status = "running"
        /\ attempts'[a].status # "running"
        /\ \A b \in AttemptID \ {a} : attempts'[b] = attempts[b]
        /\ u # attempts[a].task => tasks'[u] = tasks[u]
    BY OutcomeShape, OutcomeFrame
  <2>2. \A b \in AttemptID : SameIdentity(b)
    BY <1>2, OnlyClaimsAddAttempts
  <2>3. CASE u = attempts[a].task
    <3>1. LiveAttemptsOf(u) = {a}
      BY <2>1, <2>3, NotStray DEF LiveAttemptsOf, AttemptsOf
    <3>2. LiveAttemptsOf(u)' = {}
      BY <2>1, <2>2, <3>1 DEF LiveAttemptsOf, AttemptsOf, SameIdentity
    <3> QED
      BY <3>2 DEF Stray
  <2>4. CASE u # attempts[a].task
    <3>1. LiveAttemptsOf(u)' = LiveAttemptsOf(u)
      BY <2>1, <2>2, <2>4, SameLiveAttempts DEF AttemptsOf
    <3> QED
      BY <2>1, <2>4, <3>1 DEF Stray
  <2> QED
    BY <2>3, <2>4
<1>3. ASSUME ~ClaimAnyTask, ~\E a \in AttemptID : Outcome(a)
      PROVE  tasks[u].status = "halted"
  <2>1. QuietMove(u) /\ \A b \in AttemptID : attempts'[b].status = attempts[b].status
    BY <1>3, QuietSteps
  <2>2. LiveAttemptsOf(u)' = LiveAttemptsOf(u)
    BY <1>3, <2>1, OnlyClaimsAddAttempts, SameLiveAttempts DEF AttemptsOf
  <2>3. PICK a \in LiveAttemptsOf(u) :
          \/ tasks'[u].status \notin {"running", "halted"}
          \/ \E b \in LiveAttemptsOf(u) : b # a
    BY <2>2 DEF Stray
  <2>4. /\ tasks[u].status \in {"running", "halted"}
        /\ tasks'[u].status \notin {"running", "halted"}
    BY <2>3, NotStray
  <2> QED
    BY <2>1, <2>4 DEF QuietMove, Moves, Begins
<1> QED
  BY <1>1, <1>2, <1>3

\* Attempts of one task run beside each other, or beside a task that is over,
\* only after an operator moved the task out of halted.
THEOREM OnlyHaltedTasksGoStray == Spec => OnlyHaltedGoStray
<1>1. RowsInv /\ [Next]_vars =>
        [\A t \in TaskID : ~Stray(t) /\ Stray(t)' => tasks[t].status = "halted"]_vars
  BY StepOnlyHaltedGoStray
<1> QED
  BY <1>1, RowsInvariant, PTL DEF Spec, OnlyHaltedGoStray

-----------------------------------------------------------------------------
(* retryBackoff                                                            *)

\* The delay before it is capped, for a shift of i.
Doubled(i) == RetryBaseDelay * <<1, 2, 4, 8, 16, 32, 64, 128>>[i + 1]

LEMMA DoubledValues ==
  LET b == RetryBaseDelay
  IN  /\ Doubled(0) = b /\ Doubled(1) = 2 * b /\ Doubled(2) = 4 * b /\ Doubled(3) = 8 * b
      /\ Doubled(4) = 16 * b /\ Doubled(5) = 32 * b /\ Doubled(6) = 64 * b
      /\ Doubled(7) = 128 * b
BY Times DEF Doubled

LEMMA DoubledGrows ==
  ASSUME NEW i \in 0 .. 7, NEW j \in 0 .. 7, i <= j
  PROVE  /\ Doubled(i) \in Nat /\ Doubled(j) \in Nat
         /\ RetryBaseDelay <= Doubled(i) /\ Doubled(i) <= Doubled(j)
<1>1. \A n \in 0 .. 7 : n \in {0, 1, 2, 3, 4, 5, 6, 7}
  OBVIOUS
<1>2. i \in {0, 1, 2, 3, 4, 5, 6, 7} /\ j \in {0, 1, 2, 3, 4, 5, 6, 7} /\ i <= j
  BY <1>1
<1> QED
  BY <1>2, DoubledValues, Times

\* However often a task has failed, the next delay is at least the last one
\* and at most the maximum, and none is below the base unless the maximum is.
THEOREM BackoffGrowsToItsMaximum ==
  ASSUME NEW j \in Nat, NEW k \in Nat, j <= k
  PROVE  /\ retryBackoff(j) <= retryBackoff(k) /\ retryBackoff(k) <= RetryMaxDelay
         /\ RetryBaseDelay <= RetryMaxDelay => RetryBaseDelay <= retryBackoff(j)
<1> DEFINE shift(n) == IF n > 7 THEN 7 ELSE n
<1>1. \A n \in Nat : retryBackoff(n) =
        IF Doubled(shift(n)) > RetryMaxDelay THEN RetryMaxDelay ELSE Doubled(shift(n))
  BY DEF retryBackoff, Doubled
<1>2. shift(j) \in 0 .. 7 /\ shift(k) \in 0 .. 7 /\ shift(j) <= shift(k)
  OBVIOUS
<1> HIDE DEF shift
<1>3. /\ Doubled(shift(j)) \in Nat /\ Doubled(shift(k)) \in Nat
      /\ RetryBaseDelay <= Doubled(shift(j)) /\ Doubled(shift(j)) <= Doubled(shift(k))
  BY <1>2, DoubledGrows
<1> QED
  BY <1>1, <1>3, Times

=============================================================================
