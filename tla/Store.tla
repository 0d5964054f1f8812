------------------------------- MODULE Store -------------------------------
(***************************************************************************)
(* The state machine ErmineTQ keeps in SQLite: the rows of the tables      *)
(* tasks, attempts, workers and task_events, and every write transaction   *)
(* of internal/store that changes them.                                    *)
(*                                                                         *)
(* All writes run one at a time on one goroutine, each in one SQL          *)
(* transaction (store.go, writeLoop and execTx), so an action of this      *)
(* module is one whole transaction.  The callers (HTTP handlers, the       *)
(* worker pool, the scheduler, Python workers) are the most general ones:  *)
(* any transaction may be asked for at any moment, with any row.           *)
(*                                                                         *)
(* Time is relative.  The code compares timestamps with "now" only, so a   *)
(* task carries the ticks left until run_at (`delay') and a running        *)
(* attempt the ticks since its last heartbeat, or since it was started if  *)
(* there was none (`idle', which stops at HeartbeatCutoff); Tick moves     *)
(* both.  The rows survive a crash of the server, so a crash is no action  *)
(* here: a transaction that did not commit did not happen.                 *)
(***************************************************************************)
EXTENDS Integers, FiniteSets, FiniteSetsExt

CONSTANTS
  TaskID, AttemptID, WorkerID,  \* the ids NewID may return, one set per table
  TaskType, Queue,              \* the names a task may carry
  None,                         \* SQL NULL, for parent_id
  Priority,                     \* the priorities callers use
  MaxRetries,                   \* the max_retries callers pass, 0 for "not given"
  DefaultMaxRetries,            \* what CreateTask puts in place of 0
  Concurrency,                  \* the concurrency workers register with
  Delay,                        \* how far ahead callers put run_at
  Stamp,                        \* the values of created_at, in whole seconds
  GlobalLimit,                  \* cfg.Limits.Global
  QueueLimit, TypeLimit,        \* cfg.QueueLimit, cfg.TaskTypeLimit; 0 = unlimited
  RetryBaseDelay, RetryMaxDelay,\* retryBaseDelay and retryMaxDelay in ticks
  HeartbeatCutoff               \* the age at which a heartbeat is stale

ASSUME FiniteIDs ==
  /\ IsFiniteSet(TaskID) /\ IsFiniteSet(AttemptID)
  /\ None \notin TaskID

ASSUME Inputs ==
  /\ TaskType # {} /\ Queue # {}
  /\ Priority \subseteq Int /\ Priority # {}
  /\ MaxRetries \subseteq Int /\ DefaultMaxRetries \in Nat \ {0}
  /\ Concurrency \subseteq Int
  /\ Delay \subseteq Nat
  /\ Stamp \subseteq Nat /\ Stamp # {}

\* config.validate: the global limit is at least 1, the others at least 0.
ASSUME Limits ==
  /\ GlobalLimit \in Nat \ {0}
  /\ QueueLimit \in [Queue -> Nat]
  /\ TypeLimit \in [TaskType -> Nat]

ASSUME Times ==
  /\ RetryBaseDelay \in Nat /\ RetryMaxDelay \in Nat
  /\ HeartbeatCutoff \in Nat

VARIABLES
  tasks,      \* the tasks table
  attempts,   \* the attempts table
  workers,    \* the workers table
  lastEvent   \* per task, the event of its newest task_events row

vars == <<tasks, attempts, workers, lastEvent>>

-----------------------------------------------------------------------------
(* Rows.  A row that does not exist (yet) has the status "absent".         *)

TaskStatus == {"queued", "running", "retrying", "succeeded", "dead",
               "halted", "cancelled", "superseded"}

AttemptStatus == {"running", "succeeded", "failed", "cancelled"}

\* "superseded" goes to the event stream only, and is never stored.
TaskEventType == {"queued", "started", "succeeded", "retrying", "dead",
                  "halted", "cancelled", "heartbeat_timeout"}

Task == [status: TaskStatus \cup {"absent"}, type: TaskType, queue: Queue,
         priority: Priority, retry_count: Nat, max_retries: Int,
         delay: Nat, created: Stamp, parent: TaskID \cup {None}]

Attempt == [status: AttemptStatus \cup {"absent"}, task: TaskID \cup {None},
            worker: WorkerID \cup {None}, attempt_num: Nat,
            idle: 0..HeartbeatCutoff]

Worker == [registered: BOOLEAN, concurrency: Nat \ {0},
           current_task_count: Int, status: {"idle", "busy"}]

AbsentTask ==
  [status |-> "absent", type |-> CHOOSE y \in TaskType : TRUE,
   queue |-> CHOOSE q \in Queue : TRUE,
   priority |-> CHOOSE p \in Priority : TRUE, retry_count |-> 0,
   max_retries |-> 0, delay |-> 0, created |-> CHOOSE s \in Stamp : TRUE,
   parent |-> None]

AbsentAttempt ==
  [status |-> "absent", task |-> None, worker |-> None, attempt_num |-> 0,
   idle |-> 0]

AbsentWorker ==
  [registered |-> FALSE, concurrency |-> 1, current_task_count |-> 0,
   status |-> "idle"]

\* One row per entity; worker ids that were never registered own no row.
TypeOK ==
  /\ tasks \in [TaskID -> Task]
  /\ attempts \in [AttemptID -> Attempt]
  /\ workers \in [WorkerID -> Worker]
  /\ lastEvent \in [TaskID -> TaskEventType \cup {"none"}]

Init ==
  /\ tasks = [t \in TaskID |-> AbsentTask]
  /\ attempts = [a \in AttemptID |-> AbsentAttempt]
  /\ workers = [w \in WorkerID |-> AbsentWorker]
  /\ lastEvent = [t \in TaskID |-> "none"]

-----------------------------------------------------------------------------
(* What the transactions read.                                             *)

Running == {t \in TaskID : tasks[t].status = "running"}

AttemptsOf(t) == {a \in AttemptID : attempts[a].task = t}

LiveAttemptsOf(t) == {a \in AttemptsOf(t) : attempts[a].status = "running"}

LiveAttemptsOn(w) ==
  {a \in AttemptID : attempts[a].worker = w /\ attempts[a].status = "running"}

\* Mistake: numbering attempts by the retries the task counts.
PrevAttemptNumFromRetries(t) == tasks[t].retry_count

\* SELECT COALESCE(MAX(attempt_num), 0)
PrevAttemptNum(t) ==
  IF AttemptsOf(t) = {} THEN 0
  ELSE Max({attempts[a].attempt_num : a \in AttemptsOf(t)})

\* NewID never returns an id some row already holds or refers to.
FreshTask(t) == tasks[t].status = "absent"
FreshAttempt(a) == attempts[a].status = "absent"
FreshWorker(w) ==
  ~workers[w].registered /\ \A a \in AttemptID : attempts[a].worker # w

\* The delay before a retry; k is retry_count before it is incremented.
retryBackoff(k) ==
  LET maxShift == 7
      shift == IF k > maxShift THEN maxShift ELSE k
      d == RetryBaseDelay * <<1, 2, 4, 8, 16, 32, 64, 128>>[shift + 1]
  IN  IF d > RetryMaxDelay THEN RetryMaxDelay ELSE d

-----------------------------------------------------------------------------
(* Registration and creation.                                              *)

CreateWorker(w, c) ==
  /\ FreshWorker(w)
  /\ workers' = [workers EXCEPT ![w] =
       [registered |-> TRUE, concurrency |-> IF c <= 0 THEN 1 ELSE c,
        current_task_count |-> 0, status |-> "idle"]]
  /\ UNCHANGED <<tasks, attempts, lastEvent>>

\* created_at is read before the write is queued, so a row may be inserted
\* with a stamp older than that of rows already there.
CreateTask(t, type, queue, priority, maxRetries, delay, created) ==
  /\ FreshTask(t)
  /\ tasks' = [tasks EXCEPT ![t] =
       [status |-> "queued", type |-> type, queue |-> queue,
        priority |-> priority, retry_count |-> 0,
        max_retries |-> IF maxRetries = 0 THEN DefaultMaxRetries ELSE maxRetries,
        delay |-> delay, created |-> created, parent |-> None]]
  /\ lastEvent' = [lastEvent EXCEPT ![t] = "queued"]
  /\ UNCHANGED <<attempts, workers>>

-----------------------------------------------------------------------------
(* ClaimTask: three capacity guards, then the queued task that comes first *)
(* by priority DESC, created_at ASC.                                       *)

\* Mistake: the limit itself is let through.
AdmitsOneMore(limit, occupants) == limit = 0 \/ Cardinality(occupants) <= limit

\* A queue or type limit of 0 is no limit.
Admits(limit, occupants) == limit = 0 \/ Cardinality(occupants) < limit

Claimable(t, queue, types) ==
  /\ tasks[t].status = "queued"
  /\ tasks[t].queue = queue
  /\ tasks[t].type \in types
  /\ tasks[t].delay = 0

\* Mistake: ORDER BY created_at alone.
BeforeByAge(t, u) == tasks[t].created <= tasks[u].created

Before(t, u) ==
  \/ tasks[t].priority > tasks[u].priority
  \/ /\ tasks[t].priority = tasks[u].priority
     /\ tasks[t].created <= tasks[u].created

\* The worker's count moves with its attempts; its concurrency is recorded
\* in `status' and refuses nothing.
Occupy(w) ==
  workers' = IF ~workers[w].registered THEN workers
             ELSE LET n == workers[w].current_task_count + 1
                      status == IF n >= workers[w].concurrency
                                THEN "busy" ELSE "idle"
                  IN [workers EXCEPT ![w] =
                        [@ EXCEPT !.current_task_count = n, !.status = status]]

ClaimTask(t, a, w, queue, types) ==
  LET eligible == {y \in types : Admits(TypeLimit[y],
                                   {u \in Running : tasks[u].type = y})}
  IN
  /\ FreshAttempt(a)
  /\ Cardinality(Running) < GlobalLimit
  /\ Admits(QueueLimit[queue], {u \in Running : tasks[u].queue = queue})
  /\ Claimable(t, queue, eligible)
  /\ \A u \in TaskID : Claimable(u, queue, eligible) => Before(t, u)
  /\ tasks' = [tasks EXCEPT ![t].status = "running"]
  /\ attempts' = [attempts EXCEPT ![a] =
       [status |-> "running", task |-> t, worker |-> w,
        attempt_num |-> PrevAttemptNum(t) + 1, idle |-> 0]]
  /\ Occupy(w)
  /\ lastEvent' = [lastEvent EXCEPT ![t] = "started"]

-----------------------------------------------------------------------------
(* Outcomes of attempts.  Each asks only that the ATTEMPT is running       *)
(* (loadRunningAttempt); the status of its task is not read.               *)

\* Mistake: any existing attempt will do.
loadAnyAttempt(a) == attempts[a].status # "absent"

loadRunningAttempt(a) == attempts[a].status = "running"

Release(w) ==
  workers' = IF ~workers[w].registered THEN workers
             ELSE LET n == workers[w].current_task_count - 1
                      status == IF n < workers[w].concurrency
                                THEN "idle" ELSE "busy"
                  IN [workers EXCEPT ![w] =
                        [@ EXCEPT !.current_task_count = n, !.status = status]]

\* What every outcome does; heartbeat_at of an attempt that is not running
\* is never read again.
Finish(a, outcome, row, event) ==
  /\ loadRunningAttempt(a)
  /\ attempts' = [attempts EXCEPT ![a] = [@ EXCEPT !.status = outcome, !.idle = 0]]
  /\ tasks' = [tasks EXCEPT ![attempts[a].task] = row]
  /\ Release(attempts[a].worker)
  /\ lastEvent' = [lastEvent EXCEPT ![attempts[a].task] = event]

Row(a) == tasks[attempts[a].task]

\* Mistake: one retry too many.
HasRetryLeftOneMore(a) == Row(a).retry_count <= Row(a).max_retries

HasRetryLeft(a) == Row(a).retry_count < Row(a).max_retries

\* Mistake: the attempt's status for a task.
RetryOrFail(a) ==
  IF HasRetryLeft(a) THEN [Row(a) EXCEPT !.status = "retrying", !.retry_count = @ + 1]
                     ELSE [Row(a) EXCEPT !.status = "failed"]

RetryOrBury(a) ==
  IF HasRetryLeft(a)
  THEN [Row(a) EXCEPT !.status = "retrying",
                      !.retry_count = @ + 1,
                      !.delay = retryBackoff(Row(a).retry_count)]
  ELSE [Row(a) EXCEPT !.status = "dead"]

SucceedAttempt(a) ==
  Finish(a, "succeeded", [Row(a) EXCEPT !.status = "succeeded"], "succeeded")

FailAttempt(a) ==
  Finish(a, "failed", RetryOrBury(a),
         IF HasRetryLeft(a) THEN "retrying" ELSE "dead")

\* Mistake: the attempt of a task that is to be retried ends as cancelled.
TimeoutAttemptAsCancelled(a) ==
  Finish(a, "cancelled", RetryOrBury(a), "heartbeat_timeout")

\* Mistake: a timeout does not count as a retry.
TimeoutAttemptUncounted(a) ==
  Finish(a, "failed", [RetryOrBury(a) EXCEPT !.retry_count = Row(a).retry_count],
         "heartbeat_timeout")

TimeoutAttempt(a) ==
  Finish(a, "failed", RetryOrBury(a), "heartbeat_timeout")

CancelAttempt(a) ==
  Finish(a, "cancelled", [Row(a) EXCEPT !.status = "cancelled"], "cancelled")

\* A heartbeat for an attempt that is not running updates no row.
UpdateHeartbeat(a) ==
  /\ attempts[a].status = "running"
  /\ attempts' = [attempts EXCEPT ![a].idle = 0]
  /\ UNCHANGED <<tasks, workers, lastEvent>>

\* The list FindStaleAttempts returns.
StaleAttempts ==
  {a \in AttemptID : /\ attempts[a].status = "running"
                     /\ attempts[a].idle = HeartbeatCutoff}

-----------------------------------------------------------------------------
(* Operator controls.                                                      *)

Control(t, from, row, event) ==
  /\ tasks[t].status \in from
  /\ tasks' = [tasks EXCEPT ![t] = row]
  /\ lastEvent' = [lastEvent EXCEPT ![t] = event]
  /\ UNCHANGED <<attempts, workers>>

\* Mistake: a task that waits can be halted too.
HaltTaskWaiting(t) ==
  Control(t, {"queued", "running"}, [tasks[t] EXCEPT !.status = "halted"], "halted")

\* The running attempt is left running.
HaltTask(t) ==
  Control(t, {"running"}, [tasks[t] EXCEPT !.status = "halted"], "halted")

\* Mistake: no event.
ResumeTaskSilently(t) ==
  Control(t, {"halted"}, [tasks[t] EXCEPT !.status = "queued", !.delay = 0], lastEvent[t])

ResumeTask(t) ==
  Control(t, {"halted"},
          [tasks[t] EXCEPT !.status = "queued", !.delay = 0], "queued")

\* Mistake: a task can be cancelled while it runs.
CancelTaskRunning(t) ==
  Control(t, {"queued", "running", "halted"},
          [tasks[t] EXCEPT !.status = "cancelled"], "cancelled")

CancelTask(t) ==
  Control(t, {"queued", "halted"},
          [tasks[t] EXCEPT !.status = "cancelled"], "cancelled")

RetryTask(t) ==
  Control(t, {"dead", "cancelled"},
          [tasks[t] EXCEPT !.status = "queued", !.retry_count = 0, !.delay = 0],
          "queued")

\* The original row gets no event; its replacement n gets "queued".  Unlike
\* in CreateTask the stamp is read inside the transaction.
RestartTask(t, n, created) ==
  /\ FreshTask(n)
  /\ tasks[t].status \in {"queued", "succeeded", "dead", "cancelled", "halted"}
  /\ \A u \in TaskID : ~FreshTask(u) => tasks[u].created <= created
  /\ tasks' = [tasks EXCEPT
       ![t].status = "superseded",
       ![n] = [tasks[t] EXCEPT !.status = "queued", !.retry_count = 0,
                               !.delay = 0, !.created = created, !.parent = t]]
  /\ lastEvent' = [lastEvent EXCEPT ![n] = "queued"]
  /\ UNCHANGED <<attempts, workers>>

-----------------------------------------------------------------------------
(* Maintenance and the clock.                                              *)

\* One UPDATE for all due tasks; no event is written.
RequeueRetrying ==
  LET due == {t \in TaskID : tasks[t].status = "retrying" /\ tasks[t].delay = 0}
  IN
  /\ due # {}
  /\ tasks' = [t \in TaskID |->
       IF t \in due THEN [tasks[t] EXCEPT !.status = "queued"] ELSE tasks[t]]
  /\ UNCHANGED <<attempts, workers, lastEvent>>

Tick ==
  /\ tasks' = [t \in TaskID |->
       [tasks[t] EXCEPT !.delay = IF @ = 0 THEN 0 ELSE @ - 1]]
  /\ attempts' = [a \in AttemptID |->
       IF attempts[a].status = "running" /\ attempts[a].idle < HeartbeatCutoff
       THEN [attempts[a] EXCEPT !.idle = @ + 1] ELSE attempts[a]]
  /\ UNCHANGED <<workers, lastEvent>>

-----------------------------------------------------------------------------

CreateAnyTask ==
  \E t \in TaskID, y \in TaskType, q \in Queue, p \in Priority,
     m \in MaxRetries, d \in Delay, c \in Stamp : CreateTask(t, y, q, p, m, d, c)

ClaimAnyTask ==
  \E t \in TaskID, a \in AttemptID, w \in WorkerID, q \in Queue,
     types \in SUBSET TaskType : ClaimTask(t, a, w, q, types)

RestartAnyTask ==
  \E t \in TaskID, n \in TaskID, c \in Stamp : RestartTask(t, n, c)

Next ==
  \/ \E w \in WorkerID, c \in Concurrency : CreateWorker(w, c)
  \/ CreateAnyTask
  \/ ClaimAnyTask
  \/ \E a \in AttemptID : SucceedAttempt(a)
  \/ \E a \in AttemptID : FailAttempt(a)
  \/ \E a \in AttemptID : CancelAttempt(a)
  \/ \E a \in AttemptID : TimeoutAttempt(a)
  \/ \E a \in AttemptID : UpdateHeartbeat(a)
  \/ \E t \in TaskID : HaltTask(t)
  \/ \E t \in TaskID : ResumeTask(t)
  \/ \E t \in TaskID : CancelTask(t)
  \/ \E t \in TaskID : RetryTask(t)
  \/ RestartAnyTask
  \/ RequeueRetrying
  \/ Tick

Spec == Init /\ [][Next]_vars

-----------------------------------------------------------------------------
(* Safety.                                                                 *)

\* current_task_count is only ever moved by +1 and -1, never recomputed.  It
\* still is the number of attempts running on the worker, whatever the order
\* of claims, outcomes, timeouts and operator controls, and the worker is
\* shown as busy exactly when that number has reached its concurrency.
WorkerCountMatches ==
  \A w \in WorkerID : workers[w].registered =>
    /\ workers[w].current_task_count = Cardinality(LiveAttemptsOn(w))
    /\ workers[w].status = "busy" <=>
         workers[w].current_task_count >= workers[w].concurrency

\* A task that is running or halted has a running attempt, and it is the one
\* claimed last: no late outcome, timeout or control can leave such a task
\* with nothing that will ever move it on.
HeldTaskHasLiveAttempt ==
  \A t \in TaskID : tasks[t].status \in {"running", "halted"} =>
    \E a \in AttemptsOf(t) :
      /\ attempts[a].status = "running"
      /\ \A b \in AttemptsOf(t) : attempts[b].attempt_num <= attempts[a].attempt_num

\* However many attempts of one task fail, time out or are resumed beside
\* each other, its retries stay within max_retries, and it is dead only when
\* they are used up: of the errors DESIGN.md calls non-retryable the code knows
\* nothing.  A negative max_retries grants none.
RetryBudget ==
  \A t \in TaskID :
    /\ tasks[t].retry_count = 0 \/ tasks[t].retry_count <= tasks[t].max_retries
    /\ tasks[t].status = "dead" => tasks[t].retry_count >= tasks[t].max_retries

\* The number of running TASKS never exceeds the global limit, the limit of
\* a queue or the limit of a type, though the guards of ClaimTask are
\* evaluated for one queue and a list of types at a time.
RunningWithinLimits ==
  /\ Cardinality(Running) <= GlobalLimit
  /\ \A q \in Queue : QueueLimit[q] > 0 =>
       Cardinality({t \in Running : tasks[t].queue = q}) <= QueueLimit[q]
  /\ \A y \in TaskType : TypeLimit[y] > 0 =>
       Cardinality({t \in Running : tasks[t].type = y}) <= TypeLimit[y]

\* A task is reported as succeeded, dead or retrying only if its history
\* holds an attempt that ended that way.
OutcomeBacked ==
  \A t \in TaskID :
    /\ tasks[t].status = "succeeded" =>
         \E a \in AttemptsOf(t) : attempts[a].status = "succeeded"
    /\ tasks[t].status \in {"dead", "retrying"} =>
         \E a \in AttemptsOf(t) : attempts[a].status = "failed"

\* attempt_num counts the attempts of a task without gap or repetition, also
\* when a task is resumed, retried or requeued in between.
AttemptHistory ==
  \A t \in TaskID :
    {attempts[a].attempt_num : a \in AttemptsOf(t)} = 1..Cardinality(AttemptsOf(t))

\* The events the newest task_events row of a task with this status may be.
EventsOf(status) ==
  CASE status = "absent" -> {"none"}
    [] status = "running" -> {"started"}
    [] status \in {"retrying", "dead"} -> {status, "heartbeat_timeout"}
    [] OTHER -> {status}

\* RequeueRetrying and the superseding half of RestartTask write no event
\* (TransitionsRecorded).  Whatever comes before and after, the timeline lags
\* only by that: behind a queued task whose failure was counted as a retry, or
\* behind a superseded one that was not running.
TimelineGaps ==
  \A t \in TaskID : lastEvent[t] \notin EventsOf(tasks[t].status) =>
    \/ /\ tasks[t].status = "queued" /\ tasks[t].retry_count > 0
       /\ lastEvent[t] \in EventsOf("retrying")
    \/ /\ tasks[t].status = "superseded"
       /\ lastEvent[t] \notin {"none", "started"}

\* An attempt has one outcome: when a worker's report, a cancellation and the
\* heartbeat scanner race for the same attempt, the first wins and nothing
\* rewrites it.
OutcomeIsFinal ==
  [][\A a \in AttemptID :
       attempts[a].status \in AttemptStatus \ {"running"} =>
         attempts'[a] = attempts[a]]_vars

\* Whatever list of types a worker asks for and whatever limits are exhausted,
\* no due task of the same queue and type with a higher priority, or with the
\* same priority and an older created_at, waits while a task is started.
NoOvertaking ==
  [][\A t, u \in TaskID :
       /\ tasks[t].status = "queued" /\ tasks'[t].status = "running"
       /\ tasks[u].status = "queued" /\ tasks[u].delay = 0
       /\ tasks[u].queue = tasks[t].queue /\ tasks[u].type = tasks[t].type
       => \/ tasks[u].priority < tasks[t].priority
          \/ /\ tasks[u].priority = tasks[t].priority
             /\ tasks[u].created >= tasks[t].created]_vars

\* An attempt goes on though its task is not being executed, or is executed by
\* another attempt.
Stray(t) ==
  \E a \in LiveAttemptsOf(t) :
    \/ tasks[t].status \notin {"running", "halted"}
    \/ \E b \in LiveAttemptsOf(t) : b # a

\* A task is executed twice at once, or on after its end, only if an operator
\* moved it out of halted: no order of claims, reports, timeouts, requeues and
\* other controls does that.
OnlyHaltedGoStray ==
  [][\A t \in TaskID : ~Stray(t) /\ Stray(t)' => tasks[t].status = "halted"]_vars

-----------------------------------------------------------------------------
(* The promise: TaskLedger.                                                *)

LedgerState(status) ==
  CASE status = "absent" -> "absent"
    [] status \in {"queued", "retrying"} -> "waiting"
    [] status = "running" -> "held"
    [] status = "halted" -> "suspended"
    [] status = "succeeded" -> "done"
    [] status \in {"dead", "cancelled"} -> "given up"
    [] status = "superseded" -> "replaced"

RetriesOf(maxRetries) == IF maxRetries > 0 THEN maxRetries ELSE 0

WorthOf(row) == IF row.status = "absent" THEN 0 ELSE 1 + RetriesOf(row.max_retries)

\* The retries left, and the start a queued or retrying task is waiting for.
LeftOf(row) ==
  RetriesOf(row.max_retries) - row.retry_count
    + IF row.status \in {"queued", "retrying"} THEN 1 ELSE 0

\* The attempts of a task by their numbers.
LedgerOf(t) ==
  [k \in 1..Cardinality(AttemptsOf(t)) |->
     LET a == CHOOSE a \in AttemptsOf(t) : attempts[a].attempt_num = k
     IN  [worker |-> attempts[a].worker, outcome |-> attempts[a].status]]

Ledger == INSTANCE TaskLedger WITH
  Worth <- {1 + RetriesOf(IF m = 0 THEN DefaultMaxRetries ELSE m) : m \in MaxRetries},
  state <- [t \in TaskID |-> LedgerState(tasks[t].status)],
  worth <- [t \in TaskID |-> WorthOf(tasks[t])],
  left <- [t \in TaskID |-> LeftOf(tasks[t])],
  ledger <- [t \in TaskID |-> LedgerOf(t)]

\* The four tables implement a ledger of starts: attempts are numbered as they
\* are claimed, end once, and are not lost or invented; whatever the order of
\* claims, late reports, timeouts and controls, a task is started at most
\* 1 + max_retries times unless an operator resumes, retries or restarts it,
\* and a failure is final exactly when these starts are used up.  (DESIGN.md,
\* section 8, lets a non-retryable error end a task too.  The code has no such
\* errors.)
ImplementsTaskLedger == Ledger!Spec

-----------------------------------------------------------------------------
(* What the documents say of the store, and the code does not do.          *)

\* docs/DESIGN.md section 8: the arrows of the state machine, with the
\* sources control.go gives for cancel, retry and restart.
DocumentedTransitions ==
  {<<"absent", "queued">>, <<"queued", "running">>, <<"queued", "cancelled">>,
   <<"running", "succeeded">>, <<"running", "retrying">>, <<"running", "dead">>,
   <<"running", "halted">>, <<"running", "cancelled">>,
   <<"retrying", "queued">>,
   <<"halted", "queued">>, <<"halted", "cancelled">>,
   <<"dead", "queued">>, <<"cancelled", "queued">>}
  \cup {<<s, "superseded">> : s \in {"queued", "succeeded", "dead", "cancelled", "halted"}}

\* "Invalid transitions are rejected by the Store layer": no step takes a
\* task along an arrow the documents do not draw.
InvalidTransitionsRejected ==
  [][\A t \in TaskID : tasks'[t].status # tasks[t].status =>
       <<tasks[t].status, tasks'[t].status>> \in DocumentedTransitions]_vars

\* "Each state transition updates `tasks`, `attempts`, `workers`, and
\* `task_events` in a single transaction": a step that changes the status of a
\* task leaves the event of the new status as its newest one.
TransitionsRecorded ==
  [][\A t \in TaskID : tasks'[t].status # tasks[t].status =>
       lastEvent'[t] \in EventsOf(tasks'[t].status)]_vars

=============================================================================
