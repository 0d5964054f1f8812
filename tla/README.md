# ErmineTQ: TLA+ specifications, model checks and proofs

ErmineTQ is a task queue in one Go process over one SQLite file. This directory holds
its TLA+ specifications, the TLC configurations that check them on small instances, and
TLAPS proofs of the safety results for all values of the constants. Paths below are
relative to `src/`.

Model-check a run with `tlc -workers 2 -config <Run>.cfg <Module>.tla`, check the proofs
with `tlapm StoreProofs.tla` (likewise `LedgerProofs`, `WriteLoopProofs`, `EngineProofs`,
`TaskSchedulerProofs`, `EventStreamProofs`, `ServerProofs`, `MigrateProofs`).
`PROJECT.json` lists the runs, the source lines behind each definition, the hazards, and
for every property a plausible bug that breaks it.

## 1. Inventory

| Component (code) | State | Operations | Modelled in |
|---|---|---|---|
| Store, state machine (`internal/store/tasks, claim, attempts, control, maintenance, workers`) | tables `tasks`, `attempts`, `workers`, `task_events` | create, claim, succeed, fail, cancel, heartbeat, time out, halt, resume, cancel, retry, restart, requeue, register | `Store`, `TaskLedger` |
| Store, write path (`internal/store/store.go`) | `writeCh`, one result channel per write, `closeCh`, `done`, the database handle | `write`, `writeLoop`, `execTx`, `Close` | `WriteLoop`, `AtomicWrites` |
| Schedules (`internal/scheduler/task_scheduler.go, next_run.go`, `internal/store/schedules.go`) | table `schedules`; the list a poll works through | create, patch, initialise, poll, create the due task, record the run | `TaskScheduler` |
| Worker pool (`internal/queue`) | per goroutine: what it runs | `poll`, `RunOnce`: claim, heartbeat, run, report | `Engine` |
| Heartbeat scanner, retry scheduler (`internal/scheduler`) | the list of stale attempts | `Scan`, `Requeue` | `Engine` |
| Server process (`cmd/server/main.go`, `internal/api/server.go`) | starting, serving, shutting down, exited; who still runs | start, failed start, signal, orderly end; crash and restart | `Server`; `Engine` |
| HTTP API (`internal/api`) | none | calls the store | `Store`, `Engine`, `TaskScheduler` (partly) |
| Python pull worker (`sdk/python/erminetq/worker.py`) | per thread: what it runs | claim, run, report over HTTP | `Engine` |
| Event stream (`store.go` `emit`, `internal/api/broker.go`, `events.go`) | input buffer, one buffer per subscriber | `Emit`, `fanOut`, `Subscribe`, `Unsubscribe`, `HandleEvents` | `EventStream`, `LossyStream` |
| Configuration (`internal/config`, `loadConfig`) | read once | `Load`, `validate`, precedence, limits | `Config`, through `Migrate` |
| Migrations (`internal/store/migrate.go`) | `schema_migrations`, the schema | `splitSQL`, apply what is pending | `Migrate` |
| Dashboard, examples | none | | not modelled: no part in the protocol |

How they interact. Everything that changes rows calls a store method; the method builds
a transaction and hands it to `writeLoop`, the one goroutine that executes transactions.
Pool goroutines, HTTP handlers (for operators and Python workers) and the three scheduler
goroutines are all callers, and nothing else orders them. They know an attempt by its id;
what they believe about it may be out of date at any moment. `main` starts everything
under one signal context, and on a signal shuts down HTTP (at most 15 s), the scheduler,
the pool, the broker and the store, in that order.

What is hard, and what makes each part correct:

* **Rows of four tables move together.** A report, a timeout and a control race for one
  task; outcome methods look at the attempt only, controls at the task only.
  `current_task_count` moves by one in many places and is never recomputed. Wanted: the
  counts agree, an outcome is final, a task that is held is held by something that will
  move it on, retries and limits are kept, the timeline tells the story of the row, or where it lags is known.
* **The write path** is two `select`s against a draining `Close`. Wanted: exactly what was
  answered happened, once; everything accepted is answered; `Close` returns.
* **Schedules** are read, then handled with two writes each, while operators patch them.
  Wanted: no run is lost, and at-least-once does not become again-and-again.
* **Executors** lose claims and reports, are cancelled, crash and restart. Wanted: nothing
  they do reaches the rows except through a transaction, no attempt stays running for ever.
* **The event stream** drops and reorders. Wanted: a subscriber never sees an event that
  was not committed, a gap has a cause, and no writer waits for a reader.
* **The end of the process** waits for goroutines that write to a store it is about to
  close. Wanted: the store outlives them, and the process ends.
* **The start** may be half done, repeated, or done twice at once. Wanted: a schema that is
  whole, and a store that is open only when everything is in place.

## 2. Modules

```
AtomicWrites  <== refined by ==  WriteLoop            WriteLoopProofs
     |  (the level of one transaction)
     |  INSTANCE
     v
EventStream   ==  refines  ==>  LossyStream           EventStreamProofs
  MCEventStream
     ^  EXTENDS
Server          MCServer                              ServerProofs

TaskLedger    <== refined by ==  Store                StoreProofs, LedgerProofs
                                   MCStore
Store         <== refined by ==  Engine               EngineProofs
                                   MCEngine

Config  <-- EXTENDS --  Migrate  MCMigrate            MigrateProofs

TaskScheduler (creates tasks that live in Store; here they are counted)
  MCTaskScheduler                                     TaskSchedulerProofs
```

### Store

State: `tasks`, `attempts`, `workers` are functions from ids to rows (status `"absent"`, or
`registered = FALSE`, for a row that is not there); `lastEvent` is the newest `task_events`
row of each task. One action is one transaction: `WriteLoop` is where that is justified.
The callers are the most general ones, any transaction with any row at any time.

| Action | Code |
|---|---|
| `CreateWorker`, `CreateTask` | `workers.go`, `tasks.go`, with the defaults (`max_retries` 0 becomes 3, concurrency below 1 becomes 1) |
| `ClaimTask` | `claim.go`: the guards on the global, queue and type limits, then ORDER BY priority DESC, created_at ASC |
| `SucceedAttempt`, `FailAttempt`, `CancelAttempt`, `UpdateHeartbeat` | `attempts.go`, over `Finish` (`loadRunningAttempt`, both updates, the worker's count, the event) |
| `TimeoutAttempt`, `RequeueRetrying`, `StaleAttempts` | `maintenance.go` |
| `HaltTask`, `ResumeTask`, `CancelTask`, `RetryTask`, `RestartTask` | `control.go` |
| `Tick` | the clock |

Choices a reader should know:

* Timestamps are only ever compared with now, so a task carries the ticks left until
  `run_at` (`delay`) and a running attempt the ticks since its last sign of life (`idle`,
  capped at the cutoff). `created_at` alone is compared between rows and is kept as a stamp.
* `CreateTask` reads `created_at` before its write is queued, so an older stamp may be
  inserted later; `RestartTask` reads it inside the transaction, so its stamp is the newest.
* `attempts.worker` may name a worker that was never registered: whether the driver enforces
  the foreign key depends on how it reads the DSN, and both outcomes are admitted.
* `NewID` returns an id no row holds or refers to.
* A crash of the server is no action: rows survive, an uncommitted transaction did not happen.
* Payloads, results, error texts, `detail` columns and read-only queries are left out.
* `Tick` is always enabled, so absence of deadlock says little of this module.

### TaskLedger

What the tables of `Store` promise together, without queues, limits, workers' counts and
time. A submission is worth 1 + `max_retries` starts. Per task the ledger lists its starts in
order, each with its worker and at most one outcome; `left` is how many starts the task may
still get, the one it is waiting for included. `Start` spends one. A failure takes the task
back to waiting while starts are left and gives it up otherwise; only operators grant more:
`Resume` the one that was suspended, `Reopen` (`RetryTask`) all of them, `Replace`
(`RestartTask`) those of a new task. An outcome that comes late, when the task has been
suspended, replaced or started again, decides the task all the same, which is what
`attempts.go` does; if the task was waiting, it has come instead of the start (`Unstarted`).

`Store` maps to it by `LedgerState`, `WorthOf`, `LeftOf` and `LedgerOf` (the attempts of a
task by `attempt_num`); `ImplementsTaskLedger` is the refinement. It says at once that no
attempt is lost, renumbered or ended twice, that nothing but a claim starts a task, and that
the retries spent and the starts in the ledger keep the same account.

### AtomicWrites and WriteLoop

`AtomicWrites` is the promise: a write takes effect at most once and wholly, the caller is
told the truth or "unknown", nothing takes effect after `Close`. `WriteLoop` is `store.go`:
each case of each `select` is an action (`Send`, `SendCancelled`, `SendRefused`; `Receive`,
`WaitCancelled`), as are the loop's (`TakeOp`, `ExecTx`, `SeeClosed`, `DrainOp`, `Exit`) and
`Close`'s two halves (`SignalClose`, `CloseDB`). Contexts end at any moment, except those of
`Background` callers (outcome reports use `context.Background()`). Each caller writes once;
a goroutine that writes again is another caller.

### TaskScheduler

The rows of `schedules`, and the goroutine: `Start` (`initSchedules`), `InitSchedule`,
`Poll`, then per row `CreateDueTask` or its failure, and `RecordScheduleRun` or
`LeaveUnrecorded`. The list holds rows **as read**; `UpdateSchedule` patches the stored ones
in between. Any write may fail and the server may crash between any two. Time is whole
seconds, the resolution of the stored times; a cron expression matches the multiples of
`CronPeriod`, or parses and has no match within five years, as `0 0 30 2 *`, or does not parse.
For the second kind cron's `Next` returns Go's zero time and no error (`ZeroTime`), which is
stored as year 1 and is due at every poll. `now` is read together with the query of a poll.
`fires` counts the tasks created per schedule and `next_run_at`, `lost` the runs that were
never recorded; a patch that changes when a schedule runs restarts both. `TriggerSchedule`
leaves the schedule's row alone and is a plain `CreateTask`. Template fields are left out.

Intervals are any integers: the API asks only that `interval_secs` is present
(`internal/api/schedules.go:31`). With zero or less the next run is never later than the last
and the schedule fires on every poll; so does one whose expression has no match, once it has
reached the zero time. `RunsPerInstant` promises a number of tasks only for positive intervals
and, at the zero time, for expressions of the other kinds; but it does so also after an operator
has corrected a wrong one, when the row in memory may still hold it. `Instant` has the zero time,
and the times such intervals reach, before zero too.

### Engine

Memory over `Store`'s rows: `server`, the ids of the workers registered by the pool and by
the Python process, `exec` (what each goroutine and thread does, on which attempt), `stale`
(the scanner's list), and the history variable `dropped` (attempts a message about which
got lost).

* Pool goroutine: `GoClaim`, `GoHeartbeat`, `GoDecide` (the handler returned; a cancelled
  context overrides its result, `worker.go:99`), `GoReport`, and what can go wrong:
  `GoClaimLost` (the context ends while `write` waits, the claim commits), `GoReportFails`.
* Scanner and requeue: `Scan`, `TimeoutStale` one at a time, `TimeoutStaleFails` (the write
  fails and the sweep goes on), `AbandonScan`, `Requeue`. A `FindStaleAttempts` or
  `RequeueRetrying` that fails changes nothing and is no step.
* Python thread: `PyClaim`, `PyDecide`, `PyReport`, with lost requests and responses. A
  success whose report raises is reported as a failure; a failure whose report raises ends
  the thread; a report that is refused, as one of a failure without a text is
  (`pull_worker.go:99`), is only logged. It never sends a heartbeat.
* Server: `Start` registers a new pool worker each time; `Stop`, `Stopped`, `Crash`. HTTP
  outlives the signal for a while, so operators and Python threads may act until "down".
* `GoClaim` and `PyClaim` ask for one queue and all its types, as the pool does.

### LossyStream and EventStream

`LossyStream` is the promise: hints about committed writes, each at most once, in one order
that is the same for all clients; hints may be missing. `EventStream` is the code over the
store as `AtomicWrites` describes it:

| Action | Code |
|---|---|
| `Commit`, `Reject`, `Refuse`, `Answer` | `Store.write`, as `AtomicWrites`; callers in `Background` are never told "unknown" |
| `Emit` | `Store.emit` and `Broker.Emit`: a non-blocking send after a successful write; `RestartTask` emits two events, `RequeueRetrying` none |
| `Take`, `FanOut`, `BrokerStop` | `Broker.run`: one case of its `select`, then `fanOut` under `subsMu` |
| `Subscribe`, `Flush`, `Deliver`, `Unsubscribe` | `HandleEvents`: subscribe, then the headers, then an event at a time; the deferred `Unsubscribe` |
| `Fetch` | external: a client that reads the rows when it has connected and after every event, as `events.go` and `store.go` tell it to |
| `Stop`, `CloseStore` | the end of the server's context; `Store.Close` |

The events that entered the input channel are kept in `published`; `taken` and `fanned` are
places in it, so what is in the channel is what lies behind `taken`. A subscriber's buffer
holds places. What an event says beyond "something happened to this task" is left out.

### Server

`cmdServer` around `EventStream`: `phase` is the line `main` is at, `pc` what each caller
does. Callers are pool goroutines (`Pool`, which report with `context.Background()`),
scheduler goroutines (`Sched`) and HTTP requests; each makes one write. `Start`, `Listen`,
`StartFails`, `Signal`, `BeginShutdown`, `ShutdownDrained` or `ShutdownExpires` (15 s),
`Waits` (scheduler, pool and broker) and `Exit` are in the order of the code; an event stream
counts as a connection `Shutdown` waits for. What the callers do besides one write is in
`Engine`, `TaskScheduler` and `Store`.

### Config and Migrate

`Config` has `Load`, `validate` and the accessors as operators; a TOML file is absent, cannot
be parsed, or is the keys it has. `Migrate` is the way of a process (`server`, `migrate`) from
its command line to an open store: `LoadConfig` (or `LoadConfigFails`, for good),
`EnsureTable`, `ReadApplied`, then per pending version `BeginMigration`, one `Exec` per
statement of `splitSQL`, and `Record`, which is the INSERT and the commit; then `Opened`.
Processes may be of different releases (`Binary`), run on one database at once, and be killed
or fail anywhere (`Fault`).

* A script is a sequence of lines: blank or comment, text, text that ends in a semicolon, a
  lone semicolon. A line of SQL cannot be executed twice on one database, since the scripts
  create things.
* `splitSQL` is a recursive function over the lines (`Split`, one `AddLine` per line);
  `written` is what an open transaction has executed, which the others see once it commits.
* SQLite is taken to execute a transaction wholly or not at all, with one writer at a time;
  one that meets another writer waits or fails (`FailOnOther`).
* A failed operation rolls its transaction back and ends the process; so does a kill (`Exit`).

## 3. Runs

| Run | Checks | What it shows |
|---|---|---|
| `StoreLifecycle` | `TypeOK`, `WorkerCountMatches`, `HeldTaskHasLiveAttempt`, `OutcomeBacked`, `RetryBudget`, `AttemptHistory`, `TimelineGaps`, `OutcomeIsFinal`, `NoOvertaking`, `OnlyHaltedGoStray`, `ImplementsTaskLedger` | the tables agree, whatever transactions come in whatever order; the timeline lags by a requeue or a superseding only; retries stay within `max_retries`, also of attempts beside each other; no claim overtakes; a task runs twice at once only after it was halted; the rows are a ledger of the starts each task is worth |
| `StoreLimits` | `RunningWithinLimits` | three nested limits hold together |
| `WriteLoop` | `TypeOK`, `ImplementsAtomicWrites`, `OnlyLateSendsAreStranded`, `AcceptedWriteAnswered`, `CloseCompletes` | `select`, channel and `Close` implement atomic writes, and the loop returns only when everybody who waits has an answer |
| `TaskScheduler` | `TypeOK`, `RunsPerInstant`, `NoRunSkipped`, `DueScheduleFires` | how often an instant fires, and that it does |
| `Engine` | `EngineTypeOK`, `PoolAttemptAccounted`, `ImplementsStore`, `OrphansAge`, `OrphanedAttemptEnds` | executors only make `Store` steps, the pool forgets no attempt, orphans grow older and end |
| `EventStream` | `TypeOK`, `NoEventLostSilently`, `StaleViewAccounted`, `ImplementsLossyStream`, `EmitNeverBlocks`, `PublishedIsFannedOut` | every hint is about a committed write, none is lost without a cause, what a client does not show is accounted for, and nobody waits for a client |
| `Server` | `ServerTypeOK`, `WritersOutlived`, `ShutdownCompletes` | the store is not closed under those who write, but for requests that outlast 15 s and a failed start; a server that is told to stop ends |
| `Migrate` | `TypeOK`, `SchemaIsPrefix`, `OpenMeansReady`, `EventuallyOpens` | the schema is the scripts of versions 1 to n, whole and once; what is open is the database the settings name, complete, with valid limits; no failed start leaves anything behind that stops the next one |

Four runs are expected to find a violation. Each checks one sentence of the repository's
own documents, comments or tests that the code does not keep:

| Run | The sentence | What the code does |
|---|---|---|
| `StoreInvalidTransitionsRejected` | `docs/DESIGN.md:445` invalid transitions are rejected by the Store | a late report moves a halted, superseded or cancelled task to its own outcome |
| `StoreTransitionsRecorded` | `docs/DESIGN.md:443` each state transition updates `task_events` | `RequeueRetrying` (`maintenance.go:18`) writes no event, nor does the superseding half of `RestartTask` |
| `WriteLoopEveryWriteReturns` | `store.go:133`, `store_test.go:140`: after Close, pending and new writes get `ErrStoreClosing` | a `select` with room in the channel may still send after the loop has gone, and nobody answers |
| `TaskSchedulerIntervalRunIsLater` | `next_run.go:21` strictly after `after` | an interval's next run is computed from the `last_run_at` before this run (as `next_run.go:27` says), so the second run records one that is already due |

Smaller disagreements can be read off the models and have no run of their own: an expression
that parses but has no match gets the zero time and no error (`NextMatch`), so the schedule
fires at every poll, though "the next matching instant after `after` is returned"
(`next_run.go:24`); no error is
non-retryable, though such errors are said to end a task at once (`docs/DESIGN.md:403`, `:424`,
`:432`): `RetryBudget` and `ImplementsTaskLedger` say what the code does, dead only when the
retries are used up; a stopping server cancels tasks whose handlers have just succeeded
(`worker.go:99`), though cancellation is called manual (`docs/DESIGN.md:405`); Python attempts
send no heartbeat (`worker.py:190`) and are timed out while they run, though running tasks are
said to update it (`docs/DESIGN.md:388`); the broker returns at the end of the context without
emptying its buffer, before the pool has drained, though `main.go:151` speaks of draining.
Halting a task frees its slot while its attempt goes on, so more *attempts* than the global
limit may execute (`RunningWithinLimits` speaks of tasks, as the code counts); and
`next_run_at` of a schedule enabled without one is computed at the next server start.

### Bounds, and why they are enough

* `StoreLifecycle`: two tasks, so that restart links two rows; three attempts, so that one
  task can run two beside each other (halt, resume, claim) and be retried once; two workers,
  which shows a count moved on the wrong one. `Delay` is one tick, so that a task is first not
  due and then due. The cutoff is zero: no transaction of `Store` asks how old a heartbeat is,
  so any running attempt may be timed out; that a scanner lists stale ones only is in `Engine`,
  with a cutoff of one. A concurrency of two crosses the busy
  threshold in both directions. A `max_retries` of 0 becomes the default of one, so that two of
  the three attempts can fail beside each other and only one may be granted a retry. Two
  priorities; the stamps are all equal, and of limits that filter the candidates nothing is asked
  here: the theorem on `NoOvertaking` holds for any stamps, queues, types and limits.
* `StoreLimits`: the third task is the one a wrong guard would let in, over a limited and an
  unlimited queue and type, with a global limit of two. Concurrency zero takes the
  default.
* `WriteLoop`: a buffer of two with three callers gives empty, partly full and full channels
  and one caller that must wait; one caller is uncancellable. The violated run needs room
  for one only.
* `TaskScheduler`: one schedule, since schedules share nothing but the goroutine, and the times
  0 to 2 with a cron period of one and intervals of zero and one, so that recording can come
  after the next instant has passed, and a schedule that fires on every poll can be corrected;
  the zero time lies before all other instants; one patch; two faults, so that a crash can
  follow a failed write. The counts stop at `MaxCount` = 3, so that an excess of `fires` over
  `lost` is seen for a cron schedule while at most one run is lost, and for an interval while
  none is; the theorems hold without these bounds on counts and for any number of schedules.
  For liveness that means that no run has a second schedule wait in the list behind one that cannot
  be recorded.
* `Engine`: two goroutines, one Python thread and one task, which all of them can hold an
  attempt of after halt and resume; two attempts; three workers, for a start, the Python
  process and one restart. `MayGoDown` is a bound: the server goes down only if an id is left
  to start it again. Ids are numbered and used in order (`IDsInOrder`): every other behaviour
  is a permutation of one explored, and unlike a symmetry set this is sound for liveness.
* `EventStream`: a write with two events, one with one and one with none, one of them
  uncancellable; buffers of one, which are full after one event; one client that comes and
  goes, since clients share nothing but the broker. `Server`: a report, a request and a write
  of the scheduler, and a client that need never hang up.
* `Migrate`: three versions whose scripts have every kind of line, a statement of two lines
  and one without a semicolon; two processes of different releases; two faults, so that a
  restart can fail again; five sets of config files, three command lines and two environments,
  which give each of the four sources of a path, an explicit limit of zero, and every way for
  settings to be refused.
* Symmetry sets are used in the passing runs of `Store` only, where no property names an
  id.

### Fairness

* `WriteLoop`: a goroutine that can run does: each caller, the loop, and a `Close` that was
  begun. No context need end. A Go `select` chooses at random between ready cases, which gives
  *weak* fairness to the whole `select` and none to a single case: `WF(LoopStep)` says no more
  than that, and `CloseCompletes` holds because once `closeCh` is closed at most finitely many
  callers can keep the channel filled. (In the code a caller may write again; a random `select`
  then leaves the loop with probability one, which is outside TLA+.)
* `TaskScheduler`: `WF(SchedulerStep)`: the ticker comes again, and a crashed server is
  started again. Neither clock nor operators owe anything. Faults are finitely many
  (`MaxFaults`): a database that fails for ever fires nothing.
* `Engine`: time passes, a down server is started, goroutines that have something to report
  report, handlers return once their context is cancelled (cooperative cancellation,
  `docs/DESIGN.md:378`), the scanner of a server that is up scans. Its writes may fail
  (`TimeoutStaleFails`), so for each attempt `SF(TimeoutStale(a))`: every scan lists a stale attempt
  anew, and a write that is tried again and again is not refused for ever, which is asked of the
  disk, not of the code. A handler that is not
  cancelled need not return, a Python worker need not do anything, a heartbeat need not be sent.
* `EventStream`: a caller that has an event to emit and the broker run. No client need
  connect, read or leave, and no write need happen. `Server`: `main`, the goroutines that have
  something to do and the broker run; handlers of tasks and requests return, and the 15 s pass.
  No signal need come and no client need close its stream.
* `Migrate`: `WF(Progress(p))`: a process that has ended is started again (by its supervisor
  or an operator) and what is started runs. Faults are finitely many.

## 4. Proofs

All theorems hold for any finite sets of ids and any constants the `ASSUME`s of the modules
admit: finite id sets (needed to count), what `config.validate` admits for the limits, natural
delays, integers for what callers pass; for `Engine` that the pool has finitely many
goroutines, as many as the global limit (`main.go`), and that goroutines are not Python
threads; for `TaskScheduler` a positive cron period, a zero time before the clock's, and any
integers for intervals; for `EventStream` buffers of at least one; for `Server` that the
uncancellable callers are the pool; for `Migrate` that something, if only no file, lies at
every config path.

**StoreProofs.** The inductive invariant is `RowsInv == TypeOK /\ AttemptRows /\ AttemptHistory`.
None of the properties is inductive alone: an outcome updates the row *and the worker its
attempt names*, so `AttemptRows` (an attempt that exists names a task that exists and a worker
id) is needed even for types, and "the one claimed last" means nothing without
`AttemptHistory` (the numbers of a task's attempts are 1..n). Rows are never deleted, and only
`ClaimTask` adds an attempt (`OnlyClaimsAddAttempts`), with number n + 1
(`PrevAttemptNumCounts`).

The rest of the argument splits a step into three kinds: a claim; an outcome
(`OutcomeShape`, `OutcomeFrame`: which row, attempt status and event go together); and every
other transaction, which `QuietSteps` reduces to `QuietMove`: what it may do to one task, with
attempts keeping their status. Each invariant is then proved once per kind:

| Theorem | Property | Argument |
|---|---|---|
| `TypeCorrect`, `AttemptNumbering` | `TypeOK`, `AttemptHistory` | parts of `RowsInv` |
| `WorkerCountInvariant` | `WorkerCountMatches` | a claim adds one to the set of live attempts of one worker, an outcome removes one; a new worker has none because its id is in no row |
| `HeldTaskInvariant` | `HeldTaskHasLiveAttempt` | a claimed attempt has the greatest number; a late outcome of an *older* attempt takes the task out of running or halted, so it cannot leave it held by an ended one |
| `RetryBudgetInvariant`, `OutcomeBackedInvariant` | same names | by kind of step |
| `TimelineInvariant` | `TimelineGaps` | a retrying task has had a retry counted (`RetryingIsCounted`), which a requeue leaves as it is |
| `OutcomeFinality` | `OutcomeIsFinal` | every action that touches an attempt asks that it is running or absent |
| `LimitsInvariant` | `RunningWithinLimits` | only a claim adds a running task, and its guards say so for the queue, type and total it adds to; other sets only shrink |
| `ClaimsDoNotOvertake` | `NoOvertaking` | only a claim starts a task (`OnlyClaimsStart`), and whoever has the queue and type of the one it takes was a candidate too, whatever is at its limit |
| `OnlyHaltedTasksGoStray` | `OnlyHaltedGoStray` | a task is stray when it has a live attempt though it is not held, or two of them; a claim makes none, since a waiting task has a live attempt only if it is stray already; an outcome ends its attempt with its task unless another one lives; `CancelTask`, `RetryTask` and `RestartTask` refuse running tasks |
| `BackoffGrowsToItsMaximum` | (a pure function) | `retryBackoff` never shrinks and never exceeds the maximum, for every `retry_count` |

**LedgerProofs.** `StoreImplementsLedger` is the refinement `Spec => ImplementsTaskLedger`.
`LedgerOf` chooses the attempt with a given number, so the proof first shows that there is
exactly one (`Entered`): by `AttemptHistory` the numbers of n attempts are 1..n, and a
surjection between sets of one size is injective (`NumbersDiffer`). A claim then appends an
entry (`ClaimEntered`), an outcome changes one (`OutcomeEntered`), every other transaction
leaves the ledgers alone (`LedgersKept`). `left` of the abstract specification is a count of
its own, `LeftOf` is computed from the row; `StartsLeft` ties the two, and needs `RetryBudget`:
a waiting task has a start left, and one that failed is given up exactly when none is left.

Four more theorems say what a task gets, from `StartsDue`: the attempts it had and the starts it
has left. `StepGranted` follows them through a claim (`ClaimSpends`), an outcome
(`OutcomeSpends`) and a quiet move: only `ResumeTask` and `RetryTask` add to them
(`StartsAreGranted`). The other three speak of a task that operators leave alone; this
is a hypothesis `[][~HaltTask(t) ...]_vars` on the behaviour, since the code lets anybody
call these handlers. Not resumed or retried, it is started at most 1 + `max_retries` times
(`StartsWithinWorth`). Not halted, it never has two running rows in `attempts`, nor one after its end
(`UnhaltedTasksRunOnce`), from the argument of `OnlyHaltedTasksGoStray`. Not halted or retried, it
is dead only after exactly 1 + `max_retries` attempts (`DeadTasksHadTheirStarts`): here
`StartsDue` may not shrink either, and it does shrink when a late outcome meets a task that
another attempt runs, which takes a halt (`NotStray`). All four are about rows: an executor may go
on with the handler of an attempt that the scanner has timed out. No run states these formulas,
because the runs let operators act at any time.

**WriteLoopProofs.** `WriteInv == TypeOK /\ Placed /\ Settled`: an operation is in one place
only, with its caller, in the channel (once), with the loop, or settled, and while it is in the
channel or with the loop nothing was committed or answered for it (`Placed`); what was returned
is what was done (`Settled`). Then every step is a step of `AtomicWrites` or a stutter
(`WritesAreAtomic`). `WriteTypeCorrect` is a part of the invariant. `LateSendsAreStranded` gives
the exact extent of the finding of `WriteLoopEveryWriteReturns`: who waits is in the channel,
with the loop or answered (`NobodyForgotten`), and `Exit` finds the channel empty, so a write
without an answer was sent after `writeLoop` had returned. It is the safety half of
`AcceptedWriteAnswered`.

**EngineProofs.** `EngineStepIsStoreStep` shows each step of the engine to be a step of `Store`
or to leave the rows alone, which needs `MemoryInv` (registered workers stay registered, held
attempts are attempt ids). `EngineImplementsStore` follows, and with it everything proved of
`Store` holds of the engine. `PoolAccounting`: between claims no attempt *starts* running and
none changes hands (`NoneStarts`), so the pool's account can only be upset by a claim, which is
held or dropped, by a goroutine letting go of an attempt, which it does after delivering (the
attempt has ended) or dropping it, and by a restart, whose worker id is fresh.
`EngineTypeCorrect` adds the few types no other step needs. `OrphansOnlyAge` is the safety half
of `OrphanedAttemptEnds`: a goroutine takes up only what it claims, a claim takes an absent
attempt, and a heartbeat is for the attempt its goroutine holds; so an attempt the pool has let
go of can only end or grow older. `EngineKeepsTheRows` and `EngineImplementsLedger` say of the
running system what was proved of `Store`.

`AttemptsHaveOneHolder` is an inductive invariant of its own, `SoleHolder /\ HoldersOwn`: no
two goroutines or threads hold one attempt, and who holds one works for the worker its row
names. Neither half is inductive alone: a claim takes an attempt that is absent, and that nobody
holds it already is known only because what is held is not absent (`HoldersOwn`); a restart gives the
pool another worker id, and finds its goroutines empty. From `PoolAttemptAccounted` follows
`PoolWithinConcurrency`: `ClaimTask` never looks at a worker's concurrency, but the running
attempts of the pool's worker are held by a goroutine or dropped, so those not dropped are at most
as many as goroutines. `UnattendedTasks` carries `StartsWithinWorth` and `UnhaltedTasksRunOnce`
over to the running system, with its lost claims, timeouts, crashes and restarts.

**TaskSchedulerProofs.** `SchedulerInv == TypeOK /\ Reads /\ Counts /\ Created /\ Restarted`. A
row in memory may be older than the table, but patches cannot set a column to NULL and only the
goroutine moves `last_run_at`: so it has the table's `last_run_at`, and is NULL at least where
the table is (`Reads`). No task is created for an instant after the poll, and the instant a
schedule is set to has a run left: for a cron expression with a match because recording moves
it past the poll, for an interval because it moves past the run before, which is why an
interval may fire once more (`Counts`). That cron's `Next` is later is assumed only of an
expression with a match; one without leads to the zero time, where nothing is promised of it. A
row that is firing and was not patched has its task (`Created`). `Counts` speaks of positive
intervals, and at the zero time of expressions of the other kinds, only; that a schedule may
come from any other one by a patch, with the old row still in memory, needs `Restarted`: such a
patch has restarted the counts. Then `RunsPerInstantHolds` and `NoRunIsSkipped` follow, for any
schedules, intervals, patches and faults.

**EventStreamProofs.** `StreamInv == TypeOK /\ Told /\ Logged /\ Divided /\ Shown`: who emits
was told of a commit; every event emitted has a place in `published` or was dropped; the
places sent to a client, waiting for it and missed by it divide what was fanned out since it
subscribed, in increasing order; what it was sent, or was fanned out before, it has fetched.
`NoEventIsLostSilently`, `StaleViewIsAccounted` and the refinement `StreamImplementsHints`
follow. That the headers go out after `Subscribe` is what makes `Shown` inductive.
`StreamStoreIsAtomic` ties the stream to `AtomicWrites`, which `WriteLoop` implements: what
happens to writes in it is what that specification allows.

**ServerProofs.** A step of the server is a step of the stream or leaves it alone
(`ServerRunsTheStream`), so all of the above holds in it. `ServerInv` adds who may still be at
work in which phase: after `Waits` no pool or scheduler goroutine, after a shutdown that
did not expire no request. `WritersAreOutlived` follows. `ServerAccountsForEvents` says of the
process what was proved of the stream, and `ServerWritesAreAtomic` what its callers see of writes.

**MigrateProofs.** `MigrateInv == Types /\ Configured /\ Databases /\ Memory /\ Transactions
/\ Schema`: a process past `loadConfig` works with what its settings say; the versions recorded
on a database are 1 to n; what a process has read or applied is a prefix too, and recorded, now
and for ever. `Record` finds no conflict only if nobody was faster, and then its version is
n + 1 (`CurrentIsNext`). A transaction has written the lines of the statements it has executed,
in order (`Transactions`), and a database holds the lines of versions 1 to n (`Schema`).
`SchemaIsWhole` is `SchemaIsPrefix`, `OpenIsReady` is `OpenMeansReady`.

`SchemaIsWhole` needs that `splitSQL` neither loses nor repeats a line, for every script. That
is an induction over the lines, and the induction theorems of the library take an operator as a
parameter, which the provers cannot instantiate. It is done by the least counterexample
instead: `LeastNatural` (from the well-foundedness of `<` on the naturals) gives the first line
at which the split goes wrong, and `SplitUnfolds` relates it to the line before.

**Model-checked only.** Liveness (`AcceptedWriteAnswered`, `CloseCompletes`,
`DueScheduleFires`, `OrphanedAttemptEnds`, `EmitNeverBlocks`, `PublishedIsFannedOut`,
`ShutdownCompletes`, `EventuallyOpens`), which rests on fairness and ENABLED, beyond the
prover. Every other property of a passing run is a theorem. No module declares a recursive
operator.

## 5. Not modelled

* Parsing and validation of requests and cron expressions, TOML syntax, `parseMigrationName`
  (the names are fixed at build time), status codes, logging, JSON. Pure input and output.
* Read-only queries: lists are cut by OFFSET and `GetTask` reads three tables one after the
  other, and nothing is promised of either. `Store` keeps the newest stored event of a task.
* Handlers and the registry: a handler is a free choice of outcome and of when to return;
  a task's own timeout ends in an error, one of these choices.
* SQLite itself, taken to be transactional and durable; the file system.
* Clock jumps and the overflow of durations.
* Dashboard (a placeholder) and examples.

## 6. Plan

Done: `TaskLedger`, `Store`, `AtomicWrites`, `WriteLoop`, `TaskScheduler`, `Engine`, `LossyStream`,
`EventStream`, `Server`, `Config` and `Migrate`, each with its run, and proofs for all of them.

What could come next:

1. **Schedules over Store**: the composition in which `CreateDueTask` is `Store`'s `CreateTask`.
2. **Write path under Engine**: `GoClaimLost`, `GoReportFails` derived from `WriteLoop`
   instead of stated, including the write that never returns.
3. **`GetTask`** as three reads between transactions, once it is written down what a client may
   conclude from its answer.
