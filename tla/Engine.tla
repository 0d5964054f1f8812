------------------------------- MODULE Engine -------------------------------
(***************************************************************************)
(* Who runs the transactions of Store: the goroutines of the worker pool   *)
(* (internal/queue), the heartbeat scanner and the retry scheduler         *)
(* (internal/scheduler), the pull workers of the Python SDK, the operator  *)
(* API, and the server process that starts, stops and crashes under them   *)
(* (cmd/server).  The rows survive; everything declared here is memory.    *)
(***************************************************************************)
EXTENDS Store

CONSTANTS
  GoSlot,       \* the goroutines of the pool
  PyThread,     \* the threads of one Python worker process
  PoolQueue     \* the queue both of them drain

ASSUME EngineConstants ==
  /\ IsFiniteSet(GoSlot)
  /\ Cardinality(GoSlot) = GlobalLimit      \* main.go: Concurrency: cfg.Limits.Global
  /\ GoSlot \cap PyThread = {}
  /\ {GlobalLimit, Cardinality(PyThread)} \subseteq Concurrency
  /\ PoolQueue \in Queue
  /\ None \notin AttemptID \cup WorkerID

VARIABLES
  server,      \* "down", "up", or "stopping" (the signal context is cancelled)
  poolWorker,  \* the worker the pool registered when the server started
  pyWorker,    \* the worker the Python process registered
  exec,        \* what each goroutine and thread is doing, and on which attempt
  stale,       \* the scanner's list
  dropped      \* history: attempts whose claim or outcome got lost on the way

memory == <<server, poolWorker, pyWorker, exec, stale, dropped>>
allVars == <<vars, memory>>

Executor == GoSlot \cup PyThread

\* "succeed", "fail" and "cancel" are outcomes about to be reported.
Verdict == {"succeed", "fail", "cancel"}

Idle(pc) == [pc |-> pc, attempt |-> None]

Activity == {Idle(pc) : pc \in {"poll", "gone"}}
            \cup [pc: {"run"} \cup Verdict, attempt: AttemptID]

EngineTypeOK ==
  /\ server \in {"down", "up", "stopping"}
  /\ poolWorker \in WorkerID \cup {None} /\ pyWorker \in WorkerID \cup {None}
  /\ exec \in [Executor -> Activity]
  /\ stale \subseteq AttemptID /\ dropped \subseteq AttemptID

EngineInit ==
  /\ Init
  /\ server = "down"
  /\ poolWorker = None /\ pyWorker = None
  /\ exec = [e \in Executor |-> IF e \in GoSlot THEN Idle("gone") ELSE Idle("poll")]
  /\ stale = {} /\ dropped = {}

-----------------------------------------------------------------------------
(* The server process.                                                     *)

\* NewPool registers a new worker at every start.
Start ==
  /\ server = "down"
  /\ \E w \in WorkerID : CreateWorker(w, GlobalLimit) /\ poolWorker' = w
  /\ server' = "up"
  /\ exec' = [e \in Executor |-> IF e \in GoSlot THEN Idle("poll") ELSE exec[e]]
  /\ UNCHANGED <<pyWorker, stale, dropped>>

\* Bound: a server goes down only if there is a worker id left to restart with.
MayGoDown == \E w \in WorkerID : FreshWorker(w)

Stop ==
  /\ server = "up" /\ MayGoDown
  /\ server' = "stopping"
  /\ UNCHANGED <<vars, poolWorker, pyWorker, exec, stale, dropped>>

\* Scheduler, then pool, have been waited for.
Stopped ==
  /\ server = "stopping"
  /\ stale = {}
  /\ \A g \in GoSlot : exec[g].pc = "gone"
  /\ server' = "down"
  /\ UNCHANGED <<vars, poolWorker, pyWorker, exec, stale, dropped>>

Crash ==
  /\ server # "down" /\ MayGoDown
  /\ server' = "down"
  /\ exec' = [e \in Executor |-> IF e \in GoSlot THEN Idle("gone") ELSE exec[e]]
  /\ stale' = {}
  /\ UNCHANGED <<vars, poolWorker, pyWorker, dropped>>

-----------------------------------------------------------------------------
(* Claims and reports.                                                     *)

Becomes(e, activity) == exec' = [exec EXCEPT ![e] = activity]

\* A claim whose answer arrives.
Claim(e, w) ==
  /\ \E t \in TaskID, a \in AttemptID :
       /\ ClaimTask(t, a, w, PoolQueue, TaskType)
       /\ Becomes(e, [pc |-> "run", attempt |-> a])
  /\ UNCHANGED <<server, poolWorker, pyWorker, stale, dropped>>

\* A claim that commits, but whose caller has stopped waiting for it.
LostClaim(e, w, next) ==
  /\ \E t \in TaskID, a \in AttemptID :
       /\ ClaimTask(t, a, w, PoolQueue, TaskType)
       /\ dropped' = dropped \cup {a}
  /\ Becomes(e, next)
  /\ UNCHANGED <<server, poolWorker, pyWorker, stale>>

Conclude(verdict, a) ==
  \/ verdict = "succeed" /\ SucceedAttempt(a)
  \/ verdict = "fail" /\ FailAttempt(a)
  \/ verdict = "cancel" /\ CancelAttempt(a)

\* The report is applied, or refused with ErrAttemptNotRunning.
Deliver(e) ==
  LET a == exec[e].attempt
  IN  \/ Conclude(exec[e].pc, a)
      \/ ~loadRunningAttempt(a) /\ UNCHANGED vars

-----------------------------------------------------------------------------
(* A goroutine of the pool: poll and RunOnce.                              *)

GoClaim(g) == exec[g].pc = "poll" /\ server # "down" /\ Claim(g, poolWorker)

\* The context ends while write waits for the result: ClaimTask returns an
\* error for a claim that is committed.
GoClaimLost(g) ==
  /\ exec[g].pc = "poll" /\ server = "stopping"
  /\ LostClaim(g, poolWorker, Idle("gone"))

\* Mistake: the heartbeat is for any attempt of the worker.
GoHeartbeatOfWorker(g) ==
  /\ exec[g].pc = "run"
  /\ \E a \in LiveAttemptsOn(poolWorker) : UpdateHeartbeat(a)
  /\ UNCHANGED memory

GoHeartbeat(g) ==
  /\ exec[g].pc = "run"
  /\ UpdateHeartbeat(exec[g].attempt)
  /\ UNCHANGED memory

\* The handler returned.  Whatever it returned, a cancelled context decides.
GoDecide(g) ==
  /\ exec[g].pc = "run"
  /\ \E verdict \in Verdict :
       /\ verdict = "cancel" <=> server = "stopping"
       /\ Becomes(g, [exec[g] EXCEPT !.pc = verdict])
  /\ UNCHANGED <<vars, server, poolWorker, pyWorker, stale, dropped>>

\* Mistake: the attempt is kept after the report.
AfterReportKept(g) == [exec[g] EXCEPT !.pc = "poll"]

\* poll looks at the context before it claims again.
AfterReport(g) ==
  IF exec[g].pc = "cancel" \/ server = "stopping" THEN Idle("gone") ELSE Idle("poll")

GoReport(g) ==
  /\ exec[g].pc \in Verdict
  /\ Deliver(g)
  /\ Becomes(g, AfterReport(g))
  /\ UNCHANGED <<server, poolWorker, pyWorker, stale, dropped>>

\* Mistake: a report in two transactions, of which the second fails.
GoReportHalf(g) ==
  /\ exec[g].pc \in Verdict
  /\ loadRunningAttempt(exec[g].attempt)
  /\ attempts' = [attempts EXCEPT ![exec[g].attempt].status = "succeeded"]
  /\ Becomes(g, AfterReport(g))
  /\ UNCHANGED <<tasks, workers, lastEvent, server, poolWorker, pyWorker, stale, dropped>>

\* The write fails: the goroutine reports the error to OnError and goes on.
GoReportFails(g) ==
  /\ exec[g].pc \in Verdict
  /\ dropped' = dropped \cup {exec[g].attempt}
  /\ Becomes(g, AfterReport(g))
  /\ UNCHANGED <<vars, server, poolWorker, pyWorker, stale>>

\* Mistake: leaving in the middle of a task, its outcome unreported.
GoExitMidway(g) ==
  /\ exec[g].pc \in {"poll", "run"} /\ server = "stopping"
  /\ Becomes(g, Idle("gone"))
  /\ UNCHANGED <<vars, server, poolWorker, pyWorker, stale, dropped>>

GoExit(g) ==
  /\ exec[g].pc = "poll" /\ server = "stopping"
  /\ Becomes(g, Idle("gone"))
  /\ UNCHANGED <<vars, server, poolWorker, pyWorker, stale, dropped>>

-----------------------------------------------------------------------------
(* The background goroutines of the scheduler.                             *)

\* Mistake: each server looks after its own attempts only.
ScanOwn ==
  /\ server = "up"
  /\ stale = {} /\ StaleAttempts \cap LiveAttemptsOn(poolWorker) # {}
  /\ stale' = StaleAttempts \cap LiveAttemptsOn(poolWorker)
  /\ UNCHANGED <<vars, server, poolWorker, pyWorker, exec, dropped>>

\* FindStaleAttempts.  A query that fails changes nothing.
Scan ==
  /\ server = "up"
  /\ stale = {} /\ StaleAttempts # {}
  /\ stale' = StaleAttempts
  /\ UNCHANGED <<vars, server, poolWorker, pyWorker, exec, dropped>>

\* One attempt of the list; it may have ended since the list was read.
TimeoutStale(a) ==
  /\ server # "down"
  /\ a \in stale
  /\ TimeoutAttempt(a) \/ (~loadRunningAttempt(a) /\ UNCHANGED vars)
  /\ stale' = stale \ {a}
  /\ UNCHANGED <<server, poolWorker, pyWorker, exec, dropped>>

\* The write fails: the sweep goes on, and the attempt waits for the next one.
TimeoutStaleFails(a) ==
  /\ server # "down"
  /\ a \in stale
  /\ stale' = stale \ {a}
  /\ UNCHANGED <<vars, server, poolWorker, pyWorker, exec, dropped>>

AbandonScan ==
  /\ server = "stopping"
  /\ stale # {}
  /\ stale' = {}
  /\ UNCHANGED <<vars, server, poolWorker, pyWorker, exec, dropped>>

Requeue == server # "down" /\ RequeueRetrying /\ UNCHANGED memory

-----------------------------------------------------------------------------
(* A thread of the Python worker.  It sends no heartbeats.                 *)

PyRegister ==
  /\ server = "up" /\ pyWorker = None
  /\ \E w \in WorkerID : CreateWorker(w, Cardinality(PyThread)) /\ pyWorker' = w
  /\ UNCHANGED <<server, poolWorker, exec, stale, dropped>>

PyClaim(p) ==
  /\ exec[p].pc = "poll" /\ pyWorker # None /\ server # "down"
  /\ Claim(p, pyWorker)

\* The response is lost: the thread backs off and claims again.
PyClaimLost(p) ==
  /\ exec[p].pc = "poll" /\ pyWorker # None /\ server # "down"
  /\ LostClaim(p, pyWorker, Idle("poll"))

PyDecide(p) ==
  /\ exec[p].pc = "run"
  /\ \E verdict \in {"succeed", "fail"} :
       Becomes(p, [exec[p] EXCEPT !.pc = verdict])
  /\ UNCHANGED <<vars, server, poolWorker, pyWorker, stale, dropped>>

\* A refusal is logged only.
PyReport(p) ==
  /\ exec[p].pc \in Verdict /\ server # "down"
  /\ Deliver(p)
  /\ Becomes(p, Idle("poll"))
  /\ UNCHANGED <<server, poolWorker, pyWorker, stale, dropped>>

\* The write fails, or the failure has no text and is refused: so are 500 and 400.
PyReportFails(p) ==
  /\ exec[p].pc \in Verdict /\ server # "down"
  /\ dropped' = dropped \cup {exec[p].attempt}
  /\ Becomes(p, Idle("poll"))
  /\ UNCHANGED <<vars, server, poolWorker, pyWorker, stale>>

\* The request raises, applied or not.  A success is then reported as a
\* failure; a failure that cannot be reported ends the thread.
PyReportLost(p) ==
  /\ exec[p].pc \in Verdict
  /\ \/ UNCHANGED vars
     \/ server # "down" /\ Deliver(p)
  /\ dropped' = dropped \cup {exec[p].attempt}
  /\ Becomes(p, IF exec[p].pc = "succeed" THEN [exec[p] EXCEPT !.pc = "fail"]
                                          ELSE Idle("gone"))
  /\ UNCHANGED <<server, poolWorker, pyWorker, stale>>

\* Stopped between two tasks, or killed in the middle of one.
PyGone(p) ==
  /\ exec[p].pc # "gone"
  /\ Becomes(p, Idle("gone"))
  /\ UNCHANGED <<vars, server, poolWorker, pyWorker, stale, dropped>>

-----------------------------------------------------------------------------

OperatorStep ==
  /\ server # "down"
  /\ \/ CreateAnyTask
     \/ RestartAnyTask
     \/ \E t \in TaskID : HaltTask(t)
     \/ \E t \in TaskID : ResumeTask(t)
     \/ \E t \in TaskID : CancelTask(t)
     \/ \E t \in TaskID : RetryTask(t)
  /\ UNCHANGED memory

Clock == Tick /\ UNCHANGED memory

GoEnd(g) == GoReport(g) \/ GoReportFails(g) \/ GoExit(g) \/ GoClaimLost(g)

GoStep(g) == GoClaim(g) \/ GoHeartbeat(g) \/ GoDecide(g) \/ GoEnd(g)

PyStep(p) ==
  \/ PyClaim(p) \/ PyClaimLost(p) \/ PyDecide(p) \/ PyGone(p)
  \/ PyReport(p) \/ PyReportFails(p) \/ PyReportLost(p)

ServerStep == Start \/ Stop \/ Stopped \/ Crash

ScannerStep == Scan \/ \E a \in stale : TimeoutStale(a)

ScannerFailure == AbandonScan \/ \E a \in stale : TimeoutStaleFails(a)

EngineNext ==
  \/ ServerStep
  \/ \E g \in GoSlot : GoStep(g)
  \/ ScannerStep \/ ScannerFailure \/ Requeue
  \/ PyRegister
  \/ \E p \in PyThread : PyStep(p)
  \/ OperatorStep
  \/ Clock

EngineSpec == EngineInit /\ [][EngineNext]_allVars

\* Time passes, a server that is down is started, a stop is seen through by
\* handlers that return when they are cancelled, and the scanner of a server
\* that is up keeps scanning.  Its write for an attempt may fail any number of
\* times, but not every time it is tried again.  No handler need return
\* otherwise, no Python worker need do anything, no operator need act.
EngineFairness ==
  /\ WF_allVars(Clock)
  /\ WF_allVars(Start) /\ WF_allVars(Stopped)
  /\ \A g \in GoSlot : /\ WF_allVars(GoEnd(g))
                       /\ WF_allVars(server = "stopping" /\ GoDecide(g))
  /\ WF_allVars(ScannerStep) /\ WF_allVars(AbandonScan)
  /\ \A a \in AttemptID : SF_allVars(TimeoutStale(a))

EngineFairSpec == EngineSpec /\ EngineFairness

-----------------------------------------------------------------------------

HeldByPool(a) == \E g \in GoSlot : exec[g].attempt = a

\* While the server is not down, a running attempt of its pool is held by one
\* of the goroutines, which will report it, unless its claim or its outcome
\* was lost on the way.
PoolAttemptAccounted ==
  server # "down" =>
    \A a \in LiveAttemptsOn(poolWorker) : HeldByPool(a) \/ a \in dropped

\* Whatever pool, scanner, Python workers, operators, restarts and lost
\* messages do, the rows go through steps of Store only.
ImplementsStore == Spec

\* A running attempt that no goroutine of the pool holds is never taken up
\* again, and nothing anybody does makes it look younger to the scanner.
OrphansAge ==
  [][\A a \in AttemptID :
       attempts[a].status = "running" /\ ~HeldByPool(a) =>
         \/ attempts'[a].status # "running"
         \/ ~HeldByPool(a)' /\ attempts'[a].idle >= attempts[a].idle]_allVars

\* A running attempt that no goroutine of the pool keeps alive ends: orphans
\* of a crash, of a lost claim or of a lost report are found after a restart.
OrphanedAttemptEnds ==
  \A a \in AttemptID :
    (attempts[a].status = "running" /\ ~HeldByPool(a)) ~>
      (attempts[a].status # "running")

=============================================================================
