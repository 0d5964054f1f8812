------------------------------- MODULE Server -------------------------------
(***************************************************************************)
(* The server process, cmdServer in cmd/server/main.go: the order in which *)
(* it starts its goroutines and, told to stop, waits for them and closes   *)
(* the store, around the store and the event stream of EventStream.  What  *)
(* each goroutine does is in Engine, TaskScheduler and Store; here it is   *)
(* one write, which it may not get to make.                                *)
(***************************************************************************)
EXTENDS EventStream

CONSTANTS
  Pool,   \* goroutines of the worker pool: their write is the report of an outcome
  Sched   \* goroutines of the scheduler

ASSUME ServerConstants ==
  /\ Pool = Background
  /\ Sched \subseteq Caller \ Pool

\* The handlers of HTTP requests.
Http == Caller \ (Pool \cup Sched)

VARIABLES
  phase,    \* where cmdServer is: "starting", "started", "serving", "shutdown",
            \* "waiting", "closing" or "exited"
  pc,       \* per caller: "idle", "busy" or "done"
  expired,  \* the 15 s of the HTTP shutdown ran out
  failed    \* NewPool or srv.Start returned an error

mainVars == <<phase, expired, failed>>
serverVars == <<vars, mainVars, pc>>

ServerTypeOK ==
  /\ TypeOK
  /\ phase \in {"starting", "started", "serving", "shutdown", "waiting", "closing", "exited"}
  /\ pc \in [Caller -> {"idle", "busy", "done"}]
  /\ expired \in BOOLEAN /\ failed \in BOOLEAN

\* The store is open, the broker runs and is its sink.
ServerInit ==
  /\ Init
  /\ phase = "starting"
  /\ pc = [c \in Caller |-> "idle"]
  /\ expired = FALSE /\ failed = FALSE

-----------------------------------------------------------------------------
(* cmdServer.                                                              *)

Goto(from, to) == phase = from /\ phase' = to

\* Worker pool and scheduler.
Start ==
  /\ Goto("starting", "started")
  /\ UNCHANGED <<vars, pc, expired, failed>>

\* srv.Start, which listens before it returns.
Listen ==
  /\ Goto("started", "serving")
  /\ UNCHANGED <<vars, pc, expired, failed>>

\* NewPool or srv.Start fails: cmdServer returns, which runs stop and Close
\* and waits for nobody.
StartFails ==
  /\ Goto("starting", "closing") \/ Goto("started", "closing")
  /\ failed' = TRUE
  /\ stopping' = TRUE
  /\ UNCHANGED <<storeVars, emitVars, brokerVars, subVars, viewVars, pc, expired>>

Signal == phase # "exited" /\ Stop /\ UNCHANGED <<mainVars, pc>>

\* <-ctx.Done(), then srv.Shutdown: the listener is closed.
BeginShutdown ==
  /\ stopping
  /\ Goto("serving", "shutdown")
  /\ UNCHANGED <<vars, pc, expired, failed>>

\* No connection is active any more; an event stream is one as long as its
\* client keeps it, since Shutdown does not end the context of a request.
ShutdownDrained ==
  /\ \A c \in Http : pc[c] # "busy"
  /\ \A k \in Client : conn[k] = "none"
  /\ Goto("shutdown", "waiting")
  /\ UNCHANGED <<vars, pc, expired, failed>>

\* Mistake: Shutdown is given a context without a deadline.
ShutdownWithoutDeadline == FALSE /\ ShutdownDrained

\* shutdownCtx: cmdServer goes on without them.
ShutdownExpires ==
  /\ Goto("shutdown", "waiting")
  /\ expired' = TRUE
  /\ UNCHANGED <<vars, pc, failed>>

\* Mistake: without pool.Wait.
WaitSchedulerAndBroker ==
  /\ \A c \in Sched : pc[c] = "done"
  /\ broker = "stopped"
  /\ Goto("waiting", "closing")
  /\ UNCHANGED <<vars, pc, expired, failed>>

\* sched.Wait, pool.Wait and broker.Wait, one after the other.
Waits ==
  /\ \A c \in Sched \cup Pool : pc[c] = "done"
  /\ broker = "stopped"
  /\ Goto("waiting", "closing")
  /\ UNCHANGED <<vars, pc, expired, failed>>

\* The deferred Close has returned, and with cmdServer the process ends.
Exit ==
  /\ Goto("closing", "exited")
  /\ CloseStore
  /\ UNCHANGED <<pc, expired, failed>>

Main ==
  \/ Start \/ Listen \/ StartFails
  \/ BeginShutdown \/ ShutdownDrained \/ ShutdownExpires
  \/ Waits \/ Exit

-----------------------------------------------------------------------------
(* The goroutines that write.                                              *)

\* A claimed task, a due tick, a request.  The pool and the scheduler may
\* still take one after the context has ended, where a select has the choice.
Begin(c) ==
  /\ pc[c] = "idle"
  /\ IF c \in Http THEN phase = "serving" ELSE phase \notin {"starting", "exited"}
  /\ pc' = [pc EXCEPT ![c] = "busy"]
  /\ UNCHANGED <<vars, mainVars>>

\* The write, as the store executes it, and its answer.  A context ends with
\* the server's, in the scheduler, or with the request, whenever its client
\* hangs up; the store refuses writes once Close has been called.
DoWrite(c) ==
  /\ pc[c] = "busy" /\ phase # "exited"
  /\ \/ Commit(c)
     \/ Reject(c)
     \/ phase = "closing" /\ Refuse(c)
     \/ Answer(c) /\ (c \in Sched /\ answer'[c] = "unknown" => stopping)
  /\ UNCHANGED <<mainVars, pc>>

DoEmit(c) == pc[c] = "busy" /\ phase # "exited" /\ Emit(c) /\ UNCHANGED <<mainVars, pc>>

Finish(c) ==
  /\ pc[c] = "busy" /\ phase # "exited"
  /\ answer[c] # "none" /\ ~HasEvent(c)
  /\ pc' = [pc EXCEPT ![c] = "done"]
  /\ UNCHANGED <<vars, mainVars>>

\* A goroutine of the pool or of the scheduler sees the end of its context.
Leave(c) ==
  /\ c \in Pool \cup Sched
  /\ pc[c] = "idle" /\ stopping /\ phase # "exited"
  /\ pc' = [pc EXCEPT ![c] = "done"]
  /\ UNCHANGED <<vars, mainVars>>

Work(c) == DoWrite(c) \/ DoEmit(c) \/ Finish(c) \/ Leave(c)

RunBroker == phase # "exited" /\ BrokerStep /\ UNCHANGED <<mainVars, pc>>

Stream(k) ==
  /\ phase # "exited"
  /\ ClientStep(k)
  /\ conn[k] = "none" /\ conn'[k] # "none" => phase = "serving"
  /\ UNCHANGED <<mainVars, pc>>

ServerNext ==
  \/ Main \/ Signal
  \/ \E c \in Caller : Begin(c) \/ Work(c)
  \/ RunBroker
  \/ \E k \in Client : Stream(k)

ServerSpec == ServerInit /\ [][ServerNext]_serverVars

\* Goroutines that can run do run, handlers of tasks and of requests return,
\* and timers go off.  No signal need come, no work need be found, and no
\* client need read its stream or close it.
ServerFairSpec ==
  /\ ServerSpec
  /\ WF_serverVars(Main)
  /\ \A c \in Caller : WF_serverVars(Work(c))
  /\ WF_serverVars(RunBroker)

-----------------------------------------------------------------------------
(* What is checked.                                                        *)

\* Whatever connections are open, whatever is being executed and however full
\* the channels are, a server that is told to stop ends.
ShutdownCompletes == stopping ~> (phase = "exited")

Refused(c) == effect[c] = "pending" /\ answer[c] = "none" /\ answer'[c] = "rejected"

CutOff(c) == phase # "exited" /\ phase' = "exited" /\ pc[c] = "busy"

\* The store stays open for everybody who still needs it: no write is refused
\* and nobody is cut off in the middle of his, but for requests that outlast
\* the HTTP shutdown and for a start that failed.
WritersOutlived ==
  [][\A c \in Caller :
       Refused(c) \/ CutOff(c) => failed \/ (c \in Http /\ expired)]_serverVars

=============================================================================
