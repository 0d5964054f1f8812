----------------------------- MODULE WriteLoop -----------------------------
(***************************************************************************)
(* The write path of internal/store/store.go: callers of Store.write hand  *)
(* their transaction to one goroutine through a buffered channel and wait  *)
(* for the result, for their context, or, before the hand-over, for the    *)
(* store to close.  Close and the goroutine race with all of them.         *)
(*                                                                         *)
(* A Go select with several ready cases takes any of them: each case is an *)
(* action of its own.                                                      *)
(***************************************************************************)
EXTENDS Naturals, Sequences

CONSTANTS
  Caller,       \* the goroutines that call write, once each
  Background,   \* those whose context is never cancelled (outcome reports)
  Buffer,       \* the capacity of writeCh
  None

ASSUME WriteLoopConstants ==
  /\ Background \subseteq Caller
  /\ Buffer \in Nat \ {0}
  /\ None \notin Caller

VARIABLES
  pc,         \* per caller: "send" (first select), "wait" (second), "done"
  ret,        \* per caller: what write returned
  cancelled,  \* the callers whose ctx.Done() is closed
  writeCh,    \* the buffered operations
  res,        \* per caller: its result channel, of capacity 1
  loop,       \* writeLoop: "select", "exec", "drain" or "exited" (done closed)
  current,    \* the operation being executed
  commits,    \* per caller: how often its transaction was committed
  closed,     \* closeCh is closed
  dbOpen      \* db.Close has not been called

vars == <<pc, ret, cancelled, writeCh, res, loop, current, commits, closed, dbOpen>>

callerVars == <<pc, ret, cancelled>>
loopVars == <<loop, current, commits>>

TypeOK ==
  /\ pc \in [Caller -> {"send", "wait", "done"}]
  /\ ret \in [Caller -> {"none", "nil", "error", "ErrStoreClosing", "ctx.Err"}]
  /\ cancelled \in SUBSET (Caller \ Background)
  /\ writeCh \in Seq(Caller) /\ Len(writeCh) <= Buffer
  /\ res \in [Caller -> {"empty", "nil", "error", "ErrStoreClosing"}]
  /\ loop \in {"select", "exec", "drain", "exited"}
  /\ current \in Caller \cup {None}
  /\ commits \in [Caller -> Nat]
  /\ closed \in BOOLEAN /\ dbOpen \in BOOLEAN

Init ==
  /\ pc = [c \in Caller |-> "send"]
  /\ ret = [c \in Caller |-> "none"]
  /\ cancelled = {}
  /\ writeCh = <<>>
  /\ res = [c \in Caller |-> "empty"]
  /\ loop = "select"
  /\ current = None
  /\ commits = [c \in Caller |-> 0]
  /\ closed = FALSE
  /\ dbOpen = TRUE

-----------------------------------------------------------------------------
(* write: the two selects of a caller.                                     *)

Return(c, value) ==
  /\ pc' = [pc EXCEPT ![c] = "done"]
  /\ ret' = [ret EXCEPT ![c] = value]
  /\ UNCHANGED <<cancelled, writeCh, res, loopVars, closed, dbOpen>>

\* Mistake: one operation more than the channel holds.
SendOverfull(c) ==
  /\ pc[c] = "send"
  /\ Len(writeCh) <= Buffer
  /\ writeCh' = Append(writeCh, c)
  /\ pc' = [pc EXCEPT ![c] = "wait"]
  /\ UNCHANGED <<ret, cancelled, res, loopVars, closed, dbOpen>>

Send(c) ==
  /\ pc[c] = "send"
  /\ Len(writeCh) < Buffer
  /\ writeCh' = Append(writeCh, c)
  /\ pc' = [pc EXCEPT ![c] = "wait"]
  /\ UNCHANGED <<ret, cancelled, res, loopVars, closed, dbOpen>>

SendCancelled(c) == pc[c] = "send" /\ c \in cancelled /\ Return(c, "ctx.Err")

SendRefused(c) == pc[c] = "send" /\ closed /\ Return(c, "ErrStoreClosing")

Receive(c) == pc[c] = "wait" /\ res[c] # "empty" /\ Return(c, res[c])

\* The operation stays where it is: buffered, being executed, or done.
WaitCancelled(c) == pc[c] = "wait" /\ c \in cancelled /\ Return(c, "ctx.Err")

\* The context of a caller ends (a client hangs up, the server is told to stop).
Cancel(c) ==
  /\ c \notin Background \cup cancelled
  /\ pc[c] # "done"
  /\ cancelled' = cancelled \cup {c}
  /\ UNCHANGED <<pc, ret, writeCh, res, loopVars, closed, dbOpen>>

-----------------------------------------------------------------------------
(* writeLoop: the only goroutine that touches the database.                *)

TakeOp ==
  /\ loop = "select"
  /\ writeCh # <<>>
  /\ current' = Head(writeCh)
  /\ writeCh' = Tail(writeCh)
  /\ loop' = "exec"
  /\ UNCHANGED <<callerVars, res, commits, closed, dbOpen>>

\* execTx: the transaction commits, or is rolled back on any error; the
\* result goes to a channel that has room for it.
ExecTx(outcome) ==
  /\ loop = "exec"
  /\ commits' = [commits EXCEPT ![current] = IF outcome = "nil" THEN @ + 1 ELSE @]
  /\ res' = [res EXCEPT ![current] = outcome]
  /\ current' = None
  /\ loop' = "select"
  /\ UNCHANGED <<callerVars, writeCh, closed, dbOpen>>

\* Mistake: returning without draining.
SeeClosedAndReturn ==
  /\ loop = "select"
  /\ closed
  /\ loop' = "exited"
  /\ UNCHANGED <<callerVars, writeCh, res, current, commits, closed, dbOpen>>

SeeClosed ==
  /\ loop = "select"
  /\ closed
  /\ loop' = "drain"
  /\ UNCHANGED <<callerVars, writeCh, res, current, commits, closed, dbOpen>>

DrainOp ==
  /\ loop = "drain"
  /\ writeCh # <<>>
  /\ res' = [res EXCEPT ![Head(writeCh)] = "ErrStoreClosing"]
  /\ writeCh' = Tail(writeCh)
  /\ UNCHANGED <<callerVars, loopVars, closed, dbOpen>>

\* Mistake: break, which leaves the inner select only.
ExitByBreak ==
  /\ loop = "drain"
  /\ writeCh = <<>>
  /\ loop' = "select"
  /\ UNCHANGED <<callerVars, writeCh, res, current, commits, closed, dbOpen>>

Exit ==
  /\ loop = "drain"
  /\ writeCh = <<>>
  /\ loop' = "exited"
  /\ UNCHANGED <<callerVars, writeCh, res, current, commits, closed, dbOpen>>

-----------------------------------------------------------------------------
(* Close: signal, wait for done, close the database.                       *)

SignalClose ==
  /\ ~closed
  /\ closed' = TRUE
  /\ UNCHANGED <<callerVars, writeCh, res, loopVars, dbOpen>>

\* Mistake: not waiting for done.
CloseDBAtOnce ==
  /\ closed /\ dbOpen
  /\ dbOpen' = FALSE
  /\ UNCHANGED <<callerVars, writeCh, res, loopVars, closed>>

CloseDB ==
  /\ closed /\ loop = "exited" /\ dbOpen
  /\ dbOpen' = FALSE
  /\ UNCHANGED <<callerVars, writeCh, res, loopVars, closed>>

CallerStep(c) ==
  Send(c) \/ SendCancelled(c) \/ SendRefused(c) \/ Receive(c) \/ WaitCancelled(c)

LoopStep ==
  TakeOp \/ ExecTx("nil") \/ ExecTx("error") \/ SeeClosed \/ DrainOp \/ Exit

Next ==
  \/ \E c \in Caller : CallerStep(c)
  \/ \E c \in Caller : Cancel(c)
  \/ LoopStep
  \/ SignalClose
  \/ CloseDB

Spec == Init /\ [][Next]_vars

\* Goroutines that can run do run: the callers, the loop, and a Close that
\* was begun.  Nothing makes a context end or a store close.
FairSpec ==
  /\ Spec
  /\ \A c \in Caller : WF_vars(CallerStep(c))
  /\ WF_vars(LoopStep)
  /\ WF_vars(CloseDB)

-----------------------------------------------------------------------------
(* What is checked.                                                        *)

EffectOf(c) ==
  CASE commits[c] = 1 -> "committed"
    [] commits[c] > 1 -> "committed twice"
    [] commits[c] = 0 /\ (res[c] \in {"error", "ErrStoreClosing"}
                            \/ ret[c] = "ErrStoreClosing") -> "rejected"
    [] OTHER -> "pending"

AnswerOf(c) ==
  CASE ret[c] = "none" -> "none"
    [] ret[c] = "nil" -> "ok"
    [] ret[c] = "ctx.Err" -> "unknown"
    [] OTHER -> "rejected"

Atomic == INSTANCE AtomicWrites WITH
            effect <- [c \in Caller |-> EffectOf(c)],
            answer <- [c \in Caller |-> AnswerOf(c)],
            open <- dbOpen

\* The channel, the two selects and the draining Close implement atomic
\* writes: what write returns is what happened to the database, exactly once,
\* and nothing happens to the database after Close has returned.
ImplementsAtomicWrites == Atomic!Spec

\* A write that entered the channel before writeLoop returned is answered:
\* executed, or drained with ErrStoreClosing, also when Close comes between.
AcceptedWriteAnswered ==
  \A c \in Caller : (pc[c] = "wait" /\ loop # "exited") ~> (pc[c] = "done")

\* Waiting for an answer that nobody is left to send.
Stranded(c) == pc[c] = "wait" /\ res[c] = "empty" /\ loop = "exited"

\* writeLoop leaves nobody behind when it returns, however sends, receives and
\* the signal of Close meet: a write is stranded only by its own select, which
\* takes the channel of a store that is closed already.
OnlyLateSendsAreStranded ==
  [][\A c \in Caller : ~Stranded(c) /\ Stranded(c)' =>
       closed /\ loop = "exited" /\ pc[c] = "send"]_vars

\* Close returns, whatever is buffered or still being sent when it is called.
CloseCompletes == closed ~> ~dbOpen

\* store.go: Close "drains any pending writes with ErrStoreClosing", and the
\* test of it: "Any method that calls s.write should return ErrStoreClosing."
EveryWriteReturns ==
  \A c \in Caller : closed ~> (pc[c] = "done")

=============================================================================
