----------------------------- MODULE TaskLedger -----------------------------
(***************************************************************************)
(* What the store promises about the execution of tasks, without queues,   *)
(* types, priorities, limits, workers' counts and time.                    *)
(*                                                                         *)
(* A submitted task is worth a number of starts.  Every start is entered   *)
(* in the task's ledger, in order and for good, and gets one outcome.  A   *)
(* failure takes the task back to waiting as long as starts are left; only *)
(* an operator grants more: one for resuming a suspended task, all of them *)
(* for reopening one that was given up, and those of a replacement.        *)
(*                                                                         *)
(* An outcome may come late, when its task has moved on.  It then decides  *)
(* the task all the same; if the task was waiting, it has come instead of  *)
(* the start the task was waiting for.                                     *)
(***************************************************************************)
EXTENDS Integers, Sequences

CONSTANTS
  TaskID, WorkerID,
  Worth            \* how many starts a submission may be worth

VARIABLES
  state,
  worth,           \* per task, what its submission was worth
  left,            \* per task, the starts left, that of a waiting task included
  ledger           \* per task, its starts: by whom, and with what outcome

vars == <<state, worth, left, ledger>>

\* What is left of a task that will not get the start it is waiting for.
Unstarted(t) == IF state[t] = "waiting" THEN left[t] - 1 ELSE left[t]

Init ==
  /\ state = [t \in TaskID |-> "absent"]
  /\ worth = [t \in TaskID |-> 0] /\ left = [t \in TaskID |-> 0]
  /\ ledger = [t \in TaskID |-> <<>>]

Submit(t, n) ==
  /\ state[t] = "absent"
  /\ state' = [state EXCEPT ![t] = "waiting"]
  /\ worth' = [worth EXCEPT ![t] = n]
  /\ left' = [left EXCEPT ![t] = n]
  /\ UNCHANGED ledger

Start(t, w) ==
  /\ state[t] = "waiting" /\ left[t] > 0
  /\ state' = [state EXCEPT ![t] = "held"]
  /\ left' = [left EXCEPT ![t] = @ - 1]
  /\ ledger' = [ledger EXCEPT ![t] = Append(@, [worker |-> w, outcome |-> "running"])]
  /\ UNCHANGED worth

End(t, k, outcome, to) ==
  /\ ledger[t][k].outcome = "running"
  /\ state' = [state EXCEPT ![t] = to]
  /\ left' = [left EXCEPT ![t] = Unstarted(t)]
  /\ ledger' = [ledger EXCEPT ![t][k].outcome = outcome]
  /\ UNCHANGED worth

Succeed(t, k) == End(t, k, "succeeded", "done")

Fail(t, k) == End(t, k, "failed", IF Unstarted(t) > 0 THEN "waiting" ELSE "given up")

Abort(t, k) == End(t, k, "cancelled", "given up")

Suspend(t) ==
  /\ state[t] = "held"
  /\ state' = [state EXCEPT ![t] = "suspended"]
  /\ UNCHANGED <<worth, left, ledger>>

Resume(t) ==
  /\ state[t] = "suspended"
  /\ state' = [state EXCEPT ![t] = "waiting"]
  /\ left' = [left EXCEPT ![t] = @ + 1]
  /\ UNCHANGED <<worth, ledger>>

Withdraw(t) ==
  /\ state[t] \in {"waiting", "suspended"}
  /\ state' = [state EXCEPT ![t] = "given up"]
  /\ left' = [left EXCEPT ![t] = Unstarted(t)]
  /\ UNCHANGED <<worth, ledger>>

Reopen(t) ==
  /\ state[t] = "given up"
  /\ state' = [state EXCEPT ![t] = "waiting"]
  /\ left' = [left EXCEPT ![t] = worth[t]]
  /\ UNCHANGED <<worth, ledger>>

Replace(t, n) ==
  /\ state[t] \in {"waiting", "suspended", "done", "given up"}
  /\ state[n] = "absent"
  /\ state' = [state EXCEPT ![t] = "replaced", ![n] = "waiting"]
  /\ worth' = [worth EXCEPT ![n] = worth[t]]
  /\ left' = [left EXCEPT ![t] = Unstarted(t), ![n] = worth[t]]
  /\ UNCHANGED ledger

Next ==
  \E t \in TaskID :
    \/ \E n \in Worth : Submit(t, n)
    \/ \E w \in WorkerID : Start(t, w)
    \/ \E k \in DOMAIN ledger[t] : Succeed(t, k) \/ Fail(t, k) \/ Abort(t, k)
    \/ Suspend(t) \/ Resume(t) \/ Withdraw(t) \/ Reopen(t)
    \/ \E n \in TaskID : Replace(t, n)

Spec == Init /\ [][Next]_vars

=============================================================================
