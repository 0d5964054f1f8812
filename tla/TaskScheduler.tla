---------------------------- MODULE TaskScheduler ----------------------------
(***************************************************************************)
(* The schedules table and the goroutine of internal/scheduler that turns  *)
(* schedules into tasks (task_scheduler.go, next_run.go, and the schedule  *)
(* operations of internal/store).                                          *)
(*                                                                         *)
(* The goroutine reads rows, then works through the list one write at a    *)
(* time: create the task, compute the next run from the row as it was      *)
(* read, record it.  Operators patch the same rows in between, any write   *)
(* may fail, and the server may crash between any two of them.             *)
(*                                                                         *)
(* Time is a counter of whole seconds, the resolution of the stored times. *)
(***************************************************************************)
EXTENDS Integers

CONSTANTS
  Schedule,      \* the ids of the schedules
  None,          \* SQL NULL, and "not given" in a patch
  CronPeriod,    \* the valid cron expression matches the multiples of this
  ZeroTime,      \* Go's zero time.Time: year 1, before anything the clock shows
  Interval,      \* the interval_secs operators use: nothing checks their sign
  MaxTime,       \* bound: the clock stops here
  MaxEdits,      \* bound: how many patches operators apply
  MaxFaults,     \* bound: how many writes fail and servers crash
  MaxCount       \* bound: where the counts of the history stop

ASSUME SchedulerConstants ==
  /\ CronPeriod \in Nat \ {0}
  /\ ZeroTime \in Int /\ ZeroTime < 0
  /\ Interval \subseteq Int
  /\ MaxTime \in Nat /\ MaxEdits \in Nat /\ MaxFaults \in Nat /\ MaxCount \in Nat \ {0}

VARIABLES
  now,
  schedules,  \* the rows
  pc,         \* the goroutine: "down", "init" (initSchedules) or "run"
  list,       \* the rows it read and has not handled yet
  firing,     \* the read row whose task was created last, until it is recorded
  pollNow,    \* the time it works with for the whole list
  edits, faults,
  fires,      \* history: per schedule and next_run_at, the tasks created for it
  lost        \* history: per schedule, how many runs went unrecorded

vars == <<now, schedules, pc, list, firing, pollNow, edits, faults, fires, lost>>

goroutine == <<pc, list, firing, pollNow>>
history == <<fires, lost>>

Time == 0..MaxTime

\* "unmatched" parses but names no date of the next five years: 0 0 30 2 *.
Cron == {"valid", "unmatched", "unparseable"}

\* Where a schedule may be due: an interval below zero goes back in time.
Instant == Time \cup {ZeroTime} \cup {t + i : t \in Time, i \in Interval}

\* next_run_at may lie beyond the end of the modelled time.
Row == [enabled: BOOLEAN, cron: Cron \cup {None}, interval: Interval \cup {None},
        last: Time \cup {None}, next: Instant \cup Nat \cup {None}]

\* A row in memory, with the number of patches applied when it was read.
ReadRow == [id: Schedule, row: Row, edits: 0..MaxEdits]

ASSUME NoneIsNoRow == /\ None \notin Int \cup Cron
                       /\ None \notin Row /\ None \notin ReadRow

TypeOK ==
  /\ now \in Time /\ pollNow \in Time
  /\ schedules \in [Schedule -> Row \cup {None}]
  /\ pc \in {"down", "init", "run"}
  /\ list \subseteq ReadRow
  /\ firing \in ReadRow \cup {None}
  /\ edits \in 0..MaxEdits /\ faults \in 0..MaxFaults
  /\ fires \in [Schedule -> [Instant -> 0..MaxCount]]
  /\ lost \in [Schedule -> 0..MaxCount]

Init ==
  /\ now = 0 /\ pollNow = 0
  /\ schedules = [s \in Schedule |-> None]
  /\ pc = "down"
  /\ list = {} /\ firing = None
  /\ edits = 0 /\ faults = 0
  /\ fires = [s \in Schedule |-> [x \in Instant |-> 0]]
  /\ lost = [s \in Schedule |-> 0]

-----------------------------------------------------------------------------
(* computeNextRun.                                                         *)

HasNextRun(row) ==
  \/ row.cron \in {"valid", "unmatched"}
  \/ row.cron = None /\ row.interval # None

\* cron's Next: the first match strictly after the given time, or the zero
\* time, and no error, if it finds none.
NextMatch(cron, after) ==
  IF cron = "unmatched" THEN ZeroTime ELSE (after \div CronPeriod + 1) * CronPeriod

\* Mistake: asking for the first match from the given time on.
computeNextRunInclusive(row, after) ==
  IF row.cron # None THEN NextMatch(row.cron, after - 1)
  ELSE (IF row.last # None THEN row.last ELSE after) + row.interval

computeNextRun(row, after) ==
  IF row.cron # None THEN NextMatch(row.cron, after)
  ELSE (IF row.last # None THEN row.last ELSE after) + row.interval

-----------------------------------------------------------------------------
(* Operators.                                                              *)

\* The API asks for a cron expression or an interval, and parses neither.
CreateSchedule(s, enabled, cron, interval, next) ==
  /\ schedules[s] = None
  /\ cron # None \/ interval # None
  /\ schedules' = [schedules EXCEPT ![s] =
       [enabled |-> enabled, cron |-> cron, interval |-> interval,
        last |-> None, next |-> next]]
  /\ UNCHANGED <<now, goroutine, edits, faults, history>>

\* Mistake: every column is written, given or not.
PatchedAlways(value, old) == value

Patched(value, old) == IF value = None THEN old ELSE value

\* A patch cannot set a column to NULL.  One that changes when the schedule
\* runs starts its history afresh.
UpdateSchedule(s, enabled, cron, interval, next) ==
  /\ edits < MaxEdits
  /\ schedules[s] # None
  /\ LET row == schedules[s]
     IN  schedules' = [schedules EXCEPT
           ![s] = [row EXCEPT !.enabled = Patched(enabled, row.enabled),
                              !.cron = Patched(cron, row.cron),
                              !.interval = Patched(interval, row.interval),
                              !.next = Patched(next, row.next)]]
  /\ edits' = edits + 1
  /\ IF cron = None /\ interval = None /\ next = None
     THEN UNCHANGED history
     ELSE /\ fires' = [fires EXCEPT ![s] = [x \in Instant |-> 0]]
          /\ lost' = [lost EXCEPT ![s] = 0]
  /\ UNCHANGED <<now, goroutine, faults>>

-----------------------------------------------------------------------------
(* The goroutine.                                                          *)

Read(ids) == {[id |-> s, row |-> schedules[s], edits |-> edits] : s \in ids}

\* The history counts up to MaxCount.
OneMore(count) == IF count < MaxCount THEN count + 1 ELSE count

Fault == faults < MaxFaults /\ faults' = faults + 1

\* initSchedules reads all schedules and keeps those with nothing to run on.
Start ==
  /\ pc = "down"
  /\ pc' = "init"
  /\ list' = Read({s \in Schedule : /\ schedules[s] # None
                                    /\ schedules[s].enabled
                                    /\ schedules[s].next = None})
  /\ pollNow' = now
  /\ UNCHANGED <<now, schedules, firing, edits, faults, history>>

\* ListSchedules failed: nothing is initialised, and polling starts.
StartUninitialised ==
  /\ pc = "down"
  /\ Fault
  /\ pc' = "run"
  /\ UNCHANGED <<now, schedules, list, firing, pollNow, edits, history>>

InitSchedule(r) ==
  /\ pc = "init"
  /\ r \in list
  /\ list' = list \ {r}
  /\ \/ /\ HasNextRun(r.row)
        /\ schedules' = [schedules EXCEPT
             ![r.id].next = computeNextRun(r.row, pollNow)]
        /\ UNCHANGED faults
     \/ ~HasNextRun(r.row) /\ UNCHANGED <<schedules, faults>>
     \/ Fault /\ UNCHANGED schedules
  /\ UNCHANGED <<now, pc, firing, pollNow, edits, history>>

InitDone ==
  /\ pc = "init"
  /\ list = {}
  /\ pc' = "run"
  /\ UNCHANGED <<now, schedules, list, firing, pollNow, edits, faults, history>>

\* SELECT ... WHERE enabled = 1 AND next_run_at <= now
Due(s) ==
  /\ schedules[s] # None
  /\ schedules[s].enabled
  /\ schedules[s].next # None
  /\ schedules[s].next <= now

\* Mistake: only what became due since the last poll.
PollSinceLast ==
  /\ pc = "run"
  /\ list = {} /\ firing = None
  /\ \E s \in Schedule : Due(s) /\ schedules[s].next > pollNow
  /\ list' = Read({s \in Schedule : Due(s) /\ schedules[s].next > pollNow})
  /\ pollNow' = now
  /\ UNCHANGED <<now, schedules, pc, firing, edits, faults, history>>

\* DueSchedules, on a tick.  A query that fails changes nothing.
Poll ==
  /\ pc = "run"
  /\ list = {} /\ firing = None
  /\ \E s \in Schedule : Due(s)
  /\ list' = Read({s \in Schedule : Due(s)})
  /\ pollNow' = now
  /\ UNCHANGED <<now, schedules, pc, firing, edits, faults, history>>

\* fireDue, first half: the task.
CreateDueTask(r) ==
  /\ pc = "run"
  /\ r \in list /\ firing = None
  /\ list' = list \ {r}
  /\ firing' = r
  /\ fires' = [fires EXCEPT ![r.id][r.row.next] = OneMore(@)]
  /\ UNCHANGED <<now, schedules, pc, pollNow, edits, faults, lost>>

\* Mistake: the run is recorded though there is no task.
CreateDueTaskFailsUnnoticed(r) ==
  /\ pc = "run"
  /\ r \in list /\ firing = None
  /\ Fault
  /\ list' = list \ {r}
  /\ firing' = r
  /\ UNCHANGED <<now, schedules, pc, pollNow, edits, history>>

\* The schedule is passed over until the next poll.
CreateDueTaskFails(r) ==
  /\ pc = "run"
  /\ r \in list /\ firing = None
  /\ Fault
  /\ list' = list \ {r}
  /\ UNCHANGED <<now, schedules, pc, firing, pollNow, edits, history>>

\* Second half: the next run, from the row as it was read.
RecordScheduleRun ==
  /\ firing # None
  /\ HasNextRun(firing.row)
  /\ schedules' = [schedules EXCEPT ![firing.id] =
       [@ EXCEPT !.last = now, !.next = computeNextRun(firing.row, pollNow)]]
  /\ firing' = None
  /\ UNCHANGED <<now, pc, list, pollNow, edits, faults, history>>

\* The task exists and next_run_at stays where it was.
LeaveUnrecorded ==
  /\ firing # None
  /\ \/ ~HasNextRun(firing.row) /\ UNCHANGED faults
     \/ Fault
  /\ lost' = [lost EXCEPT ![firing.id] = OneMore(@)]
  /\ firing' = None
  /\ UNCHANGED <<now, schedules, pc, list, pollNow, edits, fires>>

\* Also a shutdown, which abandons the list between two writes.
Crash ==
  /\ pc # "down"
  /\ Fault
  /\ pc' = "down"
  /\ list' = {} /\ firing' = None
  /\ lost' = IF firing = None THEN lost ELSE [lost EXCEPT ![firing.id] = OneMore(@)]
  /\ UNCHANGED <<now, schedules, pollNow, edits, fires>>

Tick ==
  /\ now < MaxTime
  /\ now' = now + 1
  /\ UNCHANGED <<schedules, goroutine, edits, faults, history>>

-----------------------------------------------------------------------------

Handle(r) == InitSchedule(r) \/ CreateDueTask(r) \/ CreateDueTaskFails(r)

SchedulerStep ==
  \/ Start \/ StartUninitialised \/ InitDone \/ Poll
  \/ \E r \in list : Handle(r)
  \/ RecordScheduleRun \/ LeaveUnrecorded

OperatorStep ==
  \E s \in Schedule, cron \in Cron \cup {None}, interval \in Interval \cup {None},
     next \in Time \cup {None} :
    \/ \E enabled \in BOOLEAN : CreateSchedule(s, enabled, cron, interval, next)
    \/ \E enabled \in BOOLEAN \cup {None} : UpdateSchedule(s, enabled, cron, interval, next)

Next == SchedulerStep \/ Crash \/ OperatorStep \/ Tick

Spec == Init /\ [][Next]_vars

\* A goroutine that is up runs, a server that crashed is started again.  The
\* clock and the operators owe nothing.
FairSpec == Spec /\ WF_vars(SchedulerStep)

-----------------------------------------------------------------------------

\* Without an operator editing the schedule, its next_run_at is moved on only
\* after a task was created for it, whichever write failed and whenever the
\* server crashed.
NoRunSkipped ==
  [][\A s \in Schedule :
       /\ firing # None /\ firing.id = s /\ firing.edits = edits
       /\ schedules'[s] # schedules[s]
       => fires[s][firing.row.next] >= 1]_vars

\* A cron schedule gets one task per instant it is due, and one more for each
\* run that was never recorded, also when recording comes so late that the
\* next instant has passed, and when operators patch the row meanwhile.  An
\* interval schedule may get two: its next run is computed from the last_run_at
\* before the run.  Nothing is promised of an interval of zero or less, nor, at
\* the zero time, of an expression without a match, which gets a task at every
\* poll.  But a patch that sets either right ends the trouble, whatever row is
\* in memory: of a patched expression, at most a second task at the zero time.
RunsPerInstant ==
  \A s \in Schedule, x \in Instant :
    schedules[s] # None =>
      /\ schedules[s].interval = None /\ x # ZeroTime => fires[s][x] <= 1 + lost[s]
      /\ schedules[s].interval = None /\ schedules[s].cron # "unmatched" =>
           fires[s][x] <= 2 + lost[s]
      /\ schedules[s].cron = None /\ schedules[s].interval > 0 => fires[s][x] <= 2 + lost[s]

\* An enabled schedule that is due gets its task, unless an operator disables
\* or moves it first.
DueScheduleFires ==
  \A s \in Schedule, x \in Instant :
    (Due(s) /\ schedules[s].next = x)
      ~> (fires[s][x] >= 1 \/ ~Due(s) \/ schedules[s].next # x)

\* next_run.go: "computeNextRun returns the next scheduled trigger time for sc
\* strictly after `after`", the time of the poll.  Of an interval schedule; of
\* an expression without a match NextMatch says at once that it is not so.
IntervalRunIsLater ==
  [][firing # None /\ firing.row.cron = None /\ firing' = None /\ schedules' # schedules =>
       schedules'[firing.id].next > pollNow]_vars

=============================================================================
