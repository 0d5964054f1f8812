------------------------ MODULE TaskSchedulerProofs ------------------------
(***************************************************************************)
(* For any number of schedules, any period and intervals, and whatever is  *)
(* patched, fails or crashes: no run is skipped, and no instant gets more  *)
(* tasks than RunsPerInstant allows.                                       *)
(*                                                                         *)
(* The argument: a row the goroutine holds has the last_run_at of the      *)
(* table and at least the columns that are NULL there (Reads); no task is  *)
(* created for an instant still to come; and the instant a schedule is set *)
(* to, or one in the list, has a run left (CountsOK), since what has been  *)
(* recorded moves a cron schedule past the poll, and an interval schedule  *)
(* past the run before.  An interval of zero or less moves nothing, and an  *)
(* expression without a match leads to the zero time; if they are in       *)
(* memory only, the patch that corrected the table started the counts      *)
(* afresh, and at most one task came from that row (Restarted).            *)
(***************************************************************************)
EXTENDS TaskScheduler, TLAPS

Firing(s) == firing # None /\ firing.id = s

\* What a row in memory knows of the row in the table.
Faithful(r) ==
  /\ schedules[r.id] # None
  /\ r.edits <= edits
  /\ r.row.last = schedules[r.id].last
  /\ schedules[r.id].interval = None => r.row.interval = None
  /\ schedules[r.id].cron = None => r.row.cron = None
  /\ r.row.cron # None \/ r.row.interval # None
  /\ pc = "run" => r.row.next \in Instant /\ r.row.next <= pollNow

Reads ==
  /\ pollNow <= now
  /\ pc # "run" => firing = None
  /\ pc = "down" => list = {}
  /\ \A r \in list : Faithful(r)
  /\ firing # None => Faithful(firing)
  /\ \A q, r \in list : q.id = r.id => q = r
  /\ firing # None => \A r \in list : r.id # firing.id
  /\ \A s \in Schedule : schedules[s] # None =>
       schedules[s].cron # None \/ schedules[s].interval # None

\* Where an instant may get a second task.
Extra(s, x) == IF schedules[s].interval = None /\ x # ZeroTime THEN 0 ELSE 1

\* The schedules and instants RunsPerInstant makes a promise of.
Plain(s, x) ==
  /\ schedules[s] # None
  /\ \/ schedules[s].interval = None /\ (x # ZeroTime \/ schedules[s].cron # "unmatched")
     \/ schedules[s].cron = None /\ schedules[s].interval > 0

CountsOK(s) ==
  \A x \in Instant :
    /\ schedules[s] = None => fires[s][x] = 0
    /\ fires[s][x] > 0 => x <= pollNow
    /\ Plain(s, x) =>
         /\ fires[s][x] <= 1 + Extra(s, x) + lost[s]
         /\ ~Firing(s) /\ schedules[s].next = x => fires[s][x] <= Extra(s, x) + lost[s]
         /\ pc = "run" /\ (\E r \in list : r.id = s /\ r.row.next = x) =>
              fires[s][x] <= Extra(s, x) + lost[s]
    /\ /\ schedules[s] # None /\ schedules[s].cron = None
       /\ schedules[s].last = None \/ schedules[s].last < x
       => fires[s][x] <= lost[s] + (IF Firing(s) THEN 1 ELSE 0)

Counts == \A s \in Schedule : CountsOK(s)

Created ==
  firing # None /\ firing.edits = edits => fires[firing.id][firing.row.next] >= 1

\* What came of rows whose expression or interval has been patched since they
\* were read.
Patches(r) ==
  \/ r.row.interval # schedules[r.id].interval
  \/ r.row.cron # schedules[r.id].cron

Restarted ==
  /\ \A r \in list : Patches(r) => \A x \in Instant : fires[r.id][x] = 0
  /\ firing # None /\ Patches(firing) => \A x \in Instant : fires[firing.id][x] <= 1

SchedulerInv == TypeOK /\ Reads /\ Counts /\ Created /\ Restarted

-----------------------------------------------------------------------------

LEMMA NextMatchIsLater ==
  ASSUME NEW cron \in Cron, NEW t \in Nat
  PROVE  /\ cron # "unmatched" => NextMatch(cron, t) \in Nat /\ NextMatch(cron, t) > t
         /\ cron = "unmatched" => NextMatch(cron, t) = ZeroTime
BY SchedulerConstants DEF NextMatch

LEMMA Instants ==
  /\ Time \subseteq Instant /\ Instant \subseteq Int /\ Time \subseteq Nat
  /\ ZeroTime \in Instant
  /\ \A x \in Instant \cup Nat, t \in Time : x \in Nat /\ x <= t => x \in Instant
  /\ \A t \in Time, i \in Interval : t + i \in Instant
BY SchedulerConstants DEF Instant, Time

LEMMA OneMoreFacts ==
  ASSUME NEW n \in 0 .. MaxCount
  PROVE  /\ OneMore(n) \in 0 .. MaxCount /\ OneMore(n) >= 1 /\ OneMore(n) <= n + 1
         /\ OneMore(n) >= n
         /\ \A m \in 0 .. MaxCount : \A e \in Nat : m <= e + n + 1 => m <= e + OneMore(n)
BY SchedulerConstants DEF OneMore

\* A cron schedule goes to an instant after the poll, or to the zero time if its
\* expression has no match, an interval schedule to
\* one after its last run or, not having run, after the poll: if the interval
\* is one.
LEMMA ComputedNext ==
  ASSUME NEW row \in Row, HasNextRun(row), NEW t \in Time
  PROVE  /\ computeNextRun(row, t) \in Instant \cup Nat
         /\ row.cron \notin {None, "unmatched"} => computeNextRun(row, t) > t
         /\ row.cron = "unmatched" => computeNextRun(row, t) = ZeroTime
         /\ row.cron = None => row.interval \in Int
         /\ row.cron = None /\ row.interval > 0 /\ row.last = None => computeNextRun(row, t) > t
         /\ row.cron = None /\ row.interval > 0 /\ row.last # None =>
              computeNextRun(row, t) > row.last
<1>1. t \in Nat
  BY Instants
<1>2. CASE row.cron # None
  BY <1>1, <1>2, NextMatchIsLater, Instants, NoneIsNoRow DEF computeNextRun, Row
<1>3. CASE row.cron = None
  <2>1. row.interval \in Interval /\ row.interval \in Int
    BY <1>3, SchedulerConstants, NoneIsNoRow DEF HasNextRun, Row, Cron
  <2>2. row.last # None => row.last \in Time /\ row.last \in Nat
    BY Instants DEF Row
  <2>3. computeNextRun(row, t) \in Instant
    BY <1>3, <2>1, <2>2, Instants DEF computeNextRun
  <2>4. QED BY <1>1, <1>3, <2>1, <2>2, <2>3, NoneIsNoRow DEF computeNextRun, Cron
<1>4. QED BY <1>2, <1>3

LEMMA SchedulerInvInit == Init => SchedulerInv
<1> SUFFICES ASSUME Init PROVE SchedulerInv
  OBVIOUS
<1>1. TypeOK
  BY SchedulerConstants DEF Init, TypeOK, Time
<1>2. Reads /\ Created /\ Restarted
  BY SchedulerConstants DEF Init, Reads, Created, Restarted
<1>3. Counts
  BY SchedulerConstants DEF Init, Counts, CountsOK, Plain
<1>4. QED BY <1>1, <1>2, <1>3 DEF SchedulerInv

\* A schedule of which nothing is written keeps its counts.
LEMMA CountsFrame ==
  ASSUME TypeOK, TypeOK', NEW s \in Schedule, CountsOK(s),
         schedules'[s] = schedules[s], fires'[s] = fires[s], lost'[s] = lost[s],
         pollNow <= pollNow', Firing(s)' <=> Firing(s),
         \A r \in list' : pc' = "run" /\ r.id = s => pc = "run" /\ r \in list
  PROVE  CountsOK(s)'
<1>1. pollNow \in Nat /\ pollNow' \in Nat /\ \A x \in Instant : x \in Int
  BY Instants DEF TypeOK
<1>2. \A x \in Instant : Extra(s, x)' = Extra(s, x) /\ (Plain(s, x)' <=> Plain(s, x))
  BY DEF Extra, Plain
<1>3. QED BY <1>1, <1>2 DEF CountsOK

\* So does one whose history was started afresh.
LEMMA CountsFresh ==
  ASSUME TypeOK', NEW s \in Schedule, fires'[s] = [x \in Instant |-> 0]
  PROVE  CountsOK(s)'
<1>1. \A x \in Instant : fires'[s][x] = 0
  OBVIOUS
<1>2. lost'[s] \in Nat /\ \A x \in Instant : Extra(s, x)' \in Nat
  BY SchedulerConstants DEF TypeOK, Extra
<1>3. QED BY <1>1, <1>2 DEF CountsOK

\* What is to be shown of a schedule the goroutine holds no row of.
LEMMA CountsReleased ==
  ASSUME NEW s \in Schedule, ~Firing(s)', \A r \in list' : r.id # s, lost'[s] \in Nat,
         schedules'[s] # None,
         \A x \in Instant : fires'[s][x] > 0 => x <= pollNow',
         \A x \in Instant : Plain(s, x)' => fires'[s][x] <= 1 + Extra(s, x)' + lost'[s],
         \A x \in Instant : Plain(s, x)' /\ schedules'[s].next = x =>
           fires'[s][x] <= Extra(s, x)' + lost'[s],
         \A x \in Instant :
           /\ schedules'[s].cron = None
           /\ schedules'[s].last = None \/ schedules'[s].last < x
           => fires'[s][x] <= lost'[s]
  PROVE  CountsOK(s)'
<1>1. lost'[s] + 0 = lost'[s]
  OBVIOUS
<1>2. QED BY <1>1 DEF CountsOK

LEMMA ReadFacts ==
  ASSUME TypeOK, NEW ids \in SUBSET Schedule, \A s \in ids : schedules[s] # None
  PROVE  /\ Read(ids) \subseteq ReadRow
         /\ \A r \in Read(ids) : r.id \in ids /\ r.row = schedules[r.id] /\ r.edits = edits
         /\ \A q, r \in Read(ids) : q.id = r.id => q = r
BY DEF Read, TypeOK, ReadRow

LEMMA StartKeeps == SchedulerInv /\ (Start \/ StartUninitialised \/ InitDone \/ Tick) => SchedulerInv'
<1> SUFFICES ASSUME SchedulerInv, Start \/ StartUninitialised \/ InitDone \/ Tick
             PROVE  SchedulerInv'
  OBVIOUS
<1> USE DEF SchedulerInv
<1>1. /\ UNCHANGED <<schedules, firing, edits, fires, lost>>
      /\ now \in Nat /\ now' \in Time /\ pollNow' \in Time /\ pollNow \in Nat
      /\ pollNow <= pollNow' /\ pollNow' <= now'
      /\ pc' \in {"down", "init", "run"} /\ faults' \in 0 .. MaxFaults
  BY SchedulerConstants DEF TypeOK, Reads, Time, Start, StartUninitialised, InitDone, Tick,
                            Fault, history, goroutine
<1> DEFINE ids == {s \in Schedule : /\ schedules[s] # None
                                    /\ schedules[s].enabled
                                    /\ schedules[s].next = None}
<1>2. \/ Start /\ pc = "down" /\ pc' = "init" /\ list' = Read(ids)
      \/ pc = "down" /\ pc' = "run" /\ list' = list
      \/ pc = "init" /\ pc' = "run" /\ list' = list /\ list = {}
      \/ pc' = pc /\ list' = list /\ pollNow' = pollNow
  BY DEF Start, StartUninitialised, InitDone, Tick, goroutine
<1> HIDE DEF ids
<1>3. /\ Read(ids) \subseteq ReadRow
      /\ \A r \in Read(ids) : r.id \in ids /\ r.row = schedules[r.id] /\ r.edits = edits
      /\ \A q, r \in Read(ids) : q.id = r.id => q = r
  BY ReadFacts DEF ids
<1>4. TypeOK'
  BY <1>1, <1>2, <1>3 DEF TypeOK
<1>5. Reads'
  <2>1. CASE Start /\ pc = "down" /\ pc' = "init" /\ list' = Read(ids)
    <3>1. \A r \in list' : Faithful(r)'
      BY <1>1, <1>3, <2>1 DEF Reads, Faithful, ids, TypeOK
    <3>2. QED BY <1>1, <1>3, <2>1, <3>1 DEF Reads
  <2>2. CASE list' = list /\ list = {} /\ firing = None
    BY <1>1, <2>2 DEF Reads
  <2>3. CASE pc' = pc /\ list' = list /\ pollNow' = pollNow
    BY <1>1, <2>3 DEF Reads, Faithful
  <2>4. QED BY <1>2, <2>1, <2>2, <2>3 DEF Reads
<1>6. Counts'
  <2>1. ASSUME NEW s \in Schedule PROVE CountsOK(s)'
    <3>1. \A r \in list' : pc' = "run" /\ r.id = s => pc = "run" /\ r \in list
      BY <1>2 DEF Reads
    <3>2. QED BY <1>1, <1>4, <3>1, CountsFrame DEF Counts, Firing
  <2>2. QED BY <2>1 DEF Counts
<1>7. Restarted'
  BY <1>1, <1>2, <1>3 DEF Restarted, Reads, Patches
<1>8. QED BY <1>1, <1>4, <1>5, <1>6, <1>7 DEF Created

LEMMA PollKeeps == SchedulerInv /\ Poll => SchedulerInv'
<1> SUFFICES ASSUME SchedulerInv, Poll PROVE SchedulerInv'
  OBVIOUS
<1> USE DEF SchedulerInv
<1> DEFINE ids == {s \in Schedule : Due(s)}
<1>1. /\ pc = "run" /\ list = {} /\ firing = None /\ list' = Read(ids) /\ pollNow' = now
      /\ UNCHANGED <<now, schedules, pc, firing, edits, faults, fires, lost>>
  BY DEF Poll, history
<1> HIDE DEF ids
<1>2. /\ Read(ids) \subseteq ReadRow
      /\ \A r \in Read(ids) : r.id \in ids /\ r.row = schedules[r.id] /\ r.edits = edits
      /\ \A q, r \in Read(ids) : q.id = r.id => q = r
  BY ReadFacts DEF ids, Due
<1>3. TypeOK'
  BY <1>1, <1>2 DEF TypeOK
<1>4. pollNow <= now /\ now \in Nat /\ pollNow \in Nat
  BY SchedulerConstants DEF TypeOK, Reads, Time
<1>5. ASSUME NEW r \in list'
      PROVE  /\ r.id \in Schedule /\ r.row = schedules[r.id] /\ r.edits = edits
             /\ schedules[r.id] # None /\ schedules[r.id].next \in Instant
             /\ schedules[r.id].next <= now
  <2>1. r.id \in Schedule /\ Due(r.id) /\ r.row = schedules[r.id] /\ r.edits = edits
    BY <1>1, <1>2 DEF ids
  <2>2. schedules[r.id] \in Row
    BY <2>1 DEF Due, TypeOK
  <2>3. schedules[r.id].next \in Instant \cup Nat /\ now \in Time
    BY <2>1, <2>2 DEF Due, Row, TypeOK
  <2>4. QED BY <1>4, <2>1, <2>3, Instants DEF Due
<1>6. Reads'
  <2>1. \A r \in list' : Faithful(r)'
    <3>1. ASSUME NEW r \in list' PROVE Faithful(r)'
      <4>1. r.edits <= edits
        BY <1>5, SchedulerConstants DEF TypeOK
      <4>2. QED BY <1>1, <1>5, <4>1 DEF Faithful, Reads
    <3>2. QED BY <3>1
  <2>2. QED BY <1>1, <1>2, <1>4, <2>1 DEF Reads
<1>7. ASSUME NEW s \in Schedule PROVE CountsOK(s)'
  <2>1. CountsOK(s) /\ ~Firing(s) /\ ~Firing(s)'
        /\ \A x \in Instant : Extra(s, x)' = Extra(s, x) /\ (Plain(s, x)' <=> Plain(s, x))
    BY <1>1 DEF Counts, Firing, Extra, Plain
  <2>2. \A r \in list' : r.id = s => r.row.next = schedules[s].next
    BY <1>5
  <2>3. \A x \in Instant : x <= pollNow => x <= now
    BY <1>4, Instants
  <2>4. QED BY <1>1, <2>1, <2>2, <2>3 DEF CountsOK
<1>8. Restarted'
  BY <1>1, <1>5 DEF Restarted, Patches
<1>9. QED BY <1>1, <1>3, <1>6, <1>7, <1>8 DEF Counts, Created

\* A row with nothing to run on gets an instant that has its runs left.
LEMMA InitScheduleKeeps ==
  ASSUME SchedulerInv, NEW r \in list, InitSchedule(r)
  PROVE  SchedulerInv'
<1> USE DEF SchedulerInv
<1>1. /\ pc = "init" /\ list' = list \ {r} /\ firing = None
      /\ UNCHANGED <<now, pc, firing, pollNow, edits, fires, lost>>
      /\ faults' \in 0 .. MaxFaults
  BY SchedulerConstants DEF InitSchedule, history, TypeOK, Reads, Fault
<1>2. /\ r.id \in Schedule /\ r.row \in Row /\ pollNow \in Time
      /\ Faithful(r) /\ schedules[r.id] \in Row
  BY DEF TypeOK, Reads, ReadRow, Faithful
<1> DEFINE n == computeNextRun(r.row, pollNow)
<1>3. \/ HasNextRun(r.row) /\ schedules' = [schedules EXCEPT ![r.id].next = n]
      \/ schedules' = schedules
  BY DEF InitSchedule
<1>4. HasNextRun(r.row) =>
        /\ n \in Instant \cup Nat
        /\ r.row.cron \notin {None, "unmatched"} => n > pollNow
        /\ r.row.cron = "unmatched" => n = ZeroTime
        /\ r.row.cron = None => r.row.interval \in Int /\ r.row.interval # None
        /\ r.row.cron = None /\ r.row.interval > 0 /\ r.row.last = None => n > pollNow
        /\ r.row.cron = None /\ r.row.interval > 0 /\ r.row.last # None => n > r.row.last
  BY <1>2, ComputedNext, NoneIsNoRow
<1> HIDE DEF n
<1>5. \A s \in Schedule :
        /\ schedules'[s] = None <=> schedules[s] = None
        /\ schedules[s] # None =>
             /\ schedules'[s] \in Row
             /\ schedules'[s].cron = schedules[s].cron
             /\ schedules'[s].interval = schedules[s].interval
             /\ schedules'[s].last = schedules[s].last
  <2>1. CASE schedules' = schedules
    BY <2>1 DEF TypeOK
  <2>2. CASE HasNextRun(r.row) /\ schedules' = [schedules EXCEPT ![r.id].next = n]
    <3>1. ASSUME NEW s \in Schedule, s # r.id PROVE schedules'[s] = schedules[s]
      BY <2>2, <3>1 DEF TypeOK
    <3>2. schedules'[r.id] = [schedules[r.id] EXCEPT !.next = n]
      BY <1>2, <2>2 DEF TypeOK
    <3>3. /\ schedules'[r.id] \in Row
          /\ schedules'[r.id].cron = schedules[r.id].cron
          /\ schedules'[r.id].interval = schedules[r.id].interval
          /\ schedules'[r.id].last = schedules[r.id].last
      BY <1>2, <1>4, <2>2, <3>2 DEF Row
    <3>4. schedules'[r.id] # None /\ schedules[r.id] # None
      BY <1>2, <3>3, NoneIsNoRow
    <3>5. QED BY <3>1, <3>3, <3>4 DEF TypeOK
  <2>3. QED BY <1>3, <2>1, <2>2
<1>6. TypeOK'
  <2>1. schedules' \in [Schedule -> Row \cup {None}]
    <3>1. schedules' = [s \in Schedule |-> schedules'[s]]
      BY <1>3 DEF TypeOK
    <3>2. QED BY <1>5, <3>1
  <2>2. QED BY <1>1, <2>1 DEF TypeOK
<1>7. Reads'
  <2>1. ASSUME NEW q \in list' PROVE Faithful(q)'
    <3>1. q \in list /\ Faithful(q) /\ q.id \in Schedule
      BY <1>1 DEF Reads, TypeOK, ReadRow
    <3>2. QED BY <1>1, <1>5, <3>1 DEF Faithful
  <2>2. QED BY <1>1, <1>5, <2>1 DEF Reads
<1>8. ASSUME NEW s \in Schedule PROVE CountsOK(s)'
  <2>1. CountsOK(s) /\ (Firing(s)' <=> Firing(s)) /\ ~Firing(s)
    BY <1>1 DEF Counts, Firing
  <2>2. CASE schedules'[s] = schedules[s]
    BY <1>1, <1>6, <2>1, <2>2, CountsFrame, Instants DEF TypeOK
  <2>3. CASE s = r.id /\ HasNextRun(r.row) /\ schedules' = [schedules EXCEPT ![r.id].next = n]
    <3>1. schedules'[s].next = n /\ schedules[s] # None
      BY <1>2, <2>3, NoneIsNoRow DEF TypeOK, Row
    <3>2. /\ \A x \in Instant : Extra(s, x)' = Extra(s, x) /\ (Plain(s, x)' <=> Plain(s, x))
          /\ \A x \in Instant : Extra(s, x) \in Nat
          /\ lost[s] \in Nat
      BY <1>5, <3>1, SchedulerConstants DEF Extra, Plain, TypeOK
    <3>3. ASSUME NEW x \in Instant, Plain(s, x), n = x PROVE fires[s][x] <= Extra(s, x) + lost[s]
      <4>1. fires[s][x] \in Nat /\ x \in Int /\ pollNow \in Nat
        BY SchedulerConstants, Instants DEF TypeOK
      <4>2. CASE n > pollNow
        BY <2>1, <3>2, <3>3, <4>1, <4>2 DEF CountsOK
      <4>3. CASE r.row.cron = "unmatched"
        <5>1. x = ZeroTime /\ Extra(s, x) = 1
          BY <1>4, <2>3, <3>3, <4>3 DEF Extra
        <5>2. schedules[s].cron # "unmatched"
          BY <1>2, <2>3, <3>3, <4>3, <5>1, NoneIsNoRow DEF Faithful, Plain, Cron
        <5>3. fires[s][x] = 0
          BY <2>3, <4>3, <5>2 DEF Restarted, Patches
        <5>4. QED BY <3>2, <4>1, <5>3
      <4>4. CASE r.row.cron # "unmatched" /\ ~(n > pollNow)
        <5>1. r.row.cron = None /\ r.row.interval # None
          BY <1>4, <2>3, <4>4
        <5>2. /\ schedules[s].cron = None /\ schedules[s].interval > 0
              /\ schedules[s].interval # None
          BY <1>2, <2>3, <3>3, <5>1 DEF Faithful, Plain
        <5>3. CASE r.row.interval # schedules[s].interval
          BY <2>3, <3>2, <4>1, <5>3 DEF Restarted, Patches
        <5>4. CASE r.row.interval = schedules[s].interval
          <6>1. r.row.last # None /\ n > r.row.last
            BY <1>4, <2>3, <4>4, <5>1, <5>2, <5>4
          <6>2. schedules[s].last < x
            BY <1>2, <2>3, <3>3, <4>1, <6>1, Instants DEF Faithful, Row
          <6>3. fires[s][x] <= lost[s] + 0
            BY <2>1, <3>1, <5>2, <6>2 DEF CountsOK
          <6>4. QED BY <3>2, <4>1, <6>3
        <5>5. QED BY <5>3, <5>4
      <4>5. QED BY <4>2, <4>3, <4>4
    <3>4. /\ schedules'[s].cron = schedules[s].cron /\ schedules'[s].last = schedules[s].last
          /\ schedules'[s] # None /\ pc' # "run"
      BY <1>1, <1>5, <3>1
    <3>5. QED BY <1>1, <2>1, <3>1, <3>2, <3>3, <3>4 DEF CountsOK
  <2>4. QED
    <3>1. s # r.id \/ schedules' = schedules => schedules'[s] = schedules[s]
      BY <1>3 DEF TypeOK
    <3>2. QED BY <1>3, <2>2, <2>3, <3>1
<1>9. Restarted'
  <2>1. \A q \in list' : q \in list /\ q.id \in Schedule /\ schedules[q.id] # None
    BY <1>1 DEF Reads, Faithful, TypeOK, ReadRow
  <2>2. QED BY <1>1, <1>5, <2>1 DEF Restarted, Patches
<1>10. QED BY <1>1, <1>6, <1>7, <1>8, <1>9 DEF Counts, Created

\* The instant in the list had a run left, and uses it.
LEMMA CreateDueTaskKeeps ==
  ASSUME SchedulerInv, NEW r \in list, CreateDueTask(r)
  PROVE  SchedulerInv'
<1> USE DEF SchedulerInv
<1> DEFINE x0 == r.row.next
           s0 == r.id
<1>1. /\ pc = "run" /\ firing = None /\ list' = list \ {r} /\ firing' = r
      /\ fires' = [fires EXCEPT ![s0][x0] = OneMore(@)]
      /\ UNCHANGED <<now, schedules, pc, pollNow, edits, faults, lost>>
  BY DEF CreateDueTask
<1>2. /\ s0 \in Schedule /\ Faithful(r) /\ x0 \in Instant /\ x0 <= pollNow
      /\ r \in ReadRow /\ r # None /\ schedules[s0] # None
  BY <1>1, NoneIsNoRow DEF TypeOK, Reads, ReadRow, Faithful
<1> HIDE DEF x0, s0
<1>3. fires[s0][x0] \in 0 .. MaxCount
  BY <1>2 DEF TypeOK
<1>4. /\ OneMore(fires[s0][x0]) \in 0 .. MaxCount /\ OneMore(fires[s0][x0]) >= 1
      /\ OneMore(fires[s0][x0]) <= fires[s0][x0] + 1
  BY <1>3, OneMoreFacts
<1>5. /\ fires'[s0][x0] = OneMore(fires[s0][x0])
      /\ \A s \in Schedule, x \in Instant : s # s0 \/ x # x0 => fires'[s][x] = fires[s][x]
      /\ \A s \in Schedule : s # s0 => fires'[s] = fires[s]
      /\ fires' \in [Schedule -> [Instant -> 0 .. MaxCount]]
  BY <1>1, <1>2, <1>4 DEF TypeOK
<1>6. TypeOK'
  BY <1>1, <1>2, <1>5 DEF TypeOK
<1>7. Reads'
  BY <1>1, <1>2 DEF Reads, Faithful
<1>8. Created'
  BY <1>1, <1>4, <1>5 DEF Created, x0, s0
<1>9. ASSUME NEW s \in Schedule PROVE CountsOK(s)'
  <2>1. CountsOK(s)
    BY DEF Counts
  <2>2. CASE s # s0
    <3>1. ~Firing(s) /\ ~Firing(s)'
      BY <1>1, <2>2 DEF Firing, s0
    <3>2. QED BY <1>1, <1>5, <1>6, <2>1, <2>2, <3>1, CountsFrame, Instants DEF TypeOK
  <2>3. CASE s = s0
    <3>1. /\ ~Firing(s) /\ Firing(s)' /\ schedules[s] # None
          /\ \A x \in Instant : Extra(s, x)' = Extra(s, x) /\ (Plain(s, x)' <=> Plain(s, x))
          /\ \A x \in Instant : Extra(s, x) \in Nat
          /\ lost[s] \in Nat
          /\ \A q \in list' : q.id # s
      BY <1>1, <1>2, <2>3, SchedulerConstants DEF Firing, s0, Extra, Plain, Reads, TypeOK
    <3>2. \A x \in Instant : fires[s][x] \in Nat /\ fires'[s][x] \in Nat
      BY <1>5, SchedulerConstants DEF TypeOK
    <3>3. \A x \in Instant : fires'[s][x] > 0 => x <= pollNow
      BY <1>2, <1>5, <2>1, <2>3 DEF CountsOK
    <3>4. ASSUME NEW x \in Instant, Plain(s, x) PROVE fires'[s][x] <= 1 + Extra(s, x) + lost[s]
      <4>1. CASE x = x0
        <5>1. fires[s][x] <= Extra(s, x) + lost[s]
          BY <1>1, <1>2, <2>1, <2>3, <3>4, <4>1 DEF CountsOK, s0, x0
        <5>2. fires'[s][x] <= fires[s][x] + 1
          BY <1>4, <1>5, <2>3, <4>1
        <5>3. QED BY <3>1, <3>2, <4>1, <5>1, <5>2
      <4>2. CASE x # x0
        BY <1>2, <1>5, <2>1, <2>3, <3>4, <4>2 DEF CountsOK
      <4>3. QED BY <4>1, <4>2
    <3>5. ASSUME NEW x \in Instant, schedules[s].cron = None,
                 schedules[s].last = None \/ schedules[s].last < x
          PROVE  fires'[s][x] <= lost[s] + 1
      <4>1. fires[s][x] <= lost[s] + 0
        BY <2>1, <3>1, <3>5 DEF CountsOK
      <4>2. fires'[s][x] <= fires[s][x] + 1
        BY <1>4, <1>5, <2>3, <3>2
      <4>3. QED BY <3>1, <3>2, <4>1, <4>2
    <3>6. QED BY <1>1, <3>1, <3>3, <3>4, <3>5 DEF CountsOK
  <2>4. QED BY <2>2, <2>3
<1>10. Restarted'
  <2>1. \A q \in list' : q \in list /\ q.id \in Schedule /\ q.id # s0
    BY <1>1 DEF Reads, TypeOK, ReadRow, s0
  <2>2. ASSUME Patches(r), NEW x \in Instant PROVE fires'[s0][x] <= 1
    <3>1. fires[s0][x] = 0 /\ fires[s0][x0] = 0
      BY <1>2, <2>2 DEF Restarted, s0
    <3>2. QED BY <1>2, <1>4, <1>5, <3>1
  <2>3. ASSUME NEW q \in list', Patches(q)', NEW x \in Instant PROVE fires'[q.id][x] = 0
    <3>1. q \in list /\ q.id # s0 /\ q.id \in Schedule /\ Patches(q)
      BY <1>1, <2>1, <2>3 DEF Patches
    <3>2. fires[q.id][x] = 0
      BY <3>1 DEF Restarted
    <3>3. QED BY <1>5, <3>1, <3>2
  <2>4. firing' = r /\ (Patches(r)' <=> Patches(r))
    BY <1>1 DEF Patches
  <2>5. QED BY <2>2, <2>3, <2>4 DEF Restarted, s0
<1>11. QED BY <1>6, <1>7, <1>8, <1>9, <1>10 DEF Counts

LEMMA CreateDueTaskFailsKeeps ==
  ASSUME SchedulerInv, NEW r \in list, CreateDueTaskFails(r)
  PROVE  SchedulerInv'
<1> USE DEF SchedulerInv
<1>1. /\ pc = "run" /\ firing = None /\ list' = list \ {r}
      /\ UNCHANGED <<now, schedules, pc, firing, pollNow, edits, fires, lost>>
      /\ faults' \in 0 .. MaxFaults
  BY SchedulerConstants DEF CreateDueTaskFails, Fault, history, TypeOK
<1>2. TypeOK' /\ Created' /\ Restarted'
  BY <1>1 DEF TypeOK, Created, Restarted, Patches
<1>3. Reads'
  BY <1>1 DEF Reads, Faithful
<1>4. ASSUME NEW s \in Schedule PROVE CountsOK(s)'
  BY <1>1, <1>2, CountsFrame, Instants DEF Counts, Firing, TypeOK
<1>5. QED BY <1>2, <1>3, <1>4 DEF Counts

\* What has been recorded has a next run with its runs left, and a last run
\* that is no earlier than any instant there was a task for.
LEMMA RecordKeeps == SchedulerInv /\ RecordScheduleRun => SchedulerInv'
<1> SUFFICES ASSUME SchedulerInv, RecordScheduleRun PROVE SchedulerInv'
  OBVIOUS
<1> USE DEF SchedulerInv
<1> DEFINE n == computeNextRun(firing.row, pollNow)
           s0 == firing.id
<1>1. /\ firing # None /\ HasNextRun(firing.row) /\ firing' = None
      /\ schedules' = [schedules EXCEPT ![s0] = [@ EXCEPT !.last = now, !.next = n]]
      /\ UNCHANGED <<now, pc, list, pollNow, edits, faults, fires, lost>>
  BY DEF RecordScheduleRun, history
<1>2. /\ s0 \in Schedule /\ firing.row \in Row /\ pollNow \in Time /\ pollNow <= now
      /\ now \in Time /\ Faithful(firing) /\ schedules[s0] \in Row /\ pc = "run"
      /\ \A r \in list : r.id # s0
  BY <1>1 DEF TypeOK, Reads, ReadRow, Faithful
<1>3. /\ n \in Instant \cup Nat
      /\ firing.row.cron \notin {None, "unmatched"} => n > pollNow
      /\ firing.row.cron = "unmatched" => n = ZeroTime
      /\ firing.row.cron = None => firing.row.interval \in Int /\ firing.row.interval # None
      /\ firing.row.cron = None /\ firing.row.interval > 0 /\ firing.row.last = None => n > pollNow
      /\ firing.row.cron = None /\ firing.row.interval > 0 /\ firing.row.last # None => n > firing.row.last
  BY <1>1, <1>2, ComputedNext, NoneIsNoRow
<1> HIDE DEF n, s0
<1>4. \A s \in Schedule : s # s0 => schedules'[s] = schedules[s]
  BY <1>1 DEF TypeOK
<1>5. /\ schedules'[s0] \in Row /\ schedules'[s0] # None
      /\ schedules'[s0].cron = schedules[s0].cron
      /\ schedules'[s0].interval = schedules[s0].interval
      /\ schedules'[s0].last = now /\ schedules'[s0].next = n
  <2>1. schedules'[s0] = [schedules[s0] EXCEPT !.last = now, !.next = n]
    BY <1>1, <1>2 DEF TypeOK
  <2>2. /\ schedules'[s0] \in Row
        /\ schedules'[s0].cron = schedules[s0].cron
        /\ schedules'[s0].interval = schedules[s0].interval
        /\ schedules'[s0].last = now /\ schedules'[s0].next = n
    BY <1>2, <1>3, <2>1 DEF Row
  <2>3. QED BY <2>2, NoneIsNoRow
<1>6. TypeOK'
  <2>1. schedules' = [s \in Schedule |-> schedules'[s]]
    BY <1>1 DEF TypeOK
  <2>2. schedules' \in [Schedule -> Row \cup {None}]
    BY <1>4, <1>5, <2>1 DEF TypeOK
  <2>3. QED BY <1>1, <2>2 DEF TypeOK
<1>7. Reads'
  <2>1. ASSUME NEW r \in list PROVE Faithful(r)'
    <3>1. Faithful(r) /\ r.id # s0 /\ r.id \in Schedule
      BY <1>2 DEF Reads, TypeOK, ReadRow
    <3>2. QED BY <1>1, <1>4, <3>1 DEF Faithful
  <2>2. \A s \in Schedule : schedules'[s] # None =>
          schedules'[s].cron # None \/ schedules'[s].interval # None
    BY <1>2, <1>4, <1>5, NoneIsNoRow DEF Reads
  <2>3. QED BY <1>1, <1>2, <2>1, <2>2 DEF Reads
<1>8. ASSUME NEW s \in Schedule PROVE CountsOK(s)'
  <2>1. CountsOK(s)
    BY DEF Counts
  <2>2. CASE s # s0
    <3>1. ~Firing(s) /\ ~Firing(s)'
      BY <1>1, <2>2 DEF Firing, s0
    <3>2. pollNow <= pollNow'
      BY <1>1, <1>2, SchedulerConstants DEF Time
    <3>3. schedules'[s] = schedules[s] /\ fires'[s] = fires[s] /\ lost'[s] = lost[s]
      BY <1>1, <1>4, <2>2
    <3>4. \A r \in list' : pc' = "run" /\ r.id = s => pc = "run" /\ r \in list
      BY <1>1
    <3>5. QED BY <1>6, <2>1, <3>1, <3>2, <3>3, <3>4, CountsFrame
  <2>3. CASE s = s0
    <3>1. /\ Firing(s) /\ ~Firing(s)' /\ schedules[s] # None
          /\ \A x \in Instant : Extra(s, x)' = Extra(s, x) /\ (Plain(s, x)' <=> Plain(s, x))
          /\ \A x \in Instant : Extra(s, x) \in Nat
          /\ lost[s] \in Nat
          /\ \A r \in list : r.id # s
      BY <1>1, <1>2, <1>5, <2>3, SchedulerConstants, NoneIsNoRow DEF Firing, s0, Extra, Plain, TypeOK
    <3>2. \A x \in Instant : fires[s][x] \in Nat /\ x \in Int
      BY SchedulerConstants, Instants DEF TypeOK
    <3>3. pollNow \in Nat /\ now \in Nat /\ pollNow <= now
      BY <1>2, SchedulerConstants DEF Time
    <3>4. ASSUME NEW x \in Instant, Plain(s, x), n = x PROVE fires[s][x] <= Extra(s, x) + lost[s]
      <4>1. CASE n > pollNow
        BY <2>1, <3>1, <3>2, <3>3, <3>4, <4>1 DEF CountsOK
      <4>2. CASE firing.row.cron = "unmatched"
        <5>1. x = ZeroTime /\ Extra(s, x) = 1
          BY <1>3, <3>4, <4>2 DEF Extra
        <5>2. schedules[s].cron # "unmatched"
          BY <1>2, <2>3, <3>4, <4>2, <5>1, NoneIsNoRow DEF Faithful, s0, Plain, Cron
        <5>3. fires[s][x] <= 1
          BY <1>1, <2>3, <4>2, <5>2 DEF Restarted, Patches, s0
        <5>4. QED BY <3>1, <3>2, <5>1, <5>3
      <4>3. CASE firing.row.cron # "unmatched" /\ ~(n > pollNow)
        <5>1. firing.row.cron = None /\ firing.row.interval # None
          BY <1>3, <4>3
        <5>2. /\ schedules[s].interval # None /\ schedules[s].cron = None
              /\ schedules[s].interval > 0
          BY <1>2, <2>3, <3>4, <5>1 DEF Faithful, s0, Plain
        <5>3. Extra(s, x) = 1
          BY <5>2 DEF Extra
        <5>4. CASE firing.row.interval # schedules[s].interval
          <6>1. fires[s][x] <= 1
            BY <1>1, <2>3, <5>4 DEF Restarted, Patches, s0
          <6>2. QED BY <3>1, <3>2, <5>3, <6>1
        <5>5. CASE firing.row.interval = schedules[s].interval
          <6>1. firing.row.last # None /\ n > firing.row.last
            BY <1>3, <4>3, <5>1, <5>2, <5>5
          <6>2. schedules[s].last < x
            BY <1>2, <2>3, <3>2, <3>4, <6>1, Instants DEF Faithful, Row, s0
          <6>3. fires[s][x] <= lost[s] + 1
            BY <2>1, <3>1, <5>2, <6>2 DEF CountsOK
          <6>4. QED BY <3>1, <3>2, <5>3, <6>3
        <5>6. QED BY <5>4, <5>5
      <4>4. QED BY <4>1, <4>2, <4>3
    <3>5. ASSUME NEW x \in Instant, schedules'[s].last = None \/ schedules'[s].last < x
          PROVE  fires[s][x] <= lost[s] + 0
      <4>1. now < x
        BY <1>5, <2>3, <3>3, <3>5, NoneIsNoRow
      <4>2. ~(x <= pollNow)
        BY <3>2, <3>3, <4>1
      <4>3. fires[s][x] = 0
        BY <2>1, <3>2, <4>2 DEF CountsOK
      <4>4. QED BY <3>1, <4>3
    <3>6. /\ schedules'[s] # None /\ schedules'[s].next = n
          /\ fires' = fires /\ lost' = lost /\ list' = list /\ pollNow' = pollNow
      BY <1>1, <1>5, <2>3
    <3>7. \A x \in Instant : /\ fires[s][x] > 0 => x <= pollNow
                             /\ Plain(s, x) => fires[s][x] <= 1 + Extra(s, x) + lost[s]
      BY <2>1 DEF CountsOK
    <3>8. \A x \in Instant :
            schedules'[s].last = None \/ schedules'[s].last < x => fires[s][x] <= lost[s]
      BY <3>1, <3>5
    <3>9. QED BY <3>1, <3>4, <3>6, <3>7, <3>8, CountsReleased
  <2>4. QED BY <2>2, <2>3
<1>9. Restarted'
  BY <1>1, <1>2, <1>4 DEF Restarted, Patches, TypeOK, ReadRow
<1>10. QED BY <1>1, <1>6, <1>7, <1>8, <1>9 DEF Counts, Created

\* Whoever leaves a run unrecorded is counted for it.
LEMMA UnrecordedKeeps == SchedulerInv /\ (LeaveUnrecorded \/ Crash) => SchedulerInv'
<1> SUFFICES ASSUME SchedulerInv, LeaveUnrecorded \/ Crash PROVE SchedulerInv'
  OBVIOUS
<1> USE DEF SchedulerInv
<1>1. /\ firing' = None /\ faults' \in 0 .. MaxFaults
      /\ UNCHANGED <<now, schedules, pollNow, edits, fires>>
      /\ \/ pc' = pc /\ list' = list
         \/ pc' = "down" /\ list' = {}
      /\ IF firing = None THEN lost' = lost
         ELSE lost' = [lost EXCEPT ![firing.id] = OneMore(@)]
  BY SchedulerConstants DEF LeaveUnrecorded, Crash, Fault, TypeOK
<1>2. firing # None => firing.id \in Schedule
  BY DEF TypeOK, ReadRow
<1>3. \A s \in Schedule : lost[s] \in 0 .. MaxCount /\ OneMore(lost[s]) \in 0 .. MaxCount
  <2>1. ASSUME NEW s \in Schedule
        PROVE  lost[s] \in 0 .. MaxCount /\ OneMore(lost[s]) \in 0 .. MaxCount
    <3>1. lost[s] \in 0 .. MaxCount
      BY DEF TypeOK
    <3>2. QED BY <3>1, OneMoreFacts
  <2>2. QED BY <2>1
<1>4. TypeOK'
  <2>1. lost' \in [Schedule -> 0 .. MaxCount]
    BY <1>1, <1>2, <1>3 DEF TypeOK
  <2>2. QED BY <1>1, <2>1 DEF TypeOK
<1>5. Reads' /\ Created' /\ Restarted'
  BY <1>1 DEF Reads, Faithful, Created, Restarted, Patches
<1>6. ASSUME NEW s \in Schedule PROVE CountsOK(s)'
  <2>1. CountsOK(s)
    BY DEF Counts
  <2>2. CASE ~Firing(s)
    <3>1. lost'[s] = lost[s] /\ ~Firing(s)'
      BY <1>1, <1>2, <2>2 DEF Firing, TypeOK
    <3>2. \A r \in list' : pc' = "run" /\ r.id = s => pc = "run" /\ r \in list
      BY <1>1
    <3>3. pollNow <= pollNow'
      BY <1>1, SchedulerConstants DEF TypeOK, Time
    <3>4. QED BY <1>1, <1>4, <2>1, <2>2, <3>1, <3>2, <3>3, CountsFrame
  <2>3. CASE Firing(s)
    <3>1. /\ lost'[s] = OneMore(lost[s]) /\ ~Firing(s)' /\ \A r \in list' : r.id # s
          /\ \A x \in Instant : Extra(s, x)' = Extra(s, x) /\ (Plain(s, x)' <=> Plain(s, x))
          /\ \A x \in Instant : Extra(s, x) \in Nat
          /\ schedules'[s] = schedules[s]
      BY <1>1, <2>3 DEF Firing, TypeOK, Reads, Extra, Plain
    <3>2. \A x \in Instant : fires[s][x] \in 0 .. MaxCount
      BY DEF TypeOK
    <3>3. /\ OneMore(lost[s]) \in 0 .. MaxCount /\ OneMore(lost[s]) >= lost[s]
          /\ \A m \in 0 .. MaxCount : \A e \in Nat :
               m <= e + lost[s] + 1 => m <= e + OneMore(lost[s])
      BY <1>3, OneMoreFacts
    <3>4. lost[s] \in Nat /\ lost'[s] \in Nat
      BY <1>3, <3>1, SchedulerConstants
    <3>5. ASSUME NEW x \in Instant, Plain(s, x) PROVE fires[s][x] <= Extra(s, x) + lost'[s]
      <4>1. fires[s][x] <= 1 + Extra(s, x) + lost[s]
        BY <2>1, <3>5 DEF CountsOK
      <4>2. fires[s][x] <= Extra(s, x) + lost[s] + 1
        BY <3>1, <3>4, <4>1
      <4>3. QED BY <3>1, <3>2, <3>3, <4>2
    <3>6. ASSUME NEW x \in Instant, schedules[s] # None /\ schedules[s].cron = None,
                 schedules[s].last = None \/ schedules[s].last < x
          PROVE  fires[s][x] <= lost'[s]
      <4>1. fires[s][x] <= lost[s] + 1
        BY <2>1, <2>3, <3>6 DEF CountsOK
      <4>2. fires[s][x] <= 0 + lost[s] + 1
        BY <3>4, <4>1
      <4>3. fires[s][x] <= 0 + OneMore(lost[s])
        BY <3>2, <3>3, <4>2
      <4>4. QED BY <3>1, <3>4, <4>3
    <3>7. ASSUME NEW x \in Instant, Plain(s, x) PROVE fires[s][x] <= 1 + Extra(s, x) + lost'[s]
      BY <3>1, <3>2, <3>4, <3>5, <3>7, SchedulerConstants
    <3>8. \A x \in Instant : fires'[s][x] = fires[s][x] /\ pollNow' = pollNow
      BY <1>1
    <3>9. schedules[s] # None /\ \A x \in Instant : fires[s][x] > 0 => x <= pollNow
      BY <2>1, <2>3 DEF CountsOK, Firing, Reads, Faithful
    <3>10. QED BY <3>1, <3>4, <3>5, <3>6, <3>7, <3>8, <3>9, CountsReleased
  <2>4. QED BY <2>2, <2>3
<1>7. QED BY <1>4, <1>5, <1>6 DEF Counts

\* A new schedule starts with no tasks, and no row of it is held.
LEMMA CreateScheduleKeeps ==
  ASSUME SchedulerInv, NEW s0 \in Schedule, NEW cron \in Cron \cup {None},
         NEW interval \in Interval \cup {None}, NEW next \in Time \cup {None},
         NEW enabled \in BOOLEAN, CreateSchedule(s0, enabled, cron, interval, next)
  PROVE  SchedulerInv'
<1> USE DEF SchedulerInv
<1> DEFINE row == [enabled |-> enabled, cron |-> cron, interval |-> interval,
                   last |-> None, next |-> next]
<1>1. /\ schedules[s0] = None
      /\ (cron # None \/ interval # None)
      /\ schedules' = [schedules EXCEPT ![s0] = row]
      /\ UNCHANGED <<now, pc, list, firing, pollNow, edits, faults, fires, lost>>
  BY DEF CreateSchedule, goroutine, history
<1>2. row \in Row /\ row.cron = cron /\ row.interval = interval
  BY Instants DEF Row
<1> HIDE DEF row
<1>3. /\ schedules'[s0] = row
      /\ \A s \in Schedule : s # s0 => schedules'[s] = schedules[s]
  BY <1>1 DEF TypeOK
<1>4. TypeOK'
  BY <1>1, <1>2 DEF TypeOK
<1>5. /\ \A r \in list : r.id \in Schedule /\ r.id # s0
      /\ firing # None => firing.id \in Schedule /\ firing.id # s0
  BY <1>1 DEF Reads, Faithful, TypeOK, ReadRow
<1>6. Reads'
  <2>1. ASSUME NEW r \in list PROVE Faithful(r)'
    BY <1>1, <1>3, <1>5 DEF Faithful, Reads
  <2>2. firing # None => Faithful(firing)'
    BY <1>1, <1>3, <1>5 DEF Faithful, Reads
  <2>3. \A s \in Schedule : schedules'[s] # None =>
          schedules'[s].cron # None \/ schedules'[s].interval # None
    BY <1>1, <1>2, <1>3 DEF Reads
  <2>4. QED BY <1>1, <2>1, <2>2, <2>3 DEF Reads
<1>7. ASSUME NEW s \in Schedule PROVE CountsOK(s)'
  <2>1. CountsOK(s)
    BY DEF Counts
  <2>2. CASE s # s0
    <3>1. Firing(s)' <=> Firing(s)
      BY <1>1 DEF Firing
    <3>2. schedules'[s] = schedules[s] /\ fires'[s] = fires[s] /\ lost'[s] = lost[s]
      BY <1>1, <1>3, <2>2
    <3>3. pollNow <= pollNow'
      BY <1>1, SchedulerConstants DEF TypeOK, Time
    <3>4. \A r \in list' : pc' = "run" /\ r.id = s => pc = "run" /\ r \in list
      BY <1>1
    <3>5. QED BY <1>4, <2>1, <3>1, <3>2, <3>3, <3>4, CountsFrame
  <2>3. CASE s = s0
    <3>1. \A x \in Instant : fires[s][x] = 0
      BY <1>1, <2>1, <2>3 DEF CountsOK
    <3>2. fires[s] \in [Instant -> 0 .. MaxCount]
      BY DEF TypeOK
    <3>3. fires'[s] = [x \in Instant |-> 0]
      BY <1>1, <3>1, <3>2
    <3>4. QED BY <1>4, <3>3, CountsFresh
  <2>4. QED BY <2>2, <2>3
<1>8. Restarted'
  BY <1>1, <1>3, <1>5 DEF Restarted, Patches
<1>9. QED BY <1>1, <1>4, <1>6, <1>7, <1>8 DEF Counts, Created

\* A patch leaves no column NULL that was not, and what it changes of when the
\* schedule runs starts the counts afresh.
LEMMA UpdateScheduleKeeps ==
  ASSUME SchedulerInv, NEW s0 \in Schedule, NEW cron \in Cron \cup {None},
         NEW interval \in Interval \cup {None}, NEW next \in Time \cup {None},
         NEW enabled \in BOOLEAN \cup {None},
         UpdateSchedule(s0, enabled, cron, interval, next)
  PROVE  SchedulerInv'
<1> USE DEF SchedulerInv
<1> DEFINE row == [schedules[s0] EXCEPT !.enabled = Patched(enabled, @),
                                        !.cron = Patched(cron, @),
                                        !.interval = Patched(interval, @),
                                        !.next = Patched(next, @)]
<1>1. /\ schedules[s0] # None /\ edits < MaxEdits /\ edits' = edits + 1
      /\ UNCHANGED <<now, pc, list, firing, pollNow, faults>>
  BY DEF UpdateSchedule, goroutine
<1>1a. schedules' = [schedules EXCEPT ![s0] = row]
  BY DEF UpdateSchedule
<1>2. \/ fires' = [fires EXCEPT ![s0] = [x \in Instant |-> 0]] /\ lost' = [lost EXCEPT ![s0] = 0]
      \/ cron = None /\ interval = None /\ next = None /\ fires' = fires /\ lost' = lost
  BY DEF UpdateSchedule, history
<1>3. schedules[s0] \in Row
  BY <1>1 DEF TypeOK
<1>4. /\ row \in Row /\ row.last = schedules[s0].last
      /\ row.cron = Patched(cron, schedules[s0].cron)
      /\ row.interval = Patched(interval, schedules[s0].interval)
      /\ row.next = Patched(next, schedules[s0].next)
  <2>1. \A x \in Time : x \in Nat
    BY Instants
  <2>2. /\ Patched(enabled, schedules[s0].enabled) \in BOOLEAN
        /\ Patched(cron, schedules[s0].cron) \in Cron \cup {None}
        /\ Patched(interval, schedules[s0].interval) \in Interval \cup {None}
        /\ Patched(next, schedules[s0].next) \in Instant \cup Nat \cup {None}
    BY <1>3, <2>1 DEF Patched, Row
  <2> DEFINE e == Patched(enabled, schedules[s0].enabled)
             c == Patched(cron, schedules[s0].cron)
             i == Patched(interval, schedules[s0].interval)
             n == Patched(next, schedules[s0].next)
  <2>3. row = [schedules[s0] EXCEPT !.enabled = e, !.cron = c, !.interval = i, !.next = n]
    OBVIOUS
  <2>4. e \in BOOLEAN /\ c \in Cron \cup {None} /\ i \in Interval \cup {None}
        /\ n \in Instant \cup Nat \cup {None}
    BY <2>2
  <2> HIDE DEF e, c, i, n, row
  <2>5. row \in Row /\ row.last = schedules[s0].last /\ row.cron = c /\ row.interval = i /\ row.next = n
    BY <1>3, <2>3, <2>4 DEF Row
  <2>6. QED BY <2>5 DEF e, c, i, n
<1> HIDE DEF row
<1>5. /\ row.cron = None => schedules[s0].cron = None
      /\ row.interval = None => schedules[s0].interval = None
      /\ row # None
  BY <1>4, NoneIsNoRow DEF Patched
<1>6. /\ schedules'[s0] = row
      /\ \A s \in Schedule : s # s0 => schedules'[s] = schedules[s]
  BY <1>1a DEF TypeOK
<1>7. edits \in Nat /\ edits' \in 0 .. MaxEdits /\ edits <= edits'
  BY <1>1, SchedulerConstants DEF TypeOK
<1>8. /\ fires' \in [Schedule -> [Instant -> 0 .. MaxCount]]
      /\ lost' \in [Schedule -> 0 .. MaxCount]
      /\ \A s \in Schedule : s # s0 => fires'[s] = fires[s] /\ lost'[s] = lost[s]
  <2>1. fires \in [Schedule -> [Instant -> 0 .. MaxCount]] /\ lost \in [Schedule -> 0 .. MaxCount]
    BY DEF TypeOK
  <2>2. 0 \in 0 .. MaxCount /\ [x \in Instant |-> 0] \in [Instant -> 0 .. MaxCount]
    BY SchedulerConstants
  <2>3. QED BY <1>2, <2>1, <2>2
<1>9. TypeOK'
  BY <1>1, <1>1a, <1>4, <1>7, <1>8 DEF TypeOK
<1>10. ASSUME NEW r \in ReadRow, Faithful(r) PROVE Faithful(r)'
  <2>1. r.edits \in Nat /\ r.edits <= edits' /\ r.id \in Schedule
    BY <1>7, <1>10, SchedulerConstants DEF ReadRow, Faithful
  <2>2. CASE r.id = s0
    BY <1>1, <1>4, <1>5, <1>6, <1>10, <2>1, <2>2 DEF Faithful
  <2>3. CASE r.id # s0
    BY <1>1, <1>6, <1>10, <2>1, <2>3 DEF Faithful
  <2>4. QED BY <2>2, <2>3
<1>11. Reads'
  <2>1. \A r \in list : r \in ReadRow /\ Faithful(r)
    BY DEF Reads, TypeOK
  <2>2. firing # None => firing \in ReadRow /\ Faithful(firing)
    BY DEF Reads, TypeOK
  <2>3. \A s \in Schedule : schedules'[s] # None =>
          schedules'[s].cron # None \/ schedules'[s].interval # None
    BY <1>1, <1>5, <1>6 DEF Reads
  <2>4. (\A r \in list : Faithful(r)') /\ (firing # None => Faithful(firing)')
    <3>1. ASSUME NEW r \in list PROVE Faithful(r)'
      BY <1>10, <2>1
    <3>2. ASSUME firing # None PROVE Faithful(firing)'
      BY <1>1, <1>10, <2>2, <3>2
    <3>3. QED BY <3>1, <3>2
  <2>5. QED BY <1>1, <2>3, <2>4 DEF Reads
<1>12. Created'
  <2>1. firing # None => firing.edits \in Nat /\ firing.edits <= edits
    BY SchedulerConstants DEF TypeOK, ReadRow, Reads, Faithful
  <2>2. QED BY <1>1, <1>7, <2>1 DEF Created
<1>13. ASSUME NEW s \in Schedule PROVE CountsOK(s)'
  <2>1. CountsOK(s) /\ (Firing(s)' <=> Firing(s))
    BY <1>1 DEF Counts, Firing
  <2>2. CASE s # s0
    <3>1. schedules'[s] = schedules[s] /\ fires'[s] = fires[s] /\ lost'[s] = lost[s]
      BY <1>6, <1>8, <2>2
    <3>2. pollNow <= pollNow'
      BY <1>1, SchedulerConstants DEF TypeOK, Time
    <3>3. \A r \in list' : pc' = "run" /\ r.id = s => pc = "run" /\ r \in list
      BY <1>1
    <3>4. QED BY <1>9, <2>1, <3>1, <3>2, <3>3, CountsFrame
  <2>3. CASE s = s0 /\ fires' = [fires EXCEPT ![s0] = [x \in Instant |-> 0]]
    <3>1. fires'[s] = [x \in Instant |-> 0]
      BY <2>3 DEF TypeOK
    <3>2. QED BY <1>9, <3>1, CountsFresh
  <2>4. CASE s = s0 /\ cron = None /\ interval = None /\ next = None /\ fires' = fires /\ lost' = lost
    <3>1. /\ schedules'[s] # None /\ schedules[s] # None
          /\ schedules'[s].cron = schedules[s].cron
          /\ schedules'[s].interval = schedules[s].interval
          /\ schedules'[s].last = schedules[s].last
          /\ schedules'[s].next = schedules[s].next
      BY <1>1, <1>4, <1>5, <1>6, <2>4 DEF Patched
    <3>2. \A x \in Instant : Extra(s, x)' = Extra(s, x) /\ (Plain(s, x)' <=> Plain(s, x))
      BY <3>1 DEF Extra, Plain
    <3>3. QED BY <1>1, <2>1, <2>4, <3>1, <3>2 DEF CountsOK
  <2>5. QED BY <1>2, <2>2, <2>3, <2>4
<1>14. Restarted'
  <2>1. \A r \in list : r.id \in Schedule
    BY DEF TypeOK, ReadRow
  <2>2. firing # None => firing.id \in Schedule
    BY DEF TypeOK, ReadRow
  <2>3. CASE fires' = [fires EXCEPT ![s0] = [x \in Instant |-> 0]]
    <3>1. \A x \in Instant : fires'[s0][x] = 0
      BY <2>3 DEF TypeOK
    <3>2. QED BY <1>1, <1>6, <1>8, <2>1, <2>2, <3>1 DEF Restarted, Patches
  <2>4. CASE cron = None /\ interval = None /\ fires' = fires
    <3>1. \A s \in Schedule : /\ schedules'[s].interval = schedules[s].interval
                             /\ schedules'[s].cron = schedules[s].cron
      BY <1>4, <1>6, <2>4 DEF Patched
    <3>2. QED BY <1>1, <2>1, <2>2, <2>4, <3>1 DEF Restarted, Patches
  <2>5. QED BY <1>2, <2>3, <2>4
<1>15. QED BY <1>9, <1>11, <1>12, <1>13, <1>14 DEF Counts

LEMMA SchedulerInvStep == SchedulerInv /\ [Next]_vars => SchedulerInv'
<1> SUFFICES ASSUME SchedulerInv, [Next]_vars PROVE SchedulerInv'
  OBVIOUS
<1>1. CASE SchedulerStep
  <2>1. CASE \E r \in list : Handle(r)
    BY <2>1, InitScheduleKeeps, CreateDueTaskKeeps, CreateDueTaskFailsKeeps DEF Handle
  <2>2. QED BY <1>1, <2>1, StartKeeps, PollKeeps, RecordKeeps, UnrecordedKeeps DEF SchedulerStep
<1>2. CASE Crash
  BY <1>2, UnrecordedKeeps
<1>3. CASE OperatorStep
  BY <1>3, CreateScheduleKeeps, UpdateScheduleKeeps DEF OperatorStep
<1>4. CASE Tick
  BY <1>4, StartKeeps
<1>5. CASE UNCHANGED vars
  <2>1. UNCHANGED <<now, schedules, pc, list, firing, pollNow, edits, faults, fires, lost>>
    BY <1>5 DEF vars
  <2>2. TypeOK' /\ Reads'
    BY <2>1 DEF SchedulerInv, TypeOK, Reads, Faithful
  <2>3. Counts'
    BY <2>1 DEF SchedulerInv, Counts, CountsOK, Plain, Extra, Firing
  <2>4. Created' /\ Restarted'
    BY <2>1 DEF SchedulerInv, Created, Restarted, Patches
  <2>5. QED BY <2>2, <2>3, <2>4 DEF SchedulerInv
<1>6. QED BY <1>1, <1>2, <1>3, <1>4, <1>5 DEF Next

-----------------------------------------------------------------------------

\* What is known of the rows the goroutine holds, of the tasks counted and of
\* the task of the run being recorded holds in every reachable state.
THEOREM SchedulerInvariant == Spec => []SchedulerInv
BY SchedulerInvInit, SchedulerInvStep, PTL DEF Spec

\* The types: in particular computeNextRun never reads an interval that is not
\* there.
THEOREM SchedulerTypeCorrect == Spec => []TypeOK
<1>1. SchedulerInv => TypeOK
  BY DEF SchedulerInv
<1>2. QED BY <1>1, SchedulerInvariant, PTL

\* An instant gets one task, or two of an interval schedule or at the zero time,
\* and one more for each run that went unrecorded.
THEOREM RunsPerInstantHolds == Spec => []RunsPerInstant
<1>1. SchedulerInv => RunsPerInstant
  <2> SUFFICES ASSUME SchedulerInv, NEW s \in Schedule, NEW x \in Instant, schedules[s] # None
               PROVE  /\ schedules[s].interval = None /\ x # ZeroTime => fires[s][x] <= 1 + lost[s]
                      /\ schedules[s].interval = None /\ schedules[s].cron # "unmatched" =>
                           fires[s][x] <= 2 + lost[s]
                      /\ schedules[s].cron = None /\ schedules[s].interval > 0 =>
                           fires[s][x] <= 2 + lost[s]
    BY DEF RunsPerInstant
  <2>1. fires[s][x] \in Nat /\ lost[s] \in Nat
    BY SchedulerConstants DEF SchedulerInv, TypeOK
  <2>2. Plain(s, x) => fires[s][x] <= 1 + Extra(s, x) + lost[s]
    BY DEF SchedulerInv, Counts, CountsOK
  <2>3. schedules[s].interval = None /\ x # ZeroTime => fires[s][x] <= 1 + 0 + lost[s]
    BY <2>2 DEF Plain, Extra
  <2>4. \/ schedules[s].interval = None /\ schedules[s].cron # "unmatched"
        \/ schedules[s].cron = None /\ schedules[s].interval > 0
        => fires[s][x] <= 1 + Extra(s, x) + lost[s]
    BY <2>2 DEF Plain
  <2>5. Extra(s, x) = 0 \/ Extra(s, x) = 1
    BY DEF Extra
  <2>6. QED BY <2>1, <2>3, <2>4, <2>5
<1>2. QED BY <1>1, SchedulerInvariant, PTL

\* The row of a schedule nobody edits is moved on only once its task exists.
THEOREM NoRunIsSkipped == Spec => NoRunSkipped
<1>1. SchedulerInv =>
        [\A s \in Schedule :
           /\ firing # None /\ firing.id = s /\ firing.edits = edits
           /\ schedules'[s] # schedules[s]
           => fires[s][firing.row.next] >= 1]_vars
  BY DEF SchedulerInv, Created
<1>2. QED BY <1>1, SchedulerInvariant, PTL DEF NoRunSkipped

=============================================================================
