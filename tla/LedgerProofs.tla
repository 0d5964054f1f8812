---------------------------- MODULE LedgerProofs ----------------------------
(***************************************************************************)
(* The store implements the ledger of starts of TaskLedger.                *)
(*                                                                         *)
(* An attempt is entered in the ledger of its task at its number; numbers  *)
(* are 1..n by AttemptHistory, so that each belongs to one attempt only    *)
(* (Entered).  What a step does to the rows of one task is then put in the *)
(* words of the ledger: state, worth and starts left.                      *)
(***************************************************************************)
EXTENDS StoreProofs, Sequences

Entry(a) == [worker |-> attempts[a].worker, outcome |-> attempts[a].status]

\* Each attempt is in the ledger at its number, and nothing else is.
EnteredOf(t) ==
  LET n == Cardinality(AttemptsOf(t))
  IN  /\ n \in Nat
      /\ DOMAIN LedgerOf(t) = 1..n
      /\ LedgerOf(t) = [k \in 1..n |-> LedgerOf(t)[k]]
      /\ \A a \in AttemptsOf(t) :
           /\ attempts[a].attempt_num \in 1..n
           /\ LedgerOf(t)[attempts[a].attempt_num] = Entry(a)
           /\ \A b \in AttemptsOf(t) :
                attempts[b].attempt_num = attempts[a].attempt_num => b = a
      /\ \A k \in 1..n : \E a \in AttemptsOf(t) : attempts[a].attempt_num = k

Entered == \A t \in TaskID : EnteredOf(t)

\* As many numbers as attempts: none is used twice.
LEMMA NumbersDiffer ==
  ASSUME NEW S, IsFiniteSet(S), NEW num,
         {num[a] : a \in S} = 1..Cardinality(S), NEW a \in S, NEW b \in S, num[a] = num[b]
  PROVE  a = b
<1> DEFINE n == Cardinality(S)
           f == [x \in S |-> num[x]]
<1>1. n \in Nat /\ Cardinality(1..n) = n
  BY FS_CardinalityType, FS_Interval
<1>2. f \in Surjection(S, 1..n)
  BY DEF Surjection
<1>3. f \in Injection(S, 1..n)
  BY <1>1, <1>2, FS_SurjSameCardinalityImpliesInj
<1> QED
  BY <1>3 DEF Injection, IsInjective

LEMMA RowsAreEntered == RowsInv => Entered
<1> SUFFICES ASSUME RowsInv, NEW t \in TaskID PROVE EnteredOf(t)
  BY DEF Entered
<1> DEFINE S == AttemptsOf(t)
           n == Cardinality(S)
           num == [a \in S |-> attempts[a].attempt_num]
<1>1. IsFiniteSet(S) /\ n \in Nat
  BY AttemptsFinite
<1>2. {attempts[a].attempt_num : a \in S} = 1..n
  BY DEF RowsInv, AttemptHistory
<1>3. {num[a] : a \in S} = 1..n
  BY <1>2
<1>4. \A a, b \in S : attempts[b].attempt_num = attempts[a].attempt_num => b = a
  <2> HIDE DEF S
  <2> SUFFICES ASSUME NEW a \in S, NEW b \in S, num[b] = num[a] PROVE b = a
    OBVIOUS
  <2> HIDE DEF num
  <2> QED
    BY <1>1, <1>3, NumbersDiffer
<1>5. \A a \in S : /\ attempts[a].attempt_num \in 1..n
                   /\ LedgerOf(t)[attempts[a].attempt_num] = Entry(a)
  <2> SUFFICES ASSUME NEW a \in S
               PROVE  /\ attempts[a].attempt_num \in 1..n
                      /\ LedgerOf(t)[attempts[a].attempt_num] = Entry(a)
    OBVIOUS
  <2>1. attempts[a].attempt_num \in 1..n
    BY <1>2
  <2>2. (CHOOSE b \in S : attempts[b].attempt_num = attempts[a].attempt_num) = a
    BY <1>4
  <2> QED
    BY <2>1, <2>2 DEF LedgerOf, Entry
<1>6. \A k \in 1..n : \E a \in S : attempts[a].attempt_num = k
  BY <1>2
<1> QED
  BY <1>1, <1>4, <1>5, <1>6 DEF EnteredOf, LedgerOf

LEMMA RowsAreEnteredNext == RowsInv' => Entered'
BY RowsAreEntered, PTL

-----------------------------------------------------------------------------
(* What a step enters in the ledger of a task.                             *)

\* Nothing, if its attempts keep their numbers, workers and statuses.
LEMMA NothingEntered ==
  ASSUME Entered, Entered', NEW t \in TaskID, AttemptsOf(t)' = AttemptsOf(t),
         \A a \in AttemptsOf(t) :
           /\ attempts'[a].attempt_num = attempts[a].attempt_num
           /\ Entry(a)' = Entry(a)
  PROVE  LedgerOf(t)' = LedgerOf(t)
<1> DEFINE n == Cardinality(AttemptsOf(t))
<1>1. EnteredOf(t) /\ EnteredOf(t)' /\ n' = n
  BY DEF Entered
<1>2. ASSUME NEW k \in 1..n PROVE LedgerOf(t)'[k] = LedgerOf(t)[k]
  <2>1. PICK a \in AttemptsOf(t) : attempts[a].attempt_num = k
    BY <1>1 DEF EnteredOf
  <2>2. LedgerOf(t)[k] = Entry(a)
    BY <1>1, <2>1 DEF EnteredOf
  <2>3. LedgerOf(t)'[k] = Entry(a)'
    BY <1>1, <2>1 DEF EnteredOf
  <2> QED
    BY <2>2, <2>3
<1>3. /\ LedgerOf(t) = [k \in 1..n |-> LedgerOf(t)[k]]
      /\ LedgerOf(t)' = [k \in 1..n |-> LedgerOf(t)'[k]]
  BY <1>1 DEF EnteredOf
<1> HIDE DEF n
<1> QED
  BY <1>2, <1>3

LEMMA FunctionIsSeq ==
  ASSUME NEW T, NEW n \in Nat, NEW s \in [1..n -> T]
  PROVE  s \in Seq(T) /\ Len(s) = n
OBVIOUS

LEMMA AppendedTo ==
  ASSUME NEW n \in Nat, NEW s, s = [k \in 1..n |-> s[k]],
         NEW r, r = [k \in 1..(n + 1) |-> r[k]], \A k \in 1..n : r[k] = s[k]
  PROVE  r = Append(s, r[n + 1])
<1> DEFINE e == r[n + 1]
           T == {s[k] : k \in 1..n} \cup {e}
<1>1. s \in [1..n -> T] /\ e \in T
  OBVIOUS
<1> HIDE DEF T
<1>2. s \in Seq(T) /\ Len(s) = n
  BY <1>1, FunctionIsSeq
<1>3. /\ Append(s, e) \in Seq(T) /\ Len(Append(s, e)) = n + 1
      /\ \A k \in 1..n : Append(s, e)[k] = s[k]
      /\ Append(s, e)[n + 1] = e
  BY <1>1, <1>2
<1>4. Append(s, e) = [k \in 1..(n + 1) |-> Append(s, e)[k]]
  BY <1>3
<1>5. ASSUME NEW k \in 1..(n + 1) PROVE Append(s, e)[k] = r[k]
  <2>1. CASE k = n + 1
    BY <1>3, <2>1
  <2>2. CASE k # n + 1
    <3>1. k \in 1..n
      BY <2>2
    <3> QED
      BY <1>3, <3>1
  <2> QED
    BY <2>1, <2>2
<1> HIDE DEF e
<1> QED
  BY <1>4, <1>5

LEMMA ChangedAt ==
  ASSUME NEW D, NEW s, s = [i \in D |-> s[i]], NEW r, r = [i \in D |-> r[i]],
         NEW k \in D, \A i \in D : i # k => r[i] = s[i]
  PROVE  r = [s EXCEPT ![k] = r[k]]
OBVIOUS

\* A claim: its attempt, behind the others.
LEMMA ClaimEntered ==
  ASSUME RowsInv, Entered, Entered', NEW t \in TaskID, NEW a \in AttemptID,
         NEW w \in WorkerID, NEW q, NEW types, ClaimTask(t, a, w, q, types)
  PROVE  LedgerOf(t)' = Append(LedgerOf(t), [worker |-> w, outcome |-> "running"])
<1> DEFINE S == AttemptsOf(t)
           n == Cardinality(S)
           e == [worker |-> w, outcome |-> "running"]
<1>1. EnteredOf(t) /\ EnteredOf(t)'
  BY DEF Entered
<1>2. /\ attempts[a].task = None /\ attempts'[a].task = t
      /\ attempts'[a].attempt_num = PrevAttemptNum(t) + 1 /\ Entry(a)' = e
      /\ \A b \in AttemptID : b # a => attempts'[b] = attempts[b]
  BY DEF ClaimTask, FreshAttempt, AttemptRows, RowsInv, TypeOK, Entry
<1>3. a \notin S /\ S' = S \cup {a} /\ IsFiniteSet(S)
  BY <1>2, FiniteIDs, AttemptsFinite DEF AttemptsOf
<1>4. n \in Nat /\ Cardinality(S)' = n + 1
  <2>1. n \in Nat /\ Cardinality(S \cup {a}) = n + 1
    BY <1>3, AttemptsFinite, FS_AddElement
  <2> QED
    BY <1>3, <2>1
<1>5. attempts'[a].attempt_num = n + 1
  BY <1>2, PrevAttemptNumCounts DEF RowsInv
<1>6. LedgerOf(t)'[n + 1] = e
  <2>1. a \in AttemptsOf(t)'
    BY <1>3
  <2>2. LedgerOf(t)'[attempts'[a].attempt_num] = Entry(a)'
    BY <1>1, <2>1 DEF EnteredOf
  <2> QED
    BY <1>2, <1>5, <2>2
<1>7. ASSUME NEW k \in 1..n PROVE LedgerOf(t)'[k] = LedgerOf(t)[k]
  <2>1. PICK b \in S : attempts[b].attempt_num = k
    BY <1>1 DEF EnteredOf
  <2>2. attempts'[b] = attempts[b] /\ b \in S'
    BY <1>2, <1>3 DEF AttemptsOf
  <2>3. LedgerOf(t)[k] = Entry(b) /\ LedgerOf(t)'[k] = Entry(b)' /\ Entry(b)' = Entry(b)
    BY <1>1, <2>1, <2>2 DEF EnteredOf, Entry
  <2> QED
    BY <2>3
<1>8. /\ LedgerOf(t) = [k \in 1..n |-> LedgerOf(t)[k]]
      /\ LedgerOf(t)' = [k \in 1..(n + 1) |-> LedgerOf(t)'[k]]
  BY <1>1, <1>4 DEF EnteredOf
<1>9. LedgerOf(t)' = Append(LedgerOf(t), LedgerOf(t)'[n + 1])
  <2> HIDE DEF n
  <2> QED
    BY <1>4, <1>7, <1>8, AppendedTo
<1> QED
  BY <1>6, <1>9

\* An outcome: in the entry of its attempt.
LEMMA OutcomeEntered ==
  ASSUME RowsInv, Entered, Entered', NEW a \in AttemptID, NEW o, NEW row, NEW e,
         Finish(a, o, row, e), \A b \in AttemptID : SameIdentity(b),
         NEW t \in TaskID, attempts[a].task = t
  PROVE  LET k == attempts[a].attempt_num
         IN  /\ k \in DOMAIN LedgerOf(t)
             /\ LedgerOf(t)[k].outcome = "running"
             /\ LedgerOf(t)' = [LedgerOf(t) EXCEPT ![k].outcome = o]
<1> DEFINE k == attempts[a].attempt_num
           S == AttemptsOf(t)
           n == Cardinality(S)
<1>1. EnteredOf(t) /\ EnteredOf(t)'
  BY DEF Entered
<1>2. S' = S /\ a \in S /\ S \subseteq AttemptID
  BY DEF AttemptsOf, SameIdentity
<1>3. attempts[a].status = "running" /\ attempts'[a].status = o
      /\ \A b \in AttemptID \ {a} : attempts'[b] = attempts[b]
  BY OutcomeFrame DEF Finish, loadRunningAttempt
<1>4. k \in 1..n /\ LedgerOf(t)[k] = Entry(a)
  BY <1>1, <1>2 DEF EnteredOf
<1>5. LedgerOf(t)'[k] = [LedgerOf(t)[k] EXCEPT !.outcome = o]
  <2>1. attempts'[a].attempt_num = k /\ attempts'[a].worker = attempts[a].worker
    BY DEF SameIdentity
  <2>2. LedgerOf(t)'[k] = Entry(a)'
    BY <1>1, <1>2, <2>1 DEF EnteredOf
  <2> QED
    BY <1>3, <1>4, <2>1, <2>2 DEF Entry
<1>6. ASSUME NEW i \in 1..n, i # k PROVE LedgerOf(t)'[i] = LedgerOf(t)[i]
  <2>1. PICK b \in S : attempts[b].attempt_num = i
    BY <1>1 DEF EnteredOf
  <2>2. attempts'[b] = attempts[b]
    BY <1>2, <1>3, <1>6, <2>1
  <2>3. LedgerOf(t)[i] = Entry(b)
    BY <1>1, <2>1 DEF EnteredOf
  <2>4. LedgerOf(t)'[i] = Entry(b)'
    BY <1>1, <1>2, <2>1, <2>2 DEF EnteredOf
  <2> QED
    BY <2>2, <2>3, <2>4 DEF Entry
<1>7. /\ LedgerOf(t) = [i \in 1..n |-> LedgerOf(t)[i]]
      /\ LedgerOf(t)' = [i \in 1..n |-> LedgerOf(t)'[i]]
  BY <1>1, <1>2 DEF EnteredOf
<1>8. LedgerOf(t)' = [LedgerOf(t) EXCEPT ![k] = LedgerOf(t)'[k]]
  <2> DEFINE D == 1..n
             old == LedgerOf(t)
             new == LedgerOf(t)'
  <2>1. k \in D /\ \A i \in D : i # k => new[i] = old[i]
    BY <1>4, <1>6
  <2>2. old = [i \in D |-> old[i]] /\ new = [i \in D |-> new[i]]
    BY <1>7
  <2> HIDE DEF D, old, new, k
  <2>3. new = [old EXCEPT ![k] = new[k]]
    BY <2>1, <2>2, ChangedAt
  <2> QED
    BY <2>3 DEF old, new
<1>9. k \in DOMAIN LedgerOf(t) /\ LedgerOf(t)[k].outcome = "running"
  BY <1>1, <1>3, <1>4 DEF Entry, EnteredOf
<1> QED
  BY <1>5, <1>8, <1>9
-----------------------------------------------------------------------------
(* What a step makes of the row of a task, in the words of the ledger.     *)

\* A condition on two states, that before and that after the step.
StandsAs(t, to, worth, left) ==
  /\ LedgerState(tasks'[t].status) = to
  /\ WorthOf(tasks'[t]) = worth
  /\ LeftOf(tasks'[t]) = left

Keeps(t) ==
  StandsAs(t, LedgerState(tasks[t].status), WorthOf(tasks[t]), LeftOf(tasks[t]))

\* What is left of a task that will not get the start it is waiting for.
SpareOf(t) == RetriesOf(tasks[t].max_retries) - tasks[t].retry_count

LEMMA RowFacts ==
  ASSUME RowsInv, NEW t \in TaskID
  PROVE  /\ tasks[t] \in Task /\ tasks[t].retry_count \in Nat
         /\ tasks[t].max_retries \in Int /\ RetriesOf(tasks[t].max_retries) \in Nat
         /\ tasks[t].status \in TaskStatus \cup {"absent"}
         /\ SpareOf(t) \in Int
<1>1. tasks[t] \in Task
  BY DEF RowsInv, TypeOK
<1> QED
  BY <1>1 DEF Task, RetriesOf, SpareOf

\* The retries of a task are not overdrawn, so one that waits has a start left,
\* and has spent everything when it is dead.
LEMMA StartsLeft ==
  ASSUME RowsInv, RetryBudget, NEW t \in TaskID
  PROVE  /\ SpareOf(t) >= 0
         /\ IF LedgerState(tasks[t].status) = "waiting"
            THEN LeftOf(tasks[t]) = SpareOf(t) + 1
            ELSE LeftOf(tasks[t]) = SpareOf(t)
         /\ SpareOf(t) > 0 <=> tasks[t].retry_count < tasks[t].max_retries
<1>1. tasks[t].retry_count = 0 \/ tasks[t].retry_count <= tasks[t].max_retries
  BY DEF RetryBudget
<1>2. LedgerState(tasks[t].status) = "waiting" <=> tasks[t].status \in {"queued", "retrying"}
  BY RowFacts DEF LedgerState, TaskStatus
<1> QED
  BY <1>1, <1>2, RowFacts DEF SpareOf, LeftOf, RetriesOf

LEMMA RowKept ==
  ASSUME NEW t, tasks'[t] = tasks[t]
  PROVE  Keeps(t)
BY DEF Keeps, StandsAs

\* The variables of TaskLedger.
States == [u \in TaskID |-> LedgerState(tasks[u].status)]
Worths == [u \in TaskID |-> WorthOf(tasks[u])]
Lefts == [u \in TaskID |-> LeftOf(tasks[u])]
Ledgers == [u \in TaskID |-> LedgerOf(u)]

\* A step that moves one task.
LEMMA OneRow ==
  ASSUME NEW t \in TaskID, NEW to, NEW w, NEW l, StandsAs(t, to, w, l),
         \A u \in TaskID \ {t} : Keeps(u)
  PROVE  /\ States' = [States EXCEPT ![t] = to]
         /\ Worths' = [Worths EXCEPT ![t] = w]
         /\ Lefts' = [Lefts EXCEPT ![t] = l]
         /\ w = WorthOf(tasks[t]) => Worths' = Worths
         /\ l = LeftOf(tasks[t]) => Lefts' = Lefts
<1>1. \A u \in TaskID \ {t} :
        /\ LedgerState(tasks'[u].status) = LedgerState(tasks[u].status)
        /\ WorthOf(tasks'[u]) = WorthOf(tasks[u]) /\ LeftOf(tasks'[u]) = LeftOf(tasks[u])
  BY DEF StandsAs, Keeps
<1>2. /\ LedgerState(tasks'[t].status) = to
      /\ WorthOf(tasks'[t]) = w /\ LeftOf(tasks'[t]) = l
  BY DEF StandsAs
<1>3. States' = [States EXCEPT ![t] = to]
  BY <1>1, <1>2 DEF States
<1>4. /\ Worths' = [Worths EXCEPT ![t] = w]
      /\ w = WorthOf(tasks[t]) => Worths' = Worths
  BY <1>1, <1>2 DEF Worths
<1>5. /\ Lefts' = [Lefts EXCEPT ![t] = l]
      /\ l = LeftOf(tasks[t]) => Lefts' = Lefts
  BY <1>1, <1>2 DEF Lefts
<1> QED
  BY <1>3, <1>4, <1>5

\* The ledgers when no attempt is added or ends.
LEMMA LedgersKept ==
  ASSUME Entered, Entered', \A a \in AttemptID : SameIdentity(a),
         \A a \in AttemptID : attempts'[a].status = attempts[a].status
  PROVE  Ledgers' = Ledgers
<1> SUFFICES ASSUME NEW t \in TaskID PROVE LedgerOf(t)' = LedgerOf(t)
  BY DEF Ledgers
<1>1. AttemptsOf(t)' = AttemptsOf(t)
  BY DEF AttemptsOf, SameIdentity
<1>2. \A a \in AttemptsOf(t) : attempts'[a].attempt_num = attempts[a].attempt_num
                               /\ Entry(a)' = Entry(a)
  BY DEF AttemptsOf, SameIdentity, Entry
<1> QED
  BY <1>1, <1>2, NothingEntered

-----------------------------------------------------------------------------
(* The steps.                                                              *)

LEMMA ClaimStarts ==
  ASSUME RowsInv, RetryBudget, Entered, Entered',
         NEW t \in TaskID, NEW a \in AttemptID, NEW w \in WorkerID,
         NEW q \in Queue, NEW types \in SUBSET TaskType, ClaimTask(t, a, w, q, types)
  PROVE  Ledger!Start(t, w)
<1>1. /\ tasks[t].status = "queued" /\ tasks' = [tasks EXCEPT ![t].status = "running"]
      /\ attempts[a].task = None /\ attempts'[a].task = t
      /\ \A b \in AttemptID : b # a => attempts'[b] = attempts[b]
  BY DEF ClaimTask, Claimable, FreshAttempt, AttemptRows, RowsInv, TypeOK
<1>2. \A u \in TaskID \ {t} : Keeps(u)
  BY <1>1, RowKept
<1>3. StandsAs(t, "held", WorthOf(tasks[t]), LeftOf(tasks[t]) - 1)
  <2>1. /\ tasks'[t].status = "running" /\ tasks'[t].max_retries = tasks[t].max_retries
        /\ tasks'[t].retry_count = tasks[t].retry_count
    BY <1>1, RowFacts DEF Task, RowsInv, TypeOK
  <2> QED
    BY <1>1, <2>1, RowFacts DEF StandsAs, LedgerState, WorthOf, LeftOf
<1>4. LedgerState(tasks[t].status) = "waiting" /\ LeftOf(tasks[t]) > 0
  BY <1>1, RowFacts, StartsLeft DEF LedgerState
<1>5. Ledgers' = [Ledgers EXCEPT ![t] = Append(@, [worker |-> w, outcome |-> "running"])]
  <2>1. ASSUME NEW u \in TaskID \ {t} PROVE LedgerOf(u)' = LedgerOf(u)
    <3>1. AttemptsOf(u)' = AttemptsOf(u) /\ a \notin AttemptsOf(u)
      BY <1>1, FiniteIDs DEF AttemptsOf
    <3> QED
      BY <1>1, <3>1, NothingEntered DEF AttemptsOf, Entry
  <2>2. LedgerOf(t)' = Append(LedgerOf(t), [worker |-> w, outcome |-> "running"])
    BY ClaimEntered
  <2> QED
    BY <2>1, <2>2 DEF Ledgers
<1>6. /\ States' = [States EXCEPT ![t] = "held"]
      /\ Lefts' = [Lefts EXCEPT ![t] = LeftOf(tasks[t]) - 1]
      /\ Worths' = Worths
  BY <1>2, <1>3, OneRow
<1>7. Lefts[t] = LeftOf(tasks[t]) /\ States[t] = LedgerState(tasks[t].status)
  BY DEF Lefts, States
<1> QED
  BY <1>4, <1>5, <1>6, <1>7 DEF Ledger!Start, States, Lefts, Worths, Ledgers

\* Where the outcome takes the task.
EndsAs(t, o, to) ==
  \/ o = "succeeded" /\ to = "done"
  \/ o = "failed" /\ to = IF SpareOf(t) > 0 THEN "waiting" ELSE "given up"
  \/ o = "cancelled" /\ to = "given up"

LEMMA OutcomeStands ==
  ASSUME RowsInv, RetryBudget, NEW a \in AttemptID, NEW t \in TaskID, attempts[a].task = t,
         NEW o, NEW row \in Task, NEW e, OutcomeRow(a, o, row, e), tasks'[t] = row,
         tasks[t].status # "absent"
  PROVE  \E to : EndsAs(t, o, to) /\ StandsAs(t, to, WorthOf(tasks[t]), SpareOf(t))
<1>1. /\ row.max_retries = tasks[t].max_retries /\ Row(a) = tasks[t]
      /\ row.status # "absent"
  BY DEF OutcomeRow, SameConfig, Row
<1>2. WorthOf(row) = WorthOf(tasks[t])
  BY <1>1 DEF WorthOf
<1>3. SpareOf(t) > 0 <=> tasks[t].retry_count < row.max_retries
  BY <1>1, StartsLeft
<1>4. CASE o \in {"succeeded", "cancelled"}
  <2>1. row.status = o /\ row.retry_count = tasks[t].retry_count
    BY <1>1, <1>4 DEF OutcomeRow
  <2>2. LeftOf(row) = SpareOf(t)
    BY <1>1, <1>4, <2>1, RowFacts DEF LeftOf, SpareOf
  <2>3. LedgerState(row.status) = IF o = "succeeded" THEN "done" ELSE "given up"
    BY <1>4, <2>1 DEF LedgerState
  <2> QED
    BY <1>2, <1>4, <2>2, <2>3 DEF StandsAs, EndsAs
<1>5. CASE o = "failed" /\ SpareOf(t) > 0
  <2>1. row.status = "retrying" /\ row.retry_count = tasks[t].retry_count + 1
    BY <1>1, <1>3, <1>5 DEF OutcomeRow
  <2>2. LeftOf(row) = SpareOf(t)
    BY <1>1, <2>1, RowFacts DEF LeftOf, SpareOf
  <2>3. LedgerState(row.status) = "waiting"
    BY <2>1 DEF LedgerState
  <2> QED
    BY <1>2, <1>5, <2>2, <2>3 DEF StandsAs, EndsAs
<1>6. CASE o = "failed" /\ ~(SpareOf(t) > 0)
  <2>1. row.status = "dead" /\ row.retry_count = tasks[t].retry_count
    BY <1>1, <1>3, <1>6 DEF OutcomeRow
  <2>2. LeftOf(row) = SpareOf(t)
    BY <1>1, <2>1, RowFacts DEF LeftOf, SpareOf
  <2>3. LedgerState(row.status) = "given up"
    BY <2>1 DEF LedgerState
  <2> QED
    BY <1>2, <1>6, <2>2, <2>3 DEF StandsAs, EndsAs
<1> QED
  BY <1>4, <1>5, <1>6 DEF OutcomeRow

LEMMA OutcomeEnds ==
  ASSUME RowsInv, RetryBudget, Entered, Entered', Next, ~ClaimAnyTask,
         NEW a \in AttemptID, Outcome(a), NEW t, t = attempts[a].task,
         NEW k, k = attempts[a].attempt_num
  PROVE  /\ t \in TaskID /\ k \in DOMAIN Ledgers[t]
         /\ Ledger!Succeed(t, k) \/ Ledger!Fail(t, k) \/ Ledger!Abort(t, k)
<1> PICK o \in AttemptStatus \ {"running"}, row \in Task, e \in TaskEventType :
           Finish(a, o, row, e) /\ OutcomeRow(a, o, row, e)
  BY OutcomeShape
<1>1. /\ t \in TaskID /\ tasks'[t] = row
      /\ \A u \in TaskID \ {t} : tasks'[u] = tasks[u]
      /\ \A b \in AttemptID \ {a} : attempts'[b] = attempts[b]
  BY OutcomeShape, OutcomeFrame
<1>2. \A b \in AttemptID : SameIdentity(b)
  BY OnlyClaimsAddAttempts
<1>3. \A u \in TaskID \ {t} : Keeps(u)
  BY <1>1, RowKept
<1>4. PICK to : EndsAs(t, o, to) /\ StandsAs(t, to, WorthOf(tasks[t]), SpareOf(t))
  <2>1. tasks[t].status # "absent"
    BY <1>1 DEF RowsInv, AttemptRows, FreshTask, Finish, loadRunningAttempt
  <2> QED
    BY <1>1, <2>1, OutcomeStands
<1>5. /\ k \in DOMAIN LedgerOf(t) /\ LedgerOf(t)[k].outcome = "running"
      /\ LedgerOf(t)' = [LedgerOf(t) EXCEPT ![k].outcome = o]
  <2>1. t \in TaskID
    BY <1>1
  <2>2. /\ attempts[a].attempt_num \in DOMAIN LedgerOf(t)
        /\ LedgerOf(t)[attempts[a].attempt_num].outcome = "running"
        /\ LedgerOf(t)' = [LedgerOf(t) EXCEPT ![attempts[a].attempt_num].outcome = o]
    BY <1>2, <2>1, OutcomeEntered
  <2> QED
    BY <2>2
<1>6. Ledgers' = [Ledgers EXCEPT ![t][k].outcome = o]
  <2>1. ASSUME NEW u \in TaskID \ {t} PROVE LedgerOf(u)' = LedgerOf(u)
    <3>1. AttemptsOf(u)' = AttemptsOf(u) /\ a \notin AttemptsOf(u)
      BY <1>2 DEF AttemptsOf, SameIdentity
    <3> QED
      BY <1>1, <3>1, NothingEntered DEF AttemptsOf, Entry
  <2>2. Ledgers' = [Ledgers EXCEPT ![t] = LedgerOf(t)'] /\ Ledgers[t] = LedgerOf(t)
    BY <1>1, <2>1 DEF Ledgers
  <2>3. LedgerOf(t)' = [Ledgers[t] EXCEPT ![k].outcome = o]
    BY <1>5, <2>2
  <2> QED
    BY <2>2, <2>3
<1>7. Ledger!Unstarted(t) = SpareOf(t)
  BY <1>1, StartsLeft, RowFacts DEF Ledger!Unstarted
<1>8. /\ States' = [States EXCEPT ![t] = to]
      /\ Lefts' = [Lefts EXCEPT ![t] = SpareOf(t)]
      /\ Worths' = Worths
  BY <1>1, <1>3, <1>4, OneRow
<1>9. Ledgers[t] = LedgerOf(t)
  BY <1>1 DEF Ledgers
<1>10. Ledger!End(t, k, o, to)
  BY <1>5, <1>6, <1>7, <1>8, <1>9 DEF Ledger!End, States, Lefts, Worths, Ledgers
<1> QED
  BY <1>1, <1>4, <1>5, <1>7, <1>9, <1>10
     DEF EndsAs, Ledger!Succeed, Ledger!Fail, Ledger!Abort
\* Steps that neither claim nor end an attempt enter nothing.
LEMMA QuietLedgers ==
  ASSUME Entered, Entered', attempts' = attempts
  PROVE  Ledgers' = Ledgers
BY LedgersKept DEF SameIdentity

LEMMA CreateSubmits ==
  ASSUME RowsInv, Entered, Entered', NEW t \in TaskID, NEW y, NEW q, NEW p,
         NEW m \in MaxRetries, NEW d, NEW c, CreateTask(t, y, q, p, m, d, c)
  PROVE  Ledger!Submit(t, 1 + RetriesOf(IF m = 0 THEN DefaultMaxRetries ELSE m))
<1> DEFINE r == IF m = 0 THEN DefaultMaxRetries ELSE m
           n == 1 + RetriesOf(r)
<1>1. /\ tasks[t].status = "absent" /\ attempts' = attempts
      /\ tasks'[t].status = "queued" /\ tasks'[t].max_retries = r
      /\ tasks'[t].retry_count = 0
      /\ \A u \in TaskID \ {t} : tasks'[u] = tasks[u]
  BY DEF CreateTask, FreshTask, RowsInv, TypeOK
<1>2. n \in Int
  BY Inputs DEF RetriesOf
<1>3. StandsAs(t, "waiting", n, n)
  BY <1>1, <1>2, Inputs DEF StandsAs, LedgerState, WorthOf, LeftOf, RetriesOf
<1>4. \A u \in TaskID \ {t} : Keeps(u)
  BY <1>1, RowKept
<1> HIDE DEF n, r
<1>5. /\ States' = [States EXCEPT ![t] = "waiting"]
      /\ Worths' = [Worths EXCEPT ![t] = n] /\ Lefts' = [Lefts EXCEPT ![t] = n]
  BY <1>3, <1>4, OneRow
<1>6. States[t] = "absent"
  BY <1>1 DEF States, LedgerState
<1>7. Ledgers' = Ledgers
  BY <1>1, QuietLedgers
<1>8. Ledger!Submit(t, n)
  BY <1>5, <1>6, <1>7 DEF Ledger!Submit, States, Worths, Lefts, Ledgers
<1> QED
  BY <1>8 DEF n, r

\* A control that changes the status of a task, and perhaps its retries.
LEMMA ControlMoves ==
  ASSUME RowsInv, Entered, Entered', NEW t \in TaskID, NEW from, NEW row, NEW e,
         Control(t, from, row, e), row.status # "absent", tasks[t].status # "absent",
         row.max_retries = tasks[t].max_retries
  PROVE  /\ States' = [States EXCEPT ![t] = LedgerState(row.status)]
         /\ Worths' = Worths
         /\ Lefts' = [Lefts EXCEPT ![t] = LeftOf(row)]
         /\ LeftOf(row) = LeftOf(tasks[t]) => Lefts' = Lefts
         /\ Ledgers' = Ledgers
         /\ States[t] = LedgerState(tasks[t].status)
         /\ Lefts[t] = LeftOf(tasks[t]) /\ Worths[t] = WorthOf(tasks[t])
<1>1. /\ tasks'[t] = row /\ attempts' = attempts
      /\ \A u \in TaskID \ {t} : tasks'[u] = tasks[u]
  BY DEF Control, RowsInv, TypeOK
<1>2. \A u \in TaskID \ {t} : Keeps(u)
  BY <1>1, RowKept
<1>3. StandsAs(t, LedgerState(row.status), WorthOf(tasks[t]), LeftOf(row))
  BY <1>1 DEF StandsAs, WorthOf
<1>4. Ledgers' = Ledgers
  BY <1>1, QuietLedgers
<1>5. /\ States' = [States EXCEPT ![t] = LedgerState(row.status)]
      /\ Worths' = Worths
      /\ Lefts' = [Lefts EXCEPT ![t] = LeftOf(row)]
      /\ LeftOf(row) = LeftOf(tasks[t]) => Lefts' = Lefts
  BY <1>2, <1>3, OneRow
<1>6. /\ States[t] = LedgerState(tasks[t].status)
      /\ Lefts[t] = LeftOf(tasks[t]) /\ Worths[t] = WorthOf(tasks[t])
  BY DEF States, Lefts, Worths
<1> QED
  BY <1>4, <1>5, <1>6

LEMMA ControlsMove ==
  ASSUME RowsInv, RetryBudget, Entered, Entered', NEW t \in TaskID
  PROVE  /\ HaltTask(t) => Ledger!Suspend(t)
         /\ ResumeTask(t) => Ledger!Resume(t)
         /\ CancelTask(t) => Ledger!Withdraw(t)
         /\ RetryTask(t) => Ledger!Reopen(t)
<1>0. tasks[t] \in Task
  BY RowFacts
<1>1. ASSUME HaltTask(t) PROVE Ledger!Suspend(t)
  <2> DEFINE row == [tasks[t] EXCEPT !.status = "halted"]
  <2>1. tasks[t].status = "running" /\ Control(t, {"running"}, row, "halted")
    BY <1>1 DEF HaltTask, Control
  <2>2. /\ row.status = "halted" /\ row.max_retries = tasks[t].max_retries
        /\ row.retry_count = tasks[t].retry_count
    BY <1>0 DEF Task
  <2> HIDE DEF row
  <2>3. LeftOf(row) = LeftOf(tasks[t])
    BY <2>1, <2>2 DEF LeftOf
  <2>4. LedgerState(tasks[t].status) = "held" /\ LedgerState(row.status) = "suspended"
    BY <2>1, <2>2 DEF LedgerState
  <2>5. /\ States[t] = "held" /\ States' = [States EXCEPT ![t] = "suspended"]
        /\ Worths' = Worths /\ Lefts' = Lefts /\ Ledgers' = Ledgers
    BY <2>1, <2>2, <2>3, <2>4, ControlMoves
  <2> QED
    BY <2>5 DEF Ledger!Suspend, States, Worths, Lefts, Ledgers
<1>2. ASSUME ResumeTask(t) PROVE Ledger!Resume(t)
  <2> DEFINE row == [tasks[t] EXCEPT !.status = "queued", !.delay = 0]
  <2>1. tasks[t].status = "halted" /\ Control(t, {"halted"}, row, "queued")
    BY <1>2 DEF ResumeTask, Control
  <2>2. /\ row.status = "queued" /\ row.max_retries = tasks[t].max_retries
        /\ row.retry_count = tasks[t].retry_count
    BY <1>0 DEF Task
  <2> HIDE DEF row
  <2>3. LeftOf(row) = LeftOf(tasks[t]) + 1
    BY <2>1, <2>2, RowFacts DEF LeftOf
  <2>4. LedgerState(tasks[t].status) = "suspended" /\ LedgerState(row.status) = "waiting"
    BY <2>1, <2>2 DEF LedgerState
  <2>5. /\ States[t] = "suspended" /\ States' = [States EXCEPT ![t] = "waiting"]
        /\ Worths' = Worths /\ Lefts' = [Lefts EXCEPT ![t] = Lefts[t] + 1]
        /\ Ledgers' = Ledgers
    BY <2>1, <2>2, <2>3, <2>4, ControlMoves
  <2> QED
    BY <2>5 DEF Ledger!Resume, States, Worths, Lefts, Ledgers
<1>3. ASSUME CancelTask(t) PROVE Ledger!Withdraw(t)
  <2> DEFINE row == [tasks[t] EXCEPT !.status = "cancelled"]
             from == {"queued", "halted"}
  <2>1. tasks[t].status \in {"queued", "halted"} /\ Control(t, from, row, "cancelled")
    BY <1>3 DEF CancelTask, Control
  <2>2. /\ row.status = "cancelled" /\ row.max_retries = tasks[t].max_retries
        /\ row.retry_count = tasks[t].retry_count
    BY <1>0 DEF Task
  <2> HIDE DEF row, from
  <2>3. LeftOf(row) = SpareOf(t)
    BY <2>2, RowFacts DEF LeftOf, SpareOf
  <2>4. Ledger!Unstarted(t) = SpareOf(t)
    BY StartsLeft, RowFacts DEF Ledger!Unstarted
  <2>5. LedgerState(tasks[t].status) \in {"waiting", "suspended"}
        /\ LedgerState(row.status) = "given up"
    BY <2>1, <2>2 DEF LedgerState
  <2>6. /\ States[t] \in {"waiting", "suspended"}
        /\ States' = [States EXCEPT ![t] = "given up"]
        /\ Worths' = Worths /\ Lefts' = [Lefts EXCEPT ![t] = SpareOf(t)]
        /\ Ledgers' = Ledgers
    <3>1. tasks[t].status # "absent" /\ row.status # "absent"
      BY <2>1, <2>2
    <3>2. /\ States' = [States EXCEPT ![t] = LedgerState(row.status)]
          /\ Worths' = Worths /\ Lefts' = [Lefts EXCEPT ![t] = LeftOf(row)]
          /\ Ledgers' = Ledgers /\ States[t] = LedgerState(tasks[t].status)
      BY <2>1, <2>2, <3>1, ControlMoves
    <3> QED
      BY <2>3, <2>5, <3>2
  <2> QED
    BY <2>4, <2>6 DEF Ledger!Withdraw, States, Worths, Lefts, Ledgers
<1>4. ASSUME RetryTask(t) PROVE Ledger!Reopen(t)
  <2> DEFINE row == [tasks[t] EXCEPT !.status = "queued", !.retry_count = 0, !.delay = 0]
             from == {"dead", "cancelled"}
  <2>1. tasks[t].status \in {"dead", "cancelled"} /\ Control(t, from, row, "queued")
    BY <1>4 DEF RetryTask, Control
  <2>2. /\ row.status = "queued" /\ row.max_retries = tasks[t].max_retries
        /\ row.retry_count = 0
    BY <1>0 DEF Task
  <2> HIDE DEF row, from
  <2>3. LeftOf(row) = WorthOf(tasks[t])
    BY <2>1, <2>2, RowFacts DEF LeftOf, WorthOf
  <2>4. LedgerState(tasks[t].status) = "given up" /\ LedgerState(row.status) = "waiting"
    BY <2>1, <2>2 DEF LedgerState
  <2>5. /\ States[t] = "given up" /\ States' = [States EXCEPT ![t] = "waiting"]
        /\ Worths' = Worths /\ Lefts' = [Lefts EXCEPT ![t] = Worths[t]]
        /\ Ledgers' = Ledgers
    <3>1. tasks[t].status # "absent" /\ row.status # "absent"
      BY <2>1, <2>2
    <3>2. /\ States' = [States EXCEPT ![t] = LedgerState(row.status)]
          /\ Worths' = Worths /\ Lefts' = [Lefts EXCEPT ![t] = LeftOf(row)]
          /\ Ledgers' = Ledgers /\ States[t] = LedgerState(tasks[t].status)
          /\ Worths[t] = WorthOf(tasks[t])
      BY <2>1, <2>2, <3>1, ControlMoves
    <3> QED
      BY <2>3, <2>4, <3>2
  <2> QED
    BY <2>5 DEF Ledger!Reopen, States, Worths, Lefts, Ledgers
<1> QED
  BY <1>1, <1>2, <1>3, <1>4
LEMMA RestartReplaces ==
  ASSUME RowsInv, RetryBudget, Entered, Entered', NEW t \in TaskID, NEW n \in TaskID,
         NEW c \in Stamp, RestartTask(t, n, c)
  PROVE  Ledger!Replace(t, n)
<1> DEFINE new == [tasks[t] EXCEPT !.status = "queued", !.retry_count = 0,
                                   !.delay = 0, !.created = c, !.parent = t]
           old == [tasks[t] EXCEPT !.status = "superseded"]
<1>1. /\ tasks[n].status = "absent" /\ n # t /\ attempts' = attempts
      /\ tasks[t].status \in {"queued", "succeeded", "dead", "cancelled", "halted"}
      /\ tasks'[t] = old /\ tasks'[n] = new
      /\ \A u \in TaskID \ {t, n} : tasks'[u] = tasks[u]
  BY DEF RestartTask, FreshTask, RowsInv, TypeOK
<1>2. /\ old.status = "superseded" /\ old.max_retries = tasks[t].max_retries
      /\ old.retry_count = tasks[t].retry_count
      /\ new.status = "queued" /\ new.max_retries = tasks[t].max_retries
      /\ new.retry_count = 0
  BY RowFacts DEF Task
<1> HIDE DEF new, old
<1>3. /\ LedgerState(old.status) = "replaced" /\ LedgerState(new.status) = "waiting"
      /\ LedgerState(tasks[t].status) \in {"waiting", "suspended", "done", "given up"}
      /\ LedgerState(tasks[n].status) = "absent"
  BY <1>1, <1>2 DEF LedgerState
<1>4. WorthOf(old) = WorthOf(tasks[t]) /\ WorthOf(new) = WorthOf(tasks[t])
  BY <1>1, <1>2 DEF WorthOf
<1>5. LeftOf(old) = SpareOf(t) /\ LeftOf(new) = WorthOf(tasks[t])
  BY <1>1, <1>2, RowFacts DEF LeftOf, SpareOf, WorthOf
<1>6. Ledger!Unstarted(t) = SpareOf(t)
  BY StartsLeft, RowFacts DEF Ledger!Unstarted
<1>7. States' = [States EXCEPT ![t] = "replaced", ![n] = "waiting"]
  BY <1>1, <1>3 DEF States
<1>8. Worths' = [Worths EXCEPT ![n] = WorthOf(tasks[t])]
  BY <1>1, <1>4 DEF Worths
<1>9. Lefts' = [Lefts EXCEPT ![t] = SpareOf(t), ![n] = WorthOf(tasks[t])]
  BY <1>1, <1>5 DEF Lefts
<1>10. Ledgers' = Ledgers
  BY <1>1, QuietLedgers
<1>11. /\ States[t] = LedgerState(tasks[t].status) /\ States[n] = LedgerState(tasks[n].status)
       /\ Worths[t] = WorthOf(tasks[t])
  BY DEF States, Worths
<1>12. States[t] \in {"waiting", "suspended", "done", "given up"} /\ States[n] = "absent"
  BY <1>3, <1>11
<1> QED
  BY <1>6, <1>7, <1>8, <1>9, <1>10, <1>11, <1>12
     DEF Ledger!Replace, States, Worths, Lefts, Ledgers

\* What touches no row, or delays, heartbeats and due retries only.
LEMMA UnseenSteps ==
  ASSUME RowsInv, Entered, Entered',
         \/ tasks' = tasks /\ attempts' = attempts
         \/ \E a \in AttemptID : UpdateHeartbeat(a)
         \/ RequeueRetrying \/ Tick
  PROVE  UNCHANGED Ledger!vars
<1> USE DEF RowsInv, TypeOK
<1>1. \A u \in TaskID : Keeps(u)
  <2> SUFFICES ASSUME NEW u \in TaskID PROVE Keeps(u)
    OBVIOUS
  <2>1. CASE tasks' = tasks
    BY <2>1, RowKept
  <2>2. CASE RequeueRetrying \/ Tick
    <3>1. /\ tasks'[u].max_retries = tasks[u].max_retries
          /\ tasks'[u].retry_count = tasks[u].retry_count
          /\ \/ tasks'[u].status = tasks[u].status
             \/ tasks[u].status = "retrying" /\ tasks'[u].status = "queued"
      BY <2>2, RowFacts DEF RequeueRetrying, Tick, Task
    <3> QED
      BY <3>1 DEF Keeps, StandsAs, LedgerState, WorthOf, LeftOf
  <2> QED
    BY <2>1, <2>2 DEF UpdateHeartbeat
<1>2. \A a \in AttemptID : SameIdentity(a) /\ attempts'[a].status = attempts[a].status
  BY DEF SameIdentity, UpdateHeartbeat, RequeueRetrying, Tick, Attempt
<1>3. States' = States /\ Worths' = Worths /\ Lefts' = Lefts
  BY <1>1 DEF Keeps, StandsAs, States, Worths, Lefts
<1>4. Ledgers' = Ledgers
  BY <1>2, LedgersKept
<1> QED
  BY <1>3, <1>4 DEF Ledger!vars, States, Worths, Lefts, Ledgers

-----------------------------------------------------------------------------

LEMMA StepInLedger ==
  ASSUME RowsInv, RetryBudget, Entered, Entered', [Next]_vars
  PROVE  [Ledger!Next]_(Ledger!vars)
<1>1. CASE ClaimAnyTask
  <2>1. \E t \in TaskID, w \in WorkerID : Ledger!Start(t, w)
    BY <1>1, ClaimStarts DEF ClaimAnyTask
  <2> QED
    BY <2>1 DEF Ledger!Next
<1>2. CASE Next /\ ~ClaimAnyTask /\ \E a \in AttemptID : Outcome(a)
  <2>1. \E t \in TaskID : \E k \in DOMAIN Ledgers[t] :
          Ledger!Succeed(t, k) \/ Ledger!Fail(t, k) \/ Ledger!Abort(t, k)
    BY <1>2, OutcomeEnds
  <2> QED
    BY <2>1 DEF Ledger!Next, Ledgers
<1>3. CASE CreateAnyTask
  <2>1. PICK t \in TaskID, y \in TaskType, q \in Queue, p \in Priority,
             m \in MaxRetries, d \in Delay, c \in Stamp : CreateTask(t, y, q, p, m, d, c)
    BY <1>3 DEF CreateAnyTask
  <2>2. Ledger!Submit(t, 1 + RetriesOf(IF m = 0 THEN DefaultMaxRetries ELSE m))
    BY <2>1, CreateSubmits
  <2> QED
    BY <2>2 DEF Ledger!Next
<1>4. CASE \E t \in TaskID : HaltTask(t) \/ ResumeTask(t) \/ CancelTask(t) \/ RetryTask(t)
  <2>1. \E t \in TaskID :
          Ledger!Suspend(t) \/ Ledger!Resume(t) \/ Ledger!Withdraw(t) \/ Ledger!Reopen(t)
    BY <1>4, ControlsMove
  <2> QED
    BY <2>1 DEF Ledger!Next
<1>5. CASE RestartAnyTask
  <2>1. \E t \in TaskID, n \in TaskID : Ledger!Replace(t, n)
    BY <1>5, RestartReplaces DEF RestartAnyTask
  <2> QED
    BY <2>1 DEF Ledger!Next
<1>6. CASE \/ UNCHANGED vars \/ RequeueRetrying \/ Tick
           \/ \E w \in WorkerID, c \in Concurrency : CreateWorker(w, c)
           \/ \E a \in AttemptID : UpdateHeartbeat(a)
  BY <1>6, UnseenSteps DEF vars, CreateWorker
<1> QED
  BY <1>1, <1>2, <1>3, <1>4, <1>5, <1>6 DEF Next, Outcome

LEMMA InitInLedger == Init => Ledger!Init
<1> SUFFICES ASSUME Init PROVE Ledger!Init
  OBVIOUS
<1>1. \A t \in TaskID : tasks[t] = AbsentTask /\ AttemptsOf(t) = {}
  BY FiniteIDs DEF Init, AbsentAttempt, AttemptsOf
<1>2. \A t \in TaskID : /\ tasks[t].status = "absent"
                        /\ tasks[t].max_retries = 0
                        /\ tasks[t].retry_count = 0
  <2>1. /\ AbsentTask.status = "absent"
        /\ AbsentTask.max_retries = 0
        /\ AbsentTask.retry_count = 0
    BY DEF AbsentTask
  <2> QED
    BY <1>1, <2>1
<1>3. \A t \in TaskID : LedgerState(tasks[t].status) = "absent"
  BY <1>2 DEF LedgerState
<1>4. \A t \in TaskID : WorthOf(tasks[t]) = 0 /\ LeftOf(tasks[t]) = 0
  BY <1>2 DEF WorthOf, LeftOf, RetriesOf
<1>5. /\ States = [t \in TaskID |-> "absent"]
      /\ Worths = [t \in TaskID |-> 0]
      /\ Lefts = [t \in TaskID |-> 0]
  BY <1>3, <1>4 DEF States, Worths, Lefts
<1>6. ASSUME NEW t \in TaskID PROVE LedgerOf(t) = <<>>
  <2>1. Cardinality(AttemptsOf(t)) = 0
    BY <1>1, FS_EmptySet
  <2>2. 1..Cardinality(AttemptsOf(t)) = 1..0
    BY <2>1
  <2>3. LedgerOf(t) \in [1..0 -> {}]
    BY <2>2 DEF LedgerOf
  <2> HIDE DEF LedgerOf
  <2>4. LedgerOf(t) \in Seq({}) /\ Len(LedgerOf(t)) = 0
    BY <2>3, FunctionIsSeq
  <2> QED
    BY <2>4
<1>7. Ledgers = [t \in TaskID |-> <<>>]
  BY <1>6 DEF Ledgers
<1> QED
  BY <1>5, <1>7 DEF Ledger!Init, States, Worths, Lefts, Ledgers

\* Whatever order claims, reports, timeouts, requeues and controls come in, the
\* rows are a ledger of starts: nothing is started without being entered, no
\* entry is changed but by its one outcome, and a task gets the starts it is
\* worth and those an operator grants, no more and no fewer.
THEOREM StoreImplementsLedger == Spec => ImplementsTaskLedger
<1>1. RowsInv /\ RowsInv' /\ RetryBudget /\ [Next]_vars => [Ledger!Next]_(Ledger!vars)
  BY RowsAreEntered, RowsAreEnteredNext, StepInLedger
<1> QED
  BY <1>1, InitInLedger, RowsInvariant, RetryBudgetInvariant, PTL
     DEF Spec, ImplementsTaskLedger, Ledger!Spec

-----------------------------------------------------------------------------
(* What operators grant, and what a task that none of them touches gets.   *)

\* Only operators take a task out of halted, dead or cancelled to queued, or
\* into halted.
LEMMA OperatorMoves ==
  ASSUME RowsInv, Next, NEW t \in TaskID
  PROVE  /\ tasks[t].status = "halted" /\ tasks'[t].status = "queued" => ResumeTask(t)
         /\ tasks[t].status \in {"dead", "cancelled"} /\ tasks'[t].status = "queued" => RetryTask(t)
         /\ tasks[t].status # "halted" /\ tasks'[t].status = "halted" => HaltTask(t)
<1> DEFINE Explained ==
      \/ tasks'[t].status = tasks[t].status
      \/ tasks[t].status \notin {"halted", "dead", "cancelled"} /\ tasks'[t].status # "halted"
      \/ tasks'[t].status \notin {"queued", "halted"}
<1>0. tasks \in [TaskID -> Task] /\ tasks[t] \in Task
  BY DEF RowsInv, TypeOK
<1>1. SUFFICES ASSUME ~ResumeTask(t), ~RetryTask(t), ~HaltTask(t) PROVE Explained
  <2>1. CASE Explained
    BY <2>1
  <2>2. CASE ResumeTask(t)
    BY <1>0, <2>2 DEF ResumeTask, Control, Task
  <2>3. CASE RetryTask(t)
    BY <1>0, <2>3 DEF RetryTask, Control, Task
  <2>4. CASE HaltTask(t)
    BY <1>0, <2>4 DEF HaltTask, Control, Task
  <2> QED
    BY <1>1, <2>1, <2>2, <2>3, <2>4
<1>2. CASE tasks'[t] = tasks[t]
  BY <1>2
<1>3. CASE ClaimAnyTask
  <2>1. PICK u \in TaskID : tasks' = [tasks EXCEPT ![u].status = "running"]
    BY <1>3 DEF ClaimAnyTask, ClaimTask
  <2>2. CASE u = t
    BY <1>0, <2>1, <2>2 DEF Task
  <2> QED
    BY <1>0, <1>2, <2>1, <2>2
<1>4. ASSUME NEW a \in AttemptID, Outcome(a) PROVE Explained
  <2>1. PICK o, row, e : Finish(a, o, row, e) /\ OutcomeRow(a, o, row, e)
    BY <1>4, OutcomeShape
  <2>2. tasks'[t] = tasks[t] \/ tasks'[t] = row
    BY <1>4, <2>1, OutcomeShape, OutcomeFrame
  <2>3. row.status \notin {"queued", "halted"}
    BY <2>1 DEF OutcomeRow
  <2> QED
    BY <1>2, <2>2, <2>3
<1>5. ASSUME NEW u \in TaskID, HaltTask(u) \/ ResumeTask(u) \/ CancelTask(u) \/ RetryTask(u)
      PROVE  Explained
  <2>1. CASE u = t
    <3>1. tasks'[t].status = "cancelled"
      BY <1>0, <1>1, <1>5, <2>1 DEF CancelTask, Control, Task
    <3> QED
      BY <3>1
  <2>2. CASE u # t
    BY <1>0, <1>2, <1>5, <2>2 DEF HaltTask, ResumeTask, CancelTask, RetryTask, Control
  <2> QED
    BY <2>1, <2>2
<1>6. CASE CreateAnyTask
  <2>1. PICK u \in TaskID, y \in TaskType, q \in Queue, p \in Priority,
             m \in MaxRetries, d \in Delay, c \in Stamp : CreateTask(u, y, q, p, m, d, c)
    BY <1>6 DEF CreateAnyTask
  <2>2. CASE u = t
    BY <1>0, <2>1, <2>2 DEF CreateTask, FreshTask
  <2>3. CASE u # t
    BY <1>0, <1>2, <2>1, <2>3 DEF CreateTask
  <2> QED
    BY <2>2, <2>3
<1>7. CASE RestartAnyTask
  <2>1. PICK u \in TaskID, n \in TaskID, c \in Stamp : RestartTask(u, n, c)
    BY <1>7 DEF RestartAnyTask
  <2>2. FreshTask(n) /\ u # n
    BY <2>1 DEF RestartTask, FreshTask
  <2>3. CASE t = n
    <3>1. tasks'[n] = [tasks[u] EXCEPT !.status = "queued", !.retry_count = 0,
                                       !.delay = 0, !.created = c, !.parent = u]
      BY <1>0, <2>1 DEF RestartTask
    <3>2. tasks[u] \in Task
      BY <1>0
    <3>3. tasks'[n].status = "queued"
      BY <3>1, <3>2 DEF Task
    <3> QED
      BY <2>2, <2>3, <3>3 DEF FreshTask
  <2>4. CASE t = u
    <3>1. tasks'[u] = [tasks[u] EXCEPT !.status = "superseded"]
      BY <1>0, <2>1, <2>2 DEF RestartTask
    <3>2. tasks'[t].status = "superseded"
      BY <1>0, <2>4, <3>1 DEF Task
    <3> QED
      BY <3>2
  <2>5. CASE t # u /\ t # n
    BY <1>0, <1>2, <2>1, <2>5 DEF RestartTask
  <2> QED
    BY <2>3, <2>4, <2>5
<1>8. CASE RequeueRetrying \/ Tick
  BY <1>0, <1>8 DEF RequeueRetrying, Tick, Task
<1>9. CASE \/ \E w \in WorkerID, c \in Concurrency : CreateWorker(w, c)
           \/ \E a \in AttemptID : UpdateHeartbeat(a)
  BY <1>2, <1>9 DEF CreateWorker, UpdateHeartbeat
<1> QED
  BY <1>3, <1>4, <1>5, <1>6, <1>7, <1>8, <1>9 DEF Next, Outcome

\* The starts a task has had and those it still has.
StartsDue(t) == Cardinality(AttemptsOf(t)) + LeftOf(tasks[t])

\* What a step may do to them: all but an operator's leave them or take away.
Granted(t) ==
  \/ StartsDue(t)' <= StartsDue(t) /\ WorthOf(tasks'[t]) = WorthOf(tasks[t])
  \/ FreshTask(t) /\ StartsDue(t)' = WorthOf(tasks'[t])
  \/ ResumeTask(t) /\ StartsDue(t)' = StartsDue(t) + 1
  \/ RetryTask(t) /\ StartsDue(t)' = Cardinality(AttemptsOf(t)) + WorthOf(tasks[t])

\* The cardinalities and the columns StartsDue is computed from.
LEMMA DueFacts ==
  ASSUME RowsInv, RowsInv', NEW t \in TaskID
  PROVE  /\ Cardinality(AttemptsOf(t)) \in Nat /\ Cardinality(AttemptsOf(t)') \in Nat
         /\ LeftOf(tasks[t]) \in Int /\ LeftOf(tasks'[t]) \in Int
         /\ tasks[t].retry_count \in Nat /\ tasks[t].max_retries \in Int
         /\ tasks'[t].max_retries \in Int
<1>1. Cardinality(AttemptsOf(t)) \in Nat
  BY AttemptsFinite
<1>2. Cardinality(AttemptsOf(t)') \in Nat
  <2>1. AttemptsOf(t)' \subseteq AttemptID
    BY DEF AttemptsOf
  <2> QED
    BY <2>1, FiniteIDs, FS_Subset, FS_CardinalityType
<1>3. tasks[t] \in Task /\ tasks'[t] \in Task
  BY DEF RowsInv, TypeOK
<1> QED
  BY <1>1, <1>2, <1>3 DEF LeftOf, RetriesOf, Task

\* The attempts of a task are those it had, unless it is claimed.
LEMMA SameAttempts ==
  ASSUME \A a \in AttemptID : SameIdentity(a), NEW t
  PROVE  AttemptsOf(t)' = AttemptsOf(t)
BY DEF AttemptsOf, SameIdentity

\* A claim takes one of the starts left and enters it.
LEMMA ClaimSpends ==
  ASSUME RowsInv, RowsInv', ClaimAnyTask, NEW t \in TaskID
  PROVE  /\ StartsDue(t)' = StartsDue(t)
         /\ WorthOf(tasks'[t]) = WorthOf(tasks[t])
         /\ \/ tasks'[t].status = tasks[t].status
            \/ tasks[t].status = "queued" /\ tasks'[t].status = "running"
<1> DEFINE had == Cardinality(AttemptsOf(t))
<1>0. had \in Nat /\ LeftOf(tasks[t]) \in Int
      /\ tasks[t].retry_count \in Nat /\ tasks[t].max_retries \in Int
  BY DueFacts
<1> PICK u \in TaskID, a \in AttemptID, w \in WorkerID, q \in Queue,
         types \in SUBSET TaskType : ClaimTask(u, a, w, q, types)
  BY DEF ClaimAnyTask
<1>1. FreshAttempt(a) /\ tasks[u].status = "queued"
      /\ tasks' = [tasks EXCEPT ![u].status = "running"]
  BY DEF ClaimTask, Claimable
<1>2. attempts[a].task = None /\ attempts'[a].task = u
      /\ \A b \in AttemptID \ {a} : attempts'[b] = attempts[b]
  BY <1>1 DEF ClaimTask, RowsInv, AttemptRows, FreshAttempt, TypeOK
<1>3. CASE u # t
  <2>1. tasks'[t] = tasks[t]
    BY <1>1, <1>3 DEF RowsInv, TypeOK
  <2>2. AttemptsOf(t)' = AttemptsOf(t)
    BY <1>2, <1>3, FiniteIDs DEF AttemptsOf
  <2> QED
    BY <2>1, <2>2 DEF StartsDue
<1>4. CASE u = t
  <2>1. AttemptsOf(t)' = AttemptsOf(t) \cup {a} /\ a \notin AttemptsOf(t)
    BY <1>2, <1>4, FiniteIDs DEF AttemptsOf
  <2>2. Cardinality(AttemptsOf(t)') = had + 1
    BY <2>1, AttemptsFinite, FS_AddElement
  <2>3. /\ tasks'[t].status = "running" /\ tasks'[t].max_retries = tasks[t].max_retries
        /\ tasks'[t].retry_count = tasks[t].retry_count
    BY <1>1, <1>4, RowFacts DEF RowsInv, TypeOK, Task
  <2>4. LeftOf(tasks'[t]) = LeftOf(tasks[t]) - 1 /\ WorthOf(tasks'[t]) = WorthOf(tasks[t])
    BY <1>0, <1>1, <1>4, <2>3 DEF LeftOf, WorthOf, RetriesOf
  <2>5. StartsDue(t)' = (had + 1) + (LeftOf(tasks[t]) - 1)
    BY <2>2, <2>4 DEF StartsDue
  <2> HIDE DEF had
  <2>6. StartsDue(t)' = had + LeftOf(tasks[t])
    BY <1>0, <2>5
  <2> QED
    BY <1>1, <1>4, <2>3, <2>4, <2>6 DEF StartsDue, had
<1> QED
  BY <1>3, <1>4

\* An outcome leaves its task what it had left, but for a start the task was
\* waiting for.
LEMMA OutcomeSpends ==
  ASSUME RowsInv, RetryBudget, Next, ~ClaimAnyTask, NEW t \in TaskID,
         NEW a \in AttemptID, Outcome(a)
  PROVE  IF attempts[a].task = t
         THEN /\ a \in LiveAttemptsOf(t) /\ tasks[t].status # "absent"
              /\ LeftOf(tasks'[t]) = SpareOf(t) /\ WorthOf(tasks'[t]) = WorthOf(tasks[t])
         ELSE tasks'[t] = tasks[t]
<1>1. PICK o \in AttemptStatus \ {"running"}, row \in Task, e \in TaskEventType :
        /\ attempts[a].task \in TaskID /\ attempts[a].status = "running"
        /\ Finish(a, o, row, e) /\ OutcomeRow(a, o, row, e)
  BY OutcomeShape
<1>2. CASE attempts[a].task # t
  BY <1>1, <1>2, OutcomeFrame
<1>3. CASE attempts[a].task = t
  <2>1. tasks'[t] = row /\ tasks[t].status # "absent"
    BY <1>1, <1>3, OutcomeFrame DEF RowsInv, AttemptRows, FreshTask
  <2>2. PICK to : StandsAs(t, to, WorthOf(tasks[t]), SpareOf(t))
    BY <1>1, <1>3, <2>1, OutcomeStands
  <2>3. a \in LiveAttemptsOf(t)
    BY <1>1, <1>3 DEF LiveAttemptsOf, AttemptsOf
  <2> QED
    BY <1>3, <2>1, <2>2, <2>3 DEF StandsAs
<1> QED
  BY <1>2, <1>3

LEMMA StepGranted ==
  ASSUME RowsInv, RowsInv', RetryBudget, Next, NEW t \in TaskID
  PROVE  Granted(t)
<1> DEFINE had == Cardinality(AttemptsOf(t))
<1>0. /\ had \in Nat /\ LeftOf(tasks[t]) \in Int /\ LeftOf(tasks'[t]) \in Int
      /\ tasks[t].retry_count \in Nat /\ tasks[t].max_retries \in Int
      /\ tasks'[t].max_retries \in Int
  BY DueFacts
<1>1. CASE ClaimAnyTask
  <2>1. StartsDue(t) \in Int
    BY <1>0 DEF StartsDue
  <2> QED
    BY <1>1, <2>1, ClaimSpends DEF Granted
<1>2. CASE ~ClaimAnyTask
  <2>1. Cardinality(AttemptsOf(t)') = had
    BY <1>2, OnlyClaimsAddAttempts, SameAttempts
  <2>2. ASSUME LeftOf(tasks'[t]) <= LeftOf(tasks[t]), WorthOf(tasks'[t]) = WorthOf(tasks[t])
        PROVE  Granted(t)
    BY <1>0, <2>1, <2>2 DEF Granted, StartsDue
  <2>3. ASSUME tasks'[t] = tasks[t] PROVE Granted(t)
    BY <1>0, <2>2, <2>3
  <2>4. CASE \E a \in AttemptID : Outcome(a)
    <3>1. PICK a \in AttemptID : Outcome(a)
      BY <2>4
    <3>2. CASE attempts[a].task # t
      BY <1>2, <2>3, <3>1, <3>2, OutcomeSpends
    <3>3. CASE attempts[a].task = t
      <4>1. SpareOf(t) <= LeftOf(tasks[t])
        BY <1>0, RowFacts DEF SpareOf, LeftOf
      <4>2. LeftOf(tasks'[t]) = SpareOf(t) /\ WorthOf(tasks'[t]) = WorthOf(tasks[t])
        BY <1>2, <3>1, <3>3, OutcomeSpends
      <4> QED
        BY <2>2, <4>1, <4>2
    <3> QED
      BY <3>2, <3>3
  <2>5. CASE ~\E a \in AttemptID : Outcome(a)
    <3>1. QuietMove(t)
      BY <1>2, <2>5, QuietSteps
    <3>2. ASSUME SameConfig(tasks'[t], tasks[t]), tasks'[t].retry_count = tasks[t].retry_count,
                 tasks'[t].status = "absent" <=> tasks[t].status = "absent"
          PROVE  /\ WorthOf(tasks'[t]) = WorthOf(tasks[t])
                 /\ LeftOf(tasks'[t]) = SpareOf(t) +
                      (IF tasks'[t].status \in {"queued", "retrying"} THEN 1 ELSE 0)
      BY <3>2 DEF SameConfig, WorthOf, LeftOf, SpareOf
    <3>3. LeftOf(tasks[t]) = SpareOf(t) +
            (IF tasks[t].status \in {"queued", "retrying"} THEN 1 ELSE 0)
      BY DEF LeftOf, SpareOf
    <3>4. SpareOf(t) \in Int
      BY RowFacts
    <3>5. CASE Moves(t, {"halted"}, "queued", "queued")
      <4>1. tasks[t].status = "halted" /\ tasks'[t].status = "queued"
        BY <3>5 DEF Moves
      <4>2. ResumeTask(t)
        BY <4>1, OperatorMoves
      <4>3. LeftOf(tasks'[t]) = LeftOf(tasks[t]) + 1
        BY <3>2, <3>3, <3>4, <3>5, <4>1 DEF Moves
      <4> QED
        BY <1>0, <2>1, <4>2, <4>3 DEF Granted, StartsDue
    <3>6. CASE Begins(t, {"dead", "cancelled", "absent"})
      <4>1. LeftOf(tasks'[t]) = WorthOf(tasks'[t])
        BY <1>0, <3>6 DEF Begins, LeftOf, WorthOf, RetriesOf
      <4>2. CASE tasks[t].status = "absent"
        <5>1. AttemptsOf(t) = {}
          <6> SUFFICES ASSUME NEW a \in AttemptsOf(t) PROVE FALSE
            OBVIOUS
          <6>1. a \in AttemptID /\ attempts[a].task = t
            BY DEF AttemptsOf
          <6>2. attempts[a].task = None \/ ~FreshTask(attempts[a].task)
            BY <6>1 DEF RowsInv, AttemptRows
          <6> QED
            BY <4>2, <6>1, <6>2, FiniteIDs DEF FreshTask
        <5>2. had = 0
          BY <5>1, FS_EmptySet
        <5> QED
          BY <1>0, <2>1, <4>1, <4>2, <5>2 DEF Granted, StartsDue, FreshTask
      <4>3. CASE tasks[t].status \in {"dead", "cancelled"}
        <5>1. RetryTask(t)
          BY <3>6, <4>3, OperatorMoves DEF Begins
        <5>2. tasks'[t].max_retries = tasks[t].max_retries
          BY <5>1, RowFacts DEF RetryTask, Control, RowsInv, TypeOK, Task
        <5>3. WorthOf(tasks'[t]) = WorthOf(tasks[t])
          BY <3>6, <4>3, <5>2 DEF Begins, WorthOf
        <5> QED
          BY <1>0, <2>1, <4>1, <5>1, <5>3 DEF Granted, StartsDue
      <4> QED
        BY <3>6, <4>2, <4>3 DEF Begins
    <3>7. CASE Moves(t, {tasks[t].status}, tasks[t].status, lastEvent[t])
      BY <2>2, <3>2, <3>3, <3>4, <3>7 DEF Moves
    <3>8. CASE Moves(t, {"retrying"}, "queued", lastEvent[t])
      BY <2>2, <3>2, <3>3, <3>4, <3>8 DEF Moves
    <3>9. ASSUME SameConfig(tasks'[t], tasks[t]), tasks'[t].retry_count = tasks[t].retry_count,
                 tasks[t].status # "absent",
                 tasks'[t].status \in {"halted", "cancelled", "superseded"}
          PROVE  Granted(t)
      BY <2>2, <3>2, <3>3, <3>4, <3>9
    <3>10. CASE Moves(t, {"running"}, "halted", "halted")
      BY <3>9, <3>10 DEF Moves
    <3>11. CASE Moves(t, {"queued", "halted"}, "cancelled", "cancelled")
      BY <3>9, <3>11 DEF Moves
    <3>12. CASE Moves(t, {"queued", "succeeded", "dead", "cancelled", "halted"}, "superseded",
                      lastEvent[t])
      BY <3>9, <3>12 DEF Moves
    <3> QED
      BY <3>1, <3>5, <3>6, <3>7, <3>8, <3>10, <3>11, <3>12 DEF QuietMove
  <2> QED
    BY <2>4, <2>5
<1> QED
  BY <1>1, <1>2

\* No claim, report, timeout, requeue, cancellation or restart, in whatever
\* order, adds a start to a task.  An operator does: one by resuming it, what
\* it was worth at first by retrying it.
THEOREM StartsAreGranted == Spec => [][\A t \in TaskID : Granted(t)]_vars
<1>1. RowsInv /\ RowsInv' /\ RetryBudget /\ [Next]_vars => [\A t \in TaskID : Granted(t)]_vars
  BY StepGranted
<1> QED
  BY <1>1, RowsInvariant, RetryBudgetInvariant, PTL DEF Spec

\* A task that no operator resumes or retries is started at most
\* 1 + max_retries times, whatever else happens to it.
THEOREM StartsWithinWorth ==
  ASSUME NEW t \in TaskID
  PROVE  Spec /\ [][~ResumeTask(t) /\ ~RetryTask(t)]_vars
           => [](Cardinality(AttemptsOf(t)) <= WorthOf(tasks[t]))
<1> DEFINE Due == StartsDue(t) <= WorthOf(tasks[t])
           NoGrant == ~ResumeTask(t) /\ ~RetryTask(t)
<1>1. Init => Due
  <2> SUFFICES ASSUME Init PROVE Due
    OBVIOUS
  <2>1. tasks[t] = AbsentTask /\ AttemptsOf(t) = {}
    BY FiniteIDs DEF Init, AbsentAttempt, AttemptsOf
  <2>2. LeftOf(tasks[t]) = 0 /\ WorthOf(tasks[t]) = 0
    BY <2>1 DEF AbsentTask, LeftOf, WorthOf, RetriesOf
  <2> QED
    BY <2>1, <2>2, FS_EmptySet DEF StartsDue
<1>2. Due /\ RowsInv /\ RowsInv' /\ RetryBudget /\ [Next]_vars /\ [NoGrant]_vars => Due'
  <2> SUFFICES ASSUME Due, RowsInv, RowsInv', RetryBudget, [Next]_vars, [NoGrant]_vars
               PROVE  Due'
    OBVIOUS
  <2>1. CASE UNCHANGED vars
    BY <2>1 DEF vars, StartsDue, AttemptsOf
  <2>2. CASE Next /\ NoGrant
    <3>1. \/ StartsDue(t)' <= StartsDue(t) /\ WorthOf(tasks'[t]) = WorthOf(tasks[t])
          \/ StartsDue(t)' = WorthOf(tasks'[t])
      BY <2>2, StepGranted DEF Granted
    <3>2. StartsDue(t) \in Int /\ StartsDue(t)' \in Int /\ WorthOf(tasks'[t]) \in Int
      BY DueFacts DEF StartsDue, WorthOf, RetriesOf
    <3> QED
      BY <3>1, <3>2
  <2> QED
    BY <2>1, <2>2
<1>3. Due /\ RowsInv /\ RetryBudget => Cardinality(AttemptsOf(t)) <= WorthOf(tasks[t])
  <2> SUFFICES ASSUME Due, RowsInv, RetryBudget
               PROVE  Cardinality(AttemptsOf(t)) <= WorthOf(tasks[t])
    OBVIOUS
  <2>1. LeftOf(tasks[t]) >= 0 /\ LeftOf(tasks[t]) \in Int /\ WorthOf(tasks[t]) \in Int
    BY StartsLeft, RowFacts DEF LeftOf, SpareOf, WorthOf
  <2> QED
    BY <2>1, AttemptsFinite DEF StartsDue
<1> HIDE DEF Due, NoGrant
<1>4. Spec /\ [][NoGrant]_vars => [](Cardinality(AttemptsOf(t)) <= WorthOf(tasks[t]))
  BY <1>1, <1>2, <1>3, RowsInvariant, RetryBudgetInvariant, PTL DEF Spec
<1> QED
  BY <1>4 DEF NoGrant

\* A task that no operator halts never has two attempts whose rows are running,
\* nor one that still is when the task has ended.
THEOREM UnhaltedTasksRunOnce ==
  ASSUME NEW t \in TaskID
  PROVE  Spec /\ [][~HaltTask(t)]_vars => []~Stray(t)
<1> DEFINE Sound == tasks[t].status # "halted" /\ ~Stray(t)
           NoHalt == ~HaltTask(t)
<1>1. Init => Sound
  <2> SUFFICES ASSUME Init PROVE Sound
    OBVIOUS
  <2>1. tasks[t].status = "absent" /\ AttemptsOf(t) = {}
    BY FiniteIDs DEF Init, AbsentTask, AbsentAttempt, AttemptsOf
  <2> QED
    BY <2>1 DEF Stray, LiveAttemptsOf
<1>2. Sound /\ RowsInv /\ [Next]_vars /\ [NoHalt]_vars => Sound'
  <2>1. ASSUME Sound, UNCHANGED vars PROVE Sound'
    BY <2>1 DEF vars, Stray, LiveAttemptsOf, AttemptsOf
  <2>2. ASSUME Sound, RowsInv, Next, NoHalt PROVE Sound'
    BY <2>2, OperatorMoves, StepOnlyHaltedGoStray
  <2> QED
    BY <2>1, <2>2
<1>3. Sound => ~Stray(t)
  OBVIOUS
<1> HIDE DEF Sound, NoHalt
<1>4. Spec /\ [][NoHalt]_vars => []~Stray(t)
  BY <1>1, <1>2, <1>3, RowsInvariant, PTL DEF Spec
<1> QED
  BY <1>4 DEF NoHalt

-----------------------------------------------------------------------------
(* What is given up has had all its starts.                                *)

\* A task that has been neither withdrawn nor replaced has had, or has left,
\* the starts it was worth.
FullyDue(t) ==
  tasks[t].status \notin {"absent", "cancelled", "superseded"} =>
    StartsDue(t) = WorthOf(tasks[t])

Unhalted(t) == tasks[t].status # "halted" /\ ~Stray(t)

LEMMA StepFullyDue ==
  ASSUME RowsInv, RowsInv', RetryBudget, Next, NEW t \in TaskID,
         Unhalted(t), FullyDue(t), ~HaltTask(t), ~RetryTask(t)
  PROVE  FullyDue(t)'
<1>0. /\ Cardinality(AttemptsOf(t)) \in Nat /\ tasks'[t].max_retries \in Int
      /\ tasks[t].retry_count \in Nat /\ tasks[t].max_retries \in Int
      /\ SpareOf(t) \in Int
  BY DueFacts, RowFacts
<1>1. CASE ClaimAnyTask
  BY <1>1, ClaimSpends DEF FullyDue
<1>2. CASE ~ClaimAnyTask
  <2>1. AttemptsOf(t)' = AttemptsOf(t)
    BY <1>2, OnlyClaimsAddAttempts, SameAttempts
  <2>2. ASSUME LeftOf(tasks'[t]) = LeftOf(tasks[t]), WorthOf(tasks'[t]) = WorthOf(tasks[t]),
               tasks[t].status \notin {"absent", "cancelled", "superseded"}
        PROVE  FullyDue(t)'
    BY <2>1, <2>2 DEF FullyDue, StartsDue
  <2>3. ASSUME tasks'[t] = tasks[t] PROVE FullyDue(t)'
    BY <2>1, <2>3 DEF FullyDue, StartsDue
  <2>4. LeftOf(tasks[t]) = SpareOf(t) +
          (IF tasks[t].status \in {"queued", "retrying"} THEN 1 ELSE 0)
    BY DEF LeftOf, SpareOf
  <2>5. CASE \E a \in AttemptID : Outcome(a)
    <3>1. PICK a \in AttemptID : Outcome(a)
      BY <2>5
    <3>2. CASE attempts[a].task # t
      BY <1>2, <2>3, <3>1, <3>2, OutcomeSpends
    <3>3. CASE attempts[a].task = t
      <4>1. /\ a \in LiveAttemptsOf(t)
            /\ LeftOf(tasks'[t]) = SpareOf(t) /\ WorthOf(tasks'[t]) = WorthOf(tasks[t])
        BY <1>2, <3>1, <3>3, OutcomeSpends
      <4>2. tasks[t].status = "running"
        BY <4>1, NotStray DEF Unhalted
      <4>3. LeftOf(tasks[t]) = SpareOf(t)
        BY <1>0, <2>4, <4>2
      <4> QED
        BY <2>2, <4>1, <4>2, <4>3
    <3> QED
      BY <3>2, <3>3
  <2>6. CASE ~\E a \in AttemptID : Outcome(a)
    <3>1. QuietMove(t)
      BY <1>2, <2>6, QuietSteps
    <3>2. ASSUME tasks'[t].status \in {"cancelled", "superseded", "absent"} PROVE FullyDue(t)'
      BY <3>2 DEF FullyDue
    <3>3. ASSUME SameConfig(tasks'[t], tasks[t]), tasks'[t].retry_count = tasks[t].retry_count,
                 tasks'[t].status = tasks[t].status
                   \/ {tasks[t].status, tasks'[t].status} = {"retrying", "queued"}
          PROVE  FullyDue(t)'
      <4>1. CASE tasks[t].status \in {"absent", "cancelled", "superseded"}
        BY <3>2, <3>3, <4>1
      <4>2. CASE tasks[t].status \notin {"absent", "cancelled", "superseded"}
        <5>1. /\ tasks'[t].status \in {"queued", "retrying"}
                   <=> tasks[t].status \in {"queued", "retrying"}
              /\ tasks'[t].status # "absent"
              /\ tasks'[t].max_retries = tasks[t].max_retries
          BY <3>3, <4>2 DEF SameConfig
        <5>2. LeftOf(tasks'[t]) = LeftOf(tasks[t])
          BY <3>3, <5>1 DEF LeftOf
        <5>3. WorthOf(tasks'[t]) = WorthOf(tasks[t])
          BY <4>2, <5>1 DEF WorthOf
        <5> QED
          BY <2>2, <4>2, <5>2, <5>3
      <4> QED
        BY <4>1, <4>2
    <3>4. CASE Moves(t, {tasks[t].status}, tasks[t].status, lastEvent[t])
      BY <3>3, <3>4 DEF Moves
    <3>5. CASE Moves(t, {"retrying"}, "queued", lastEvent[t])
      BY <3>3, <3>5 DEF Moves
    <3>6. CASE \/ Moves(t, {"queued", "halted"}, "cancelled", "cancelled")
               \/ Moves(t, {"queued", "succeeded", "dead", "cancelled", "halted"}, "superseded",
                        lastEvent[t])
      BY <3>2, <3>6 DEF Moves
    <3>7. ~Moves(t, {"running"}, "halted", "halted") /\ ~Moves(t, {"halted"}, "queued", "queued")
      BY OperatorMoves DEF Moves, Unhalted
    <3>8. CASE Begins(t, {"dead", "cancelled", "absent"})
      <4>1. tasks[t].status = "absent"
        BY <3>8, OperatorMoves DEF Begins
      <4>2. LeftOf(tasks'[t]) = WorthOf(tasks'[t])
        BY <1>0, <3>8 DEF Begins, LeftOf, WorthOf, RetriesOf
      <4>3. Granted(t)
        BY StepGranted
      <4>4. AttemptsOf(t) = {}
        <5> SUFFICES ASSUME NEW a \in AttemptsOf(t) PROVE FALSE
          OBVIOUS
        <5>1. a \in AttemptID /\ attempts[a].task = t
          BY DEF AttemptsOf
        <5>2. attempts[a].task = None \/ ~FreshTask(attempts[a].task)
          BY <5>1 DEF RowsInv, AttemptRows
        <5> QED
          BY <4>1, <5>1, <5>2, FiniteIDs DEF FreshTask
      <4>5. WorthOf(tasks'[t]) \in Int
        BY <1>0 DEF WorthOf, RetriesOf
      <4> QED
        BY <2>1, <4>2, <4>4, <4>5, FS_EmptySet DEF FullyDue, StartsDue
    <3> QED
      BY <3>1, <3>4, <3>5, <3>6, <3>7, <3>8 DEF QuietMove
  <2> QED
    BY <2>5, <2>6
<1> QED
  BY <1>1, <1>2

\* A task that no operator halts or retries is given up for its failures when
\* it has been started exactly 1 + max_retries times: neither late reports nor
\* timeouts nor requeues cost it a start or add one.
THEOREM DeadTasksHadTheirStarts ==
  ASSUME NEW t \in TaskID
  PROVE  Spec /\ [][~HaltTask(t) /\ ~RetryTask(t)]_vars
           => [](tasks[t].status = "dead" => Cardinality(AttemptsOf(t)) = WorthOf(tasks[t]))
<1> DEFINE Good == Unhalted(t) /\ FullyDue(t)
           Alone == ~HaltTask(t) /\ ~RetryTask(t)
           Had == tasks[t].status = "dead" => Cardinality(AttemptsOf(t)) = WorthOf(tasks[t])
<1>1. Init => Good
  <2> SUFFICES ASSUME Init PROVE Good
    OBVIOUS
  <2>1. tasks[t].status = "absent" /\ AttemptsOf(t) = {}
    BY FiniteIDs DEF Init, AbsentTask, AbsentAttempt, AttemptsOf
  <2> QED
    BY <2>1 DEF Unhalted, FullyDue, Stray, LiveAttemptsOf
<1>2. Good /\ RowsInv /\ RowsInv' /\ RetryBudget /\ [Next]_vars /\ [Alone]_vars => Good'
  <2>1. ASSUME Good, UNCHANGED vars PROVE Good'
    BY <2>1 DEF vars, Unhalted, FullyDue, StartsDue, Stray, LiveAttemptsOf, AttemptsOf
  <2>2. ASSUME Good, RowsInv, RowsInv', RetryBudget, Next, Alone PROVE Good'
    <3>1. Unhalted(t)'
      BY <2>2, OperatorMoves, StepOnlyHaltedGoStray DEF Unhalted
    <3> QED
      BY <2>2, <3>1, StepFullyDue
  <2> QED
    BY <2>1, <2>2
<1>3. Good /\ RowsInv /\ RetryBudget => Had
  <2> SUFFICES ASSUME Good, RowsInv, RetryBudget, tasks[t].status = "dead"
               PROVE  Cardinality(AttemptsOf(t)) = WorthOf(tasks[t])
    OBVIOUS
  <2>1. StartsDue(t) = WorthOf(tasks[t])
    BY DEF FullyDue
  <2>2. LeftOf(tasks[t]) = SpareOf(t) /\ SpareOf(t) \in Int
    BY RowFacts, StartsLeft DEF LedgerState
  <2>3. SpareOf(t) >= 0 /\ ~(SpareOf(t) > 0)
    BY StartsLeft, RowFacts DEF RetryBudget
  <2> QED
    BY <2>1, <2>2, <2>3, AttemptsFinite DEF StartsDue
<1> HIDE DEF Good, Alone, Had
<1>4. Spec /\ [][Alone]_vars => []Had
  BY <1>1, <1>2, <1>3, RowsInvariant, RetryBudgetInvariant, PTL DEF Spec
<1> QED
  BY <1>4 DEF Alone, Had

=============================================================================
