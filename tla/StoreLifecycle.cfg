SPECIFICATION Spec
CONSTANTS
  TaskID = {t1, t2}
  AttemptID = {a1, a2, a3}
  WorkerID = {w1, w2}
  TaskType = {"free"}
  Queue = {"free"}
  None = None
  Priority = {0, 1}
  MaxRetries = {0}
  DefaultMaxRetries = 1
  Concurrency = {2}
  Delay = {1}
  Stamp = {1}
  GlobalLimit = 2
  QueueLimit <- MCQueueLimit
  TypeLimit <- MCTypeLimit
  RetryBaseDelay = 1
  RetryMaxDelay = 1
  HeartbeatCutoff = 0
SYMMETRY IDSymmetry
INVARIANTS
  TypeOK
  WorkerCountMatches
  HeldTaskHasLiveAttempt
  OutcomeBacked
  RetryBudget
  AttemptHistory
  TimelineGaps
PROPERTIES
  OutcomeIsFinal
  NoOvertaking
  OnlyHaltedGoStray
  ImplementsTaskLedger
