SPECIFICATION Spec
CONSTANTS
  TaskID = {t1, t2, t3}
  AttemptID = {a1, a2, a3}
  WorkerID = {w1}
  TaskType = {"y", "free"}
  Queue = {"q", "free"}
  None = None
  Priority = {0}
  MaxRetries <- NegativeMaxRetries
  DefaultMaxRetries = 1
  Concurrency = {0}
  Delay = {0}
  Stamp = {1}
  GlobalLimit = 2
  QueueLimit <- MCQueueLimit
  TypeLimit <- MCTypeLimit
  RetryBaseDelay = 1
  RetryMaxDelay = 1
  HeartbeatCutoff = 0
SYMMETRY IDSymmetry
INVARIANTS
  RunningWithinLimits
