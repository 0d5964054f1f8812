SPECIFICATION Spec
CONSTANTS
  TaskID = {t1, t2}
  AttemptID = {a1, a2}
  WorkerID = {w1}
  TaskType = {"free"}
  Queue = {"free"}
  None = None
  Priority = {0}
  MaxRetries = {0}
  DefaultMaxRetries = 1
  Concurrency = {2}
  Delay = {0}
  Stamp = {1}
  GlobalLimit = 1
  QueueLimit <- MCQueueLimit
  TypeLimit <- MCTypeLimit
  RetryBaseDelay = 1
  RetryMaxDelay = 1
  HeartbeatCutoff = 1
PROPERTY InvalidTransitionsRejected
