SPECIFICATION EngineFairSpec
CONSTANTS
  TaskID = {t1}
  AttemptID = {1, 2}
  WorkerID = {1, 2, 3}
  TaskType = {y1}
  Queue = {q1}
  None = None
  Priority = {0}
  MaxRetries = {1}
  DefaultMaxRetries = 1
  Concurrency = {1, 2}
  Delay = {0}
  Stamp = {0}
  GlobalLimit = 2
  QueueLimit <- MCQueueLimit
  TypeLimit <- MCTypeLimit
  RetryBaseDelay = 0
  RetryMaxDelay = 1
  HeartbeatCutoff = 1
  GoSlot = {g1, g2}
  PyThread = {p1}
  PoolQueue = q1
CONSTRAINT IDsInOrder
INVARIANTS
  EngineTypeOK
  PoolAttemptAccounted
PROPERTIES
  ImplementsStore
  OrphansAge
  OrphanedAttemptEnds
