SPECIFICATION ServerFairSpec
CONSTANTS
  Caller = {"report", "request", "requeue"}
  Background = {"report"}
  Pool = {"report"}
  Sched = {"requeue"}
  Emits <- MCEmits
  Client = {"k1"}
  InputBuf = 1
  SubBuf = 1
INVARIANTS
  ServerTypeOK
PROPERTIES
  WritersOutlived
  ShutdownCompletes
CHECK_DEADLOCK FALSE
