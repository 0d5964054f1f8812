SPECIFICATION FairSpec
CONSTANTS
  Caller = {"restart", "report", "requeue"}
  Background = {"report"}
  Emits <- MCEmits
  Client = {"k1"}
  InputBuf = 1
  SubBuf = 1
INVARIANTS
  TypeOK
  NoEventLostSilently
  StaleViewAccounted
PROPERTIES
  ImplementsLossyStream
  EmitNeverBlocks
  PublishedIsFannedOut
CHECK_DEADLOCK FALSE
