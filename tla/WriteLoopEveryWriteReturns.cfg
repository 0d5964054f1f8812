SPECIFICATION FairSpec
CONSTANTS
  Caller = {c1, c2, c3}
  Background = {c1}
  Buffer = 1
  None = None
PROPERTIES
  EveryWriteReturns
\* The store stops: closed, with every write returned.
CHECK_DEADLOCK FALSE
