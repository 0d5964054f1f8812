SPECIFICATION FairSpec
CONSTANTS
  Caller = {c1, c2, c3}
  Background = {c1}
  Buffer = 2
  None = None
INVARIANT TypeOK
PROPERTIES
  ImplementsAtomicWrites
  OnlyLateSendsAreStranded
  AcceptedWriteAnswered
  CloseCompletes
\* The store stops: closed, with every write returned.
CHECK_DEADLOCK FALSE
