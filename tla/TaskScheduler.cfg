SPECIFICATION FairSpec
CONSTANTS
  Schedule = {s1}
  None = None
  CronPeriod = 1
  ZeroTime <- YearOne
  Interval <- ZeroOrOne
  MaxTime = 2
  MaxEdits = 1
  MaxFaults = 2
  MaxCount = 3
INVARIANTS
  TypeOK
  RunsPerInstant
PROPERTIES
  NoRunSkipped
  DueScheduleFires
\* The clock stops at MaxTime.
CHECK_DEADLOCK FALSE
