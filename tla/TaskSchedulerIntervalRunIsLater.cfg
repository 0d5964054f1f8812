SPECIFICATION Spec
CONSTANTS
  Schedule = {s1}
  None = None
  CronPeriod = 2
  ZeroTime <- YearOne
  Interval = {2}
  MaxTime = 4
  MaxEdits = 0
  MaxFaults = 0
  MaxCount = 2
PROPERTY IntervalRunIsLater
CHECK_DEADLOCK FALSE
