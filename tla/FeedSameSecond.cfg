CONSTANTS
  PageSize = 2
  Contents <- OneAlarm
  Days = 1
  MaxSent = 4
  Burst = 2
  MaxFailures = 0
  MaxReads = 1
SPECIFICATION Spec
INVARIANT DistinctMessagesKept
