CONSTANTS
  MaxJobs = 4
  MaxCancels = 2
  Scheduler = {s1}
  Worker = {w1, w2}
  Capacity = 1
  ScanLimit = 1

SPECIFICATION FairSpec
CHECK_DEADLOCK FALSE

INVARIANTS
  ExecutorConsistent
PROPERTIES
  LoadsAreBounded
  LoadsEnd
