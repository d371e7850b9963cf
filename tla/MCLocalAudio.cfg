CONSTANTS
  Client = {c1}
  Worker = worker
  Main = main
  MaxRequests = 3
  MaxChunks = 1
  QueueTarget = 1
  KeepTarget = 1
  Stopped = {2}
  MaxFailures = 1

SPECIFICATION LocalFairSpec
CHECK_DEADLOCK FALSE

INVARIANTS
  RequestsSettleOnce
PROPERTIES
  NewestIsHeard
  EveryRequestEnds
