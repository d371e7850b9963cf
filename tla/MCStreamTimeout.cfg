CONSTANTS
  c1 = c1  t1 = t1  t2 = t2
  Creatures = {c1}
  Threads = {t1, t2}
  Timeout = 2
  MaxNow = 5
  MaxFrames = 5
  None = None

SPECIFICATION FairSpec
CHECK_DEADLOCK FALSE

INVARIANTS
  StreamsConsistent
PROPERTIES
  NotCutShort
  StreamsExpire
