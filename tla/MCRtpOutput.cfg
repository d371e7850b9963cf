CONSTANTS
  Session = {s1}
  Sound = {m1}
  Frames = 3
  QueueCapacity = 2
  RunTrips = 3
  WindowTrips = 2
  RingSize = 4

SPECIFICATION FairSpec
CHECK_DEADLOCK FALSE

INVARIANTS
  SendsInOrder
  DeliveredIsAnswered
PROPERTIES
  FinalIsAnswered
