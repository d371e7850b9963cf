SPECIFICATION SpeechFairSpec
CONSTANTS
  s1 = s1
  s2 = s2
  Session = {s1, s2}
  MaxSentences = 3
  Workloads <- MCWorkloads
  Other = Other
  Silence = Silence
INVARIANTS SpeechConsistent HeardIsRecorded
PROPERTY FinishReturns
CHECK_DEADLOCK FALSE
