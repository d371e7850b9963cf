SPECIFICATION MediaSpec
CONSTANTS
  p1 = p1
  c1 = c1
  c2 = c2
  damaged = damaged
  Sound = {p1}
  Content = {c1, c2, damaged}
  Unusable = {damaged}
  Loader = {l1, l2}
  Channels = 2
  MaxReplaced = 2
  MaxCrashes = 1
  Missing = Missing
  v1 = v1
  v2 = v2
  Voice = {v1, v2}
  Scenes <- MCScenes
  Paces <- MCPaces
  Release = 3
  MaxChars = 5
  PadIn = 1
  PadOut = 2
  TurnGap = 1
  ChunkGap = 3
  FrameSize = 2
  MusicLength = 30
  Quiet = Quiet
  me = me
  you = you
  far = far
  Crowd = Crowd
  Self = me
  Peers = {you, far}
  Audience = Crowd
  Aims <- MCAims
  Centre = 10
  Leans = {4}
  Speeches <- MCSpeeches
  SpeechLoop <- MCSpeechLoop
  IdleLoops <- MCIdleLoops
  Tolerance = 2
  BodyTail = 2
  Crossfade = 3
  Hold = 4
  MinReaction = 1
  MaxReaction = 2
  MinTravel = 3
  MaxTravel = 4
  SettleTime = 2
  Overshoots = {2}
  MaxByte = 20
  MaxStep = 7
  n1 = n1
  t1 = t1
  t2 = t2
  Basename = {n1}
  Recording = {t1, t2}
  RecordingOf <- MCRecordingOf
  Blocks <- MCBlocks
  Visitor = {visitor}
  Worker = worker
  Nothing = Nothing
  MaxChanges = 4
  Answers <- MCAnswers
  Asked <- MCAsked
  Entries <- MCEntries
  VisemeOf <- MCVisemes
  MaxBuffered = 2
  MaxControl = 1
  PieceLength = 5
  SmallGap = 1
  Scale = 60
  ch1 = ch1
  RtpChannel = {ch1, ch2}
  Deliveries <- MCDeliveries
  MaxLeases = 2
  MaxRotations = 2
  MaxFrames = 2
  MaxTime = 1
  Interval = 1
  Second = 2
  SampleRate = 9
  Modulus = 4
  NtpOffset = 1
  NtpScale = 4
  WallClocks <- MCWallClocks
  NoSession = NoSession
  MaxPlays = 2
  MaxFrame = 4
  MaxDelay = 13
  MaxTaken = 1
  Step = 2
  Priming = 2
  Capacity = 2
  Lengths = {1, 4}
  Other = Other
  Provenances <- MCProvenances
  Widths = {0, 3}
  Recipe <- MCRecipe
  Control = {"bell"}
  AudioBytes = 4
  MaxPayload = 200
  MaxNumber = 10
  Cuts = {0, 1, 100}
INVARIANTS
  SpeechKeepsTime
  PerformanceFlows
  SoundsAreTrue
  TransmissionsAreTrue
CHECK_DEADLOCK FALSE
