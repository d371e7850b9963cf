CONSTANTS
  Universe = {"u1"}
  Output = {"beaky", "mango"}
  Animation = {"solo", "speech", "bad", "duet", "idleB", "idleM"}
  Drives <- MCDrives
  Playlist = {"p1"}
  NoStatus = NoStatus
  Loop = Loop
  Creature = {"beaky", "mango"}
  Home <- MCHome
  Items <- MCItems
  NoAnimation = NoAnimation
  IdleAnimation <- MCBeakyIdles
  Rest = {r1, r2}
  Loader = {l1}
  Sound = {"speech"}
  Mistimed = {"bad"}
  Broken = {"bad"}
  Workloads <- MCWorkloads
  MaxRequests = 2
  MaxSessions = 4
  MaxQueue = 1

SPECIFICATION PlaybackSpec
CHECK_DEADLOCK FALSE

INVARIANTS
  SessionsEndOnce
  SettlesRight
  NoStrandedPlaylist
PROPERTIES
  Spec
