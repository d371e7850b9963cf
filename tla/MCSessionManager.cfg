CONSTANTS
  Universe = {u1}
  Output = {"beaky", "mango", "par"}
  Animation = {"solo", "duet", "lit"}
  Drives <- MCDrives
  Playlist = {p1}
  NoStatus = NoStatus
  MaxSessions = 2
  MaxQueue = 2

SPECIFICATION Spec

INVARIANTS
  OutputsExclusive
  ResumeOnlyWhileInterrupted

PROPERTIES
  PlaylistTransitions
  QueueDropNeedsOwner
