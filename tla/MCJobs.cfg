CONSTANTS
  Job = {1, 2, 3}
  Offered <- MCOffered
  Client = {c1, c2}
  Copy = {a1}
  Scene = {home}
  Upload = Upload
  MusicSlots = 2
  MaxEdits = 1
  None = None

SPECIFICATION FairSpec
CHECK_DEADLOCK FALSE

INVARIANTS
  JobsConsistent
  RendersAreWhole
PROPERTIES
  CreatedEnds
  MusicIsBounded
