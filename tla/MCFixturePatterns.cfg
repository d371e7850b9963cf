CONSTANTS
  f1 = f1
  c1 = c1
  c2 = c2
  p1 = p1
  p2 = p2
  None = None
  Fixtures = {f1}
  Creatures = {c1, c2}
  Patterns = {p1, p2}
  Universes = {u1, u2}
  Timed = {p1}
  Activities = {"running", "idle"}
  Bindings <- MCBindings
  CallerCount = 2
  MaxCalls = 3

SPECIFICATION FairSpec
CHECK_DEADLOCK FALSE

INVARIANTS
  LightsAreDriven
  BoundPatternIsWanted
PROPERTIES
  LightsEnd
