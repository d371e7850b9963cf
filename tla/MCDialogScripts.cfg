SPECIFICATION ScriptsSpec
CONSTANTS
  one = one
  other = other
  g1 = g1
  g2 = g2
  g3 = g3
  t1 = t1
  t2 = t2
  Turns = {one, other}
  Takes = {g1, g2, g3}
  KeyOf <- TakeKeys
  FirstTurns = one
  Threads = {t1, t2}
  Worker = worker
  Composer = composer
  MaxCalls = 5
  MaxNow = 1
  Nothing = Nothing
SYMMETRY Alike
INVARIANTS
  ScriptsConsistent
  AcceptancesLandFresh
  RendersAcceptedTake
CHECK_DEADLOCK FALSE
