SPECIFICATION Spec
CONSTANTS
  a = a
  b = b
  c1 = c1
  c2 = c2
  p1 = p1
  p2 = p2
  None = None
  Tuners <- MCTuners
  Clients = {c1, c2}
  Params = {p1, p2}
  Receives <- MCReceives
  Requests = {r1, r2}
  Asks <- MCAsks
  Watched = {r1, r2}
  RandomFails = TRUE
SYMMETRY Symmetry
INVARIANTS
  OneHolder
  ServedAsAsked
  PoolIsExact
  JoinableIsLive
  EndIsTold
CHECK_DEADLOCK FALSE
