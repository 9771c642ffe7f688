SPECIFICATION Spec
CONSTANTS
  a = a
  b = b
  c1 = c1
  c2 = c2
  p1 = p1
  p2 = p2
  None = None
  Tuners <- OneTuner
  Clients = {c1, c2}
  Params = {p1, p2}
  Receives <- OneReceives
  Requests = {r1, r2}
  Asks <- OneAsks
  Watched = {r1}
  RandomFails = FALSE
PROPERTIES
  AcquireIsAnswered
  StoppedIsFreed
  GoneIsServedNothing
  PoolSpec
CHECK_DEADLOCK FALSE
