SPECIFICATION Spec
CONSTANTS
  t1 = t1
  t2 = t2
  t3 = t3
  Threads = {t1, t2, t3}
  MaxStreams = 3
  MaxOpens = 2
  QUEUE = 2
  None = None
INVARIANTS
  OfTheChannel
  ReleasedBeforeNext
  WaitsOnLiveRuntime
PROPERTIES
  ControlReturns
