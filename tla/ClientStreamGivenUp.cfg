SPECIFICATION Spec
CONSTANTS
  Streams = {k1}
  Backlog = 1
  Pipe = 1
  MaxChunks <- One
INVARIANTS
  NoStreamForgotten
CHECK_DEADLOCK FALSE
