SPECIFICATION Spec
CONSTANTS
  Streams = {k1}
  Backlog = 1
  Pipe = 1
  MaxChunks <- Four
INVARIANTS
  EndIsTrue
  Accounted
PROPERTIES
  CallIsAnswered
  EndIsLearned
  LetGoIsReleased
  StreamSpec
CHECK_DEADLOCK FALSE
