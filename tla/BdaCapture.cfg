SPECIFICATION Spec
CONSTANTS
  PacketLen = 3
  InFlight = 2
  Backlog = 1
  Round = 1
  Margin = 2
  MaxTunes = 2
  MaxStreams = 2
  MaxFrames = 7
INVARIANTS
  StreamIsFresh
  EndIsTold
  BuffersOutlive
  AlignsWhole
PROPERTY
  ReaderEnds
CHECK_DEADLOCK FALSE
