SPECIFICATION Spec
CONSTANTS
  SeqSpace = 4
  MaxFaults = 2
  MaxOpens = 2
  Blocks = 2
  Inputs <- MCInputs
  Gpios = {11}
INVARIANTS
  OwnReply
  BootsWhole
  ReadyIsWarm
CHECK_DEADLOCK FALSE
