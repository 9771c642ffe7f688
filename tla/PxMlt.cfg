SPECIFICATION Spec
CONSTANTS
  None = None
  c1 = c1
  c2 = c2
  f1 = f1
  f2 = f2
  s1 = s1
  s2 = s2
  Chips <- MCChips
  BusOf <- OneBus
  Params <- MCParams
  MaxFails = 2
SYMMETRY Symmetry
INVARIANTS
  TunedIsKept
  NotesAreTrue
CHECK_DEADLOCK FALSE
