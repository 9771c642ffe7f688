SPECIFICATION Spec
CONSTANTS
  None = None
  Params <- MCParams
  Satellite = {"IsdbS", "IsdbS3"}
  MaxCalls = 4
INVARIANTS
  FreeOnceGone
CHECK_DEADLOCK FALSE
