SPECIFICATION Spec
CONSTANTS
  None = None
  Params <- MCParams
  Satellite = {"IsdbS", "IsdbS3"}
  MaxCalls = 4
INVARIANTS
  LnbOffWhenGone
  LastAskedHolds
  FormatIsTuned
  MarkIsHeld
CHECK_DEADLOCK FALSE
