SPECIFICATION R850Spec
CONSTANTS
  Nothing = Nothing
  Asked <- MCAsked
  Freqs <- MCFreqs
  MaxCuts = 1
  Configs <- MCConfigs
INVARIANTS
  ReceivesAsSet
  LoIsRight
  PointsAreTrue
CHECK_DEADLOCK FALSE
