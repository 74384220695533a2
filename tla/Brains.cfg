SPECIFICATION BrainSpec
CONSTANTS
  Action = {left, right}
  None = None
  TemporalWindow <- Windows
  ExperienceSize = 2
  StartThreshold = 1
  Burnin = 1
  Total = 4
  EpsilonMin = 1
  WindowSize = 3
  MaxPasses = 6
  MaxToggles = 2
INVARIANTS
  BrainTypeOK
  TrueTransitions
  TrainsInTime
\* Passes end with the bound.
CHECK_DEADLOCK FALSE
