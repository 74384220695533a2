SPECIFICATION PageFairSpec
CONSTANTS
  Available = 2
  NoSample = NoSample
  MaxLoads = 3
  MaxRuns = 3
INVARIANTS
  PageTypeOK
  ResultsMatch
PROPERTIES
  SamplesFromLoaded
  LoadComesBack
\* After a failed post or image the page is stuck.
CHECK_DEADLOCK FALSE
