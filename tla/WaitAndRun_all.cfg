SPECIFICATION Spec
CONSTANTS
  G = 3
  BatchSize = 2
  MaxConcurrency = 0
  Clicks = {c1, c2}
  MaxFaults = 0
CHECK_DEADLOCK FALSE
PROPERTY AllMeansAll
