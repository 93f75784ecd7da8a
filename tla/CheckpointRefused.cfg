SPECIFICATION Spec
CONSTANTS
  NaN = nan
  None = none
  Patience = 2
  MinDelta = 1
  Minimise = TRUE
  CheckFinite = FALSE
  Goal = 0
  Divergence = 8
  Infinity = 100
  MaxEpoch = 2
  Steps = {1, 2}
  Reported = {2}
  MaxToKeep = 2
  LowestBest = TRUE
INVARIANTS RefusedUntouched
