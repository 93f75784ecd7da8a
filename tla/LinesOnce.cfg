SPECIFICATION TrackSpec
CONSTANTS
  Loggers = {"l1", "l2"}
  LoggerNames = {"a", "a.b"}
  Parents <- MCParents
  MaxRows = 2
  MaxSeconds = 1
  MaxRuns = 1
INVARIANTS LinesOnce
CHECK_DEADLOCK FALSE
