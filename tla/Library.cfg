SPECIFICATION LibrarySpec
CONSTANTS
  NaN = nan
  None = none
  Patience = 2
  MinDelta = 1
  Minimise = TRUE
  CheckFinite = FALSE
  Goal = 0
  Divergence = 8
  Infinity = 100
  MaxEpoch = 4
  Steps = {1, 2, 3, 4}
  Reported = {0, 2, 3, 5, 9, nan, none}
  MaxToKeep = 2
  LowestBest = TRUE
  RecThreads = {"main", "early", "late"}
  Main = "main"
  Early = {"early"}
  Items <- MCItems
  Raising <- MCRaising
  Roots <- MCRoots
  Skipped <- MCSkipped
  Named = {"sub"}
  Keys = {"lib", "sub", "sub:f", "other"}
  Depth = 2
  ToolIds = 2
  MaxItems = 2
  Shells = {s1, s2}
  Runs = {r1}
  Scripts <- MCScripts
  Dotted <- MCDotted
  Private = {"_c"}
  Tables <- MCTables
  NoValue = novalue
  MaxDevices = 130
  MaxLayers = 7
  MeshAxes = {"data", "fsdp", "model", "other"}
  TensorNames = {"batch", "hidden", "in_features"}
  MaxTogether = 3
  Refused = refused
  Loggers = {"l1", "l2"}
  LoggerNames = {"a"}
  Parents <- MCParents
  MaxRows = 4
  MaxSeconds = 2
  MaxRuns = 2
  ArrayItems = {"model", "rng"}
  Classes = {"EarlyStoppingCallback", "EarlyStopping", "BestMetricTracker"}
  StateKeys <- MCStateKeys
  MaxCallbacks = 2
  Values = {"unset", "cpu", "gpu", "on", "off", "0.75", "0.5", "0", "2", "8"}
  Runtimes <- MCRuntimes
  Environments <- MCEnvironments
  Updates <- MCUpdates
  MaxBlocks = 1
INVARIANTS
  ResumedLikeUninterrupted BestAndBadEpochs StopIsDue SavedIsThere BestUnlessNaN
  CountsExact LeavesNothingBehind
  PrintedIsFound EachScriptOnce
  PlanFitsDevices SpecsSettled PlacedAsAsked
  ScalarsLand RestoredAsSaved AppliedAsAsked ChildAsAsked
PROPERTIES ExitZeroIsTrue
CHECK_DEADLOCK FALSE
