SPECIFICATION StopSpec
CONSTANTS
    N = 2
    MaxLines = 1
    Detaches = TRUE
    Crashes = TRUE
INVARIANTS
    TasksRunAlone
    ExitLeavesNoTask
    ManifestTrue
    LogsWhole
    FinishedMeansAll
PROPERTIES
    SignalEnds
    JobEnds
