SPECIFICATION FairSpec
CONSTANTS
    N = 1
    MaxLines = 0
    Detaches = TRUE
    Crashes = FALSE
PROPERTIES
    BudgetEndsTask
