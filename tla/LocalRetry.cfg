SPECIFICATION LocalSpec
CONSTANTS
    N = 1
    MaxLines = 0
    Detaches = FALSE
    Crashes = FALSE
    Pollers = {}
    Followers = {}
    Cancellers = {k1}
PROPERTIES
    CancelStops
