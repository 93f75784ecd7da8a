SPECIFICATION LocalFairSpec
CONSTANTS
    N = 1
    MaxLines = 1
    Detaches = FALSE
    Crashes = TRUE
    Pollers = {}
    Followers = {f1}
    Cancellers = {k1}
PROPERTIES
    FollowedWhole
    CancelSettles
    FollowEnds
