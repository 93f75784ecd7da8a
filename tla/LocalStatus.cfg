SPECIFICATION LocalSpec
CONSTANTS
    N = 2
    MaxLines = 0
    Detaches = FALSE
    Crashes = TRUE
    Pollers = {p1}
    Followers = {}
    Cancellers = {k1}
PROPERTIES
    ReplyTrue
    NoWayBack
    KeepsVerdict
