SPECIFICATION FairSpec
CONSTANTS
  MaxLines = 1
  Pollers = {p1}
  Followers = {p1}
  Cancellers = {c1}
PROPERTIES FailedHasEnded
