SPECIFICATION Spec
CONSTANTS
  F = 2
  MaxVersion = 2
  Removes = TRUE
  Fetchers = {f1}
INVARIANTS ReceiptIsSnapshot
PROPERTIES ReceiptMatchesTarget RecoveryLasts
