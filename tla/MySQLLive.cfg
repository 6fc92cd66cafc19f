SPECIFICATION FairSpec
CONSTANTS
  FlushOrder <- OneTable
  Threads = {w1, w2}
  MaxRows = 3
  MaxFailures = 2
  LinkMayBreak = TRUE
  RacyLists = FALSE
  SignalSplits = FALSE
INVARIANTS
  AtMostOnce
  OrderUnlessRetried
PROPERTIES
  LedgerImplemented
  Delivered
CHECK_DEADLOCK FALSE
