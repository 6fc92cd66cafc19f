SPECIFICATION Spec
CONSTANTS
  FlushOrder <- TwoTables
  Threads = {w1, w2}
  MaxRows = 2
  MaxFailures = 0
  LinkMayBreak = FALSE
  RacyLists = TRUE
  SignalSplits = FALSE
INVARIANTS
  NoRowDropped
CHECK_DEADLOCK FALSE
