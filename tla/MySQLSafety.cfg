SPECIFICATION Spec
CONSTANTS
  FlushOrder <- TwoTables
  Threads = {w1, w2}
  MaxRows = 2
  MaxFailures = 0
  LinkMayBreak = TRUE
  RacyLists = TRUE
  SignalSplits = TRUE
INVARIANTS
  TypeOK
  SqlExclusive
  IteratorValid
  NothingLost
  StopHandsOver
SYMMETRY ThreadSymmetry
CHECK_DEADLOCK FALSE
