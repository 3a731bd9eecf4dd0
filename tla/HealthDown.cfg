SPECIFICATION FairSpec
CONSTANTS
  t1 = t1
  Targets <- One
  Checkers = {k1}
  Visitors = {p1}
  Conns = 2
  Edits = 1
  Buffer = 1
  Copies = 2
  MaxFail = 2
  Nil = nil
CHECK_DEADLOCK FALSE
INVARIANTS TypeOK
PROPERTIES DownIsTakenOut RecoveredIsUsed
