SPECIFICATION FairSpec
CONSTANTS
  Ids = {i1,i2}
  Writers = {w1,w2}
  Unsaved = {i2}
  Faults = {"crash","panic","rename"}
  MaxVersion = 2
  None = none
  Leaked = leaked
CHECK_DEADLOCK FALSE
INVARIANTS TypeOK FileIsWhole AckedIsDurable
PROPERTIES ImplementsStable StoreReturns
