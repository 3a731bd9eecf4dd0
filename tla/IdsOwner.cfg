SPECIFICATION Spec
CONSTANTS
  MaxClient = 3
  MaxTask = 2
  MaxBirth = 5
  Reqs = {r1,r2}
  PublicKey = TRUE
  None = none
CHECK_DEADLOCK FALSE
INVARIANTS TypeOK TaskKeepsOwner
PROPERTIES NeverOverwritten
