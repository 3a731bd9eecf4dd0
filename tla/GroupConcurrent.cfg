SPECIFICATION Spec
CONSTANTS
  MaxId = 2
  Clients = {}
  Reqs = {r1,r2}
  Ops = {"Add","Move"}
  None = none
  Serial = FALSE
INVARIANTS Acyclic
