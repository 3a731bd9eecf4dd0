SPECIFICATION Spec
CONSTANTS
  Visitors = {v1,v2}
  c1 = c1
  Clients = {c1}
  MadeFor <- MadeForOne
  Hosts = {h1,h2}
  Asked = {h1,h2}
  Kinds = {"http"}
  MaxConn = 1
  Resets = 1
  None = none
CHECK_DEADLOCK FALSE
SYMMETRY Symmetric
INVARIANTS NowConnSettles
