SPECIFICATION Spec
CONSTANTS
  TaskIds = {t1,t2}
  Temporary = {}
  Ports = {80,81}
  Modes = {"tcp", "udp", "secret"}
  Services = {s1,s2,s3}
  Reqs = {r1,r2}
  Deal = deal
  None = none
  Serial = TRUE
CHECK_DEADLOCK FALSE
SYMMETRY Symmetric
INVARIANTS ListenerIsListed DeletedIsDown
