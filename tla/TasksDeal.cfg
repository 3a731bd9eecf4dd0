SPECIFICATION FairSpec
CONSTANTS
  TaskIds = {t1}
  Temporary = {t1}
  Ports = {80}
  Modes = {"tcp", "udp"}
  Services = {s1,s2,s3}
  Reqs = {r1}
  Deal = deal
  None = none
  Serial = FALSE
CHECK_DEADLOCK FALSE
INVARIANTS FailedNotListed
PROPERTIES DealReturns
