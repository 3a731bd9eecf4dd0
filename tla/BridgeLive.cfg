SPECIFICATION FairSpec
CONSTANTS
  Ids = {i1}
  Known = {i1}
  PubIds = {}
  Conns = {c1,c2}
  Kinds = {"main","chan"}
  Admins = {}
  Ping = ping
  None = none
  RetryLimit = 3
PROPERTIES DeadSignalReaped DeadTunnelReaped HalfOpenReaped CleanupDelivered
