SPECIFICATION Spec
CONSTANTS
  Ids = {i1,i2}
  Known = {i1}
  PubIds = {i1}
  Conns = {c1,c2}
  Kinds = {"main","chan","file","config"}
  Admins = {a1}
  Ping = ping
  None = none
  RetryLimit = 1
SYMMETRY Symmetric
INVARIANTS TypeOK SignalIsWatched TemporaryIsCollected
PROPERTIES ImplementsSessions
