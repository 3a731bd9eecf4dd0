SPECIFICATION LimitsSpec
CONSTANTS
  Visitors = {v1,v2}
  c1 = c1
  Clients = {c1,c2}
  MadeFor <- MadeForOne
  Hosts = {h1,h2}
  Asked = {h1,h2}
  Kinds = {"tcp","udp","http","secret"}
  MaxConn = 1
  Resets = 1
  None = none
  Runs = {ticker,web}
  Ticker = ticker
  Limit = 1
  MaxUsed = 1
  NoClient = none
CHECK_DEADLOCK FALSE
INVARIANTS LimitsTypeOK NowConnIsCount TcpCountIsExact NoSlotLost NeverOvercounted
PROPERTIES ExcessIsSeen
