SPECIFICATION FairSpec
CONSTANTS
  MaxId = 3
  Clients = {c1}
  Reqs = {r1}
  Ops = {"Add","Edit","Rename","Del","Move","MoveClient","ClientAdd","ClientEdit","ClientDel","Restart"}
  None = none
  Serial = TRUE
INVARIANTS TypeOK StaysForest
PROPERTIES Answered
