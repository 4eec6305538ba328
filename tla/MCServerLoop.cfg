CONSTANTS
  c1 = c1  c2 = c2  c3 = c3
  Clients = {c1, c2, c3}
  Limit = 2
  MaxCmd = 2
  OutLimit = 2
  Chunk = 2
  WireSize = 2
  Configs <- MCConfigs
SPECIFICATION Spec
INVARIANTS
  SessionsBounded
  NoStandstill
PROPERTIES
  
  Ends
CHECK_DEADLOCK FALSE
