CONSTANTS
  Conns = {c1, c2}
  MaxBytes = 2
  BUFFSIZE = 1
  SendRoom = 1
  Parent = Parent
  Serv = Serv
SPECIFICATION FairSpec
INVARIANTS
  TypeOK
  Isolated
  ZombiesAccounted
PROPERTIES
  RefinesEcho
  ConnectionsReleased
  EverythingEchoed
CHECK_DEADLOCK FALSE
