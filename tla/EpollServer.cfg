CONSTANTS
  Conns = {c1, c2, c3}
  MaxBytes = 1
  BUFFSIZE = 1
  SendRoom = 1
  Fds = {4, 5}
  Serv = 3
  NONE = NONE
  EpollSize = 2
SPECIFICATION FairSpec
INVARIANTS
  NoLostEdge
  NoStaleEvent
PROPERTIES
  RefinesEcho
  ConnectionsReleased
  EverythingEchoed
CHECK_DEADLOCK FALSE
