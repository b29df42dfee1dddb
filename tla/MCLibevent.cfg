CONSTANTS
  c1 = c1
  c2 = c2
  Conns = {c1, c2}
  MaxBytes = 2
  BUFFSIZE = 3
  SendRoom = 3
  Prefix = 1
  Nuls <- MCNuls
  LineSize = 2
  ClientBuf = 3
  MaxOrphans = 1
SPECIFICATION FairSpec
INVARIANT NothingElseLost
PROPERTIES
  ShownInTheEnd
  EndsReleased
CHECK_DEADLOCK FALSE
