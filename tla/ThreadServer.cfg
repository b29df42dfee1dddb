CONSTANTS
  Conns = {c1, c2}
  MaxBytes = 1
  BUFFSIZE = 1
  SendRoom = 1
  Fds = {4, 5}
  NONE = NONE
  MaxThreads = 3
  OtherFailures = TRUE
SPECIFICATION FairSpec
INVARIANTS
  NoByteTwice
  IntactUnlessShared
PROPERTY ConnectionsReleased
CHECK_DEADLOCK FALSE
