CONSTANTS
  Conns = {c1, c2}
  MaxBytes = 1
  BUFFSIZE = 1
  SendRoom = 2
  Fds = {4, 5, 6}
  NONE = NONE
  MaxThreads = 2
  OtherFailures = FALSE
SPECIFICATION FairSpec
PROPERTY EverythingEchoed
CHECK_DEADLOCK FALSE
