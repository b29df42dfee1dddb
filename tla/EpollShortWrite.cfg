CONSTANTS
  Conns = {c1, c2}
  MaxBytes = 3
  BUFFSIZE = 1
  SendRoom = 1
  Fds = {4, 5}
  Serv = 3
  NONE = NONE
  EpollSize = 2
SPECIFICATION Spec
INVARIANT ReturnsWhatItRead
CHECK_DEADLOCK FALSE
