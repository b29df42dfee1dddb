CONSTANTS
  Conns = {c1, c2}
  Users = {c1}
  MaxBytes = 6
  BUFFSIZE = 3
  SendRoom = 4
  NONE = NONE
SPECIFICATION FairSpec
INVARIANTS
  MessageTerminated
  KilledByOthers
PROPERTIES
  RefinesEcho
  ServedInTurn
  AnswerComes
CHECK_DEADLOCK FALSE
