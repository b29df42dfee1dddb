CONSTANTS
  Publishers = {p1}
  Subscribers = {s1}
  MaxMessages = 2
SPECIFICATION FairSpec
INVARIANTS
  SetUpFirst
  ContextLives
  ToldInOrder
PROPERTY CommandsExecuted
CHECK_DEADLOCK FALSE
