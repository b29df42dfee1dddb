CONSTANTS
  BlockSize = 8
  SlotSize = 3
  PtrSize = 1
  Blocks = {b1, b2}
  Data = {d1, d2}
  NULL = NULL
  JUNK = JUNK
  EMPTY = EMPTY
  NONE = NONE
  MaxThrows = 2
SPECIFICATION FairSpec
INVARIANTS
  OnlyThrowsLeak
PROPERTIES
  RefinesLifo
  RefinesPool
  DestructorFreesAll
CHECK_DEADLOCK FALSE
