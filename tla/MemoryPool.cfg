CONSTANTS
  BlockSize = 8
  SlotSize = 3
  PtrSize = 1
  Blocks = {b1, b2}
  Element = {e}
  NULL = NULL
  JUNK = JUNK
SPECIFICATION Spec
INVARIANTS
  TypeOK
  SlotsApart
  FreeListExact
  BlockListExact
PROPERTY NewBlockOnlyWhenFull
CHECK_DEADLOCK FALSE
