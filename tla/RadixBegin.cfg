CONSTANTS
  Keys <- MCKeys
  Queries <- MCQueries
  Values = {v0}
  Default = v0
  NullNode = NullNode
  ABORT = ABORT
SPECIFICATION TreeSpec
INVARIANT BeginAssertHolds
CHECK_DEADLOCK FALSE
