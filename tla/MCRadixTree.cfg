CONSTANTS
  Keys <- MCKeys
  Queries <- MCQueries
  Values = {v0, v1}
  Default = v0
  NullNode = NullNode
  ABORT = ABORT
SPECIFICATION TreeSpec
INVARIANTS
  WellLinked
  Compressed
  MatchesCorrect
  OnlyBeginAborts
PROPERTY RefinesMap
CHECK_DEADLOCK FALSE
