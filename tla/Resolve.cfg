SPECIFICATION Spec
CONSTANTS
  a = a
  b = b
  hole = hole
  Empty = Empty
  Segment = {a, b, hole, Empty}
  Holes = {hole}
  Stem <- MCStem
  Patterns <- MCPatterns
  Paths <- MCPaths
  Rows <- MCRows
  Required <- MCRequired
  MaxEdits = 1
INVARIANT AnswerIsJustified
CHECK_DEADLOCK FALSE
