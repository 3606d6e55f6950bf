CONSTANTS
  Words = {"a", "b"}
  Mixed = {"a#"}
  MaxLen = 4
SPECIFICATION MatchSpec
INVARIANTS InRange ReturnsCovers
PROPERTY Returns
CHECK_DEADLOCK FALSE
