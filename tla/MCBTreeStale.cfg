SPECIFICATION CallersSpec
CONSTANTS
  Callers = {"pops once"}
  SIZE = 8
  MaxBlocks = 20
  Room = 1
  MaxCommits = 0
  Key = {1, 2, 3, 4, 5, 6, 7, 8, 9, 10, 11, 12, 13, 14, 15, 16, 17, 18, 19, 20, 21, 22, 23, 24, 25, 26, 27, 28, 29, 30}
  Value = {1}
INVARIANTS
  PointersAreFresh
\* The caller stops.
CHECK_DEADLOCK FALSE
