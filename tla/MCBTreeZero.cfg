SPECIFICATION CallersSpec
CONSTANTS
  Callers = {"any"}
  SIZE = 8
  MaxBlocks = 8
  Room = 20
  MaxCommits = 0
  Key = {0, 1, 2, 3}
  Value = {1}
VIEW CallersView
INVARIANTS
  PopsEntries
