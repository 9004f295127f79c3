SPECIFICATION CallersSpec
CONSTANTS
  Callers = {"careful", "commits"}
  SIZE = 8
  MaxBlocks = 12
  Room = 20
  MaxCommits = 1
  Key = {1, 2, 3, 4, 5, 6, 7, 8, 9, 10}
  Value = {1}
VIEW CallersView
INVARIANTS
  SearchTree
  SearchesFind
  NothingLeaks
PROPERTIES
  ImplementsKeyStore
