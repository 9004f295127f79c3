SPECIFICATION CallersSpec
CONSTANTS
  Callers = {"careful"}
  SIZE = 8
  MaxBlocks = 8
  Room = 20
  MaxCommits = 0
  Key = {1, 2, 3, 4, 5, 6, 7, 8, 9, 10, 11}
  Value = {1}
VIEW CallersView
PROPERTIES
  PopGivesValue
