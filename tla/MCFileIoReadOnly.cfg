SPECIFICATION CallersSpec
CONSTANTS
  Callers = {"any"}
  File = {f1, f2}
  Db = {d1, d2}
  NULL = NULL
  Fd = {0, 1, 2}
  Width = 7
  DiskSize = 8
PROPERTIES
  ReadOnlyRefuses
