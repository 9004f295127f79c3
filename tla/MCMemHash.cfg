SPECIFICATION OrderedSpec
CONSTANTS
  Width = 256
  Key = {1, 2, 3, 4}
  Value = {0, 1}
  HashValue = {0, 1, 21, 91, 252, 255}
INVARIANTS
  HashTypeOK
  SearchesEnd
PROPERTIES
  ImplementsMap
