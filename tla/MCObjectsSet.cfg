SPECIFICATION OneHandleSpec
CONSTANTS
  MaxBlocks = 7
  Value <- ArrayValue
  Zero <- Empty
  Handle = {h1, h2}
  NULL = NULL
  Item = {1, 2}
  ObjId = {0, 1}
  Index = {0, 1}
  TxnIdMax = 5
  MaxLength = 2
PROPERTIES
  SetSets
