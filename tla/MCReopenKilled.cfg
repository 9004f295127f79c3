SPECIFICATION KilledFewSpec
CONSTANTS
  MaxBlocks = 11
  Value <- ArrayValue
  Zero <- Empty
  Handle = {h1}
  NULL = NULL
  Item = {1}
  ObjId = {0}
  Index = {0}
  TxnIdMax = 3
  MaxLength = 2
INVARIANTS
  OpensWhole
