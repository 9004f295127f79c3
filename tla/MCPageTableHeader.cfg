SPECIFICATION CarefulSpec
CONSTANTS
  LEVEL_ONE = 2
  MaxPages = 7
  MaxBlocks = 20
  MaxTxns = 1
  Payload = {1}
  Value <- Contents4
  Zero <- Cleared
INVARIANTS
  TableIsWhole
