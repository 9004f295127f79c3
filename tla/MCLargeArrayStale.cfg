SPECIFICATION InTxnSpec
CONSTANTS
  LEVEL_ONE = 4
  ITEM = 3
  MaxPages = 3
  MaxItems = 3
  MaxBlocks = 14
  MaxTxns = 2
  Payload = {1, 2}
  Value <- Contents8
  Zero <- Cleared
INVARIANTS
  StaysAlive
