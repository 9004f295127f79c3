SPECIFICATION AnySpec
CONSTANTS
  LEVEL_ONE = 2
  MaxPages = 3
  MaxBlocks = 12
  MaxTxns = 2
  Payload = {1}
  Value <- Contents4
  Zero <- Cleared
INVARIANTS
  CommitFreesNoPage
