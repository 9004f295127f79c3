SPECIFICATION AnySpec
CONSTANTS
  LEVEL_ONE = 2
  MaxPages = 4
  MaxBlocks = 12
  MaxTxns = 2
  Payload = {1}
  Value <- Contents4
  Zero <- Cleared
PROPERTIES
  CommittedUntouched
