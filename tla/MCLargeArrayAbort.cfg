SPECIFICATION OldPagesSpec
CONSTANTS
  LEVEL_ONE = 4
  ITEM = 5
  MaxPages = 5
  MaxItems = 5
  MaxBlocks = 14
  MaxTxns = 2
  Payload = {1, 2}
  Value <- Contents8
  Zero <- Cleared
PROPERTIES
  SavedItemsKept
\* A process that has died takes no step.
CHECK_DEADLOCK FALSE
