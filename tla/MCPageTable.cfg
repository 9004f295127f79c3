SPECIFICATION CarefulSpec
CONSTANTS
  LEVEL_ONE = 2
  MaxPages = 5
  MaxBlocks = 14
  MaxTxns = 2
  Payload = {1}
  Value <- Contents4
  Zero <- Cleared
INVARIANTS
  TableIsWhole
  CommitFreesNoPage
PROPERTIES
  ImplementsListStore
  CommittedUntouched
