SPECIFICATION FairSpec
CONSTANTS
  MaxBlocks = 7
  Value = {z, v}
  Zero = z
INVARIANTS
  TypeOK
  BlocksPartitioned
  AbortIsSafe
PROPERTIES
  ImplementsBlockStore
  RecoversFromIoError
