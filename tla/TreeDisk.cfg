SPECIFICATION TreeSpec
CONSTANTS
  NBLOCKS = 10
  REFS_PER_BLOCK = 2
  INODES_PER_BLOCK = 2
  NINODES = 2
  BITS = 8
  Data <- Blocks
  Null = Null
  MaxOffset = 4
INVARIANT BlocksAccountedFor
PROPERTY StoresFiles
CHECK_DEADLOCK FALSE
