SPECIFICATION FairSpec
CONSTANTS
  FP_SIZE = 2
  Char <- MCChar
  HASH_SIZE = 2
  ULONG = 64
  LRU_SIZE = 2
  Chunk <- MCChunk
  Sizes = {1, 2}
  MAX_SIZE = 2
  Bits = {0, 1, 2}
  Positions <- MCPositions
  MaxLines = 4
  MaxRuns = 2
  MaxFaults = 0
CHECK_DEADLOCK FALSE
INVARIANTS
  UniqueIsNew
  StoresAgree
PROPERTIES
  StoresInLogicalOrder
  RunCompletes
