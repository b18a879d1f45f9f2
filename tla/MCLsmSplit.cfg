SPECIFICATION SmallSpec
CONSTANTS
  NULL = NULL
  kNumLevels = 4
  kL0_CompactionTrigger = 2
  kMaxMemCompactLevel = 2
  kTargetFileSize = 1
  kMaxGrandParentOverlapBytes = 2
  kExpandedCompactionByteSizeLimit = 5
  MaxBytesBase = 1
  MaxBytesFactor = 2
  SeekBytes = 4
  MinSeeks = 1
  Key = {1, 2}
  Types = {0, 1}
  WriteBuffer = 1
  kL0_StopWritesTrigger = 3
  Ranges <- MCRanges
  MaxWrites = 4
  MaxSnapshots = 1
  MaxExtras = 0
CHECK_DEADLOCK FALSE
INVARIANT ReadsLatest
