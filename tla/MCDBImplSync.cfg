SPECIFICATION Spec
CONSTANTS
  NULL = NULL
  Thread = {t1, t2}
  WriteBuffer = 1
  MaxGroup = 2
  kL0_CompactionTrigger = 2
  kL0_StopWritesTrigger = 2
  Modes <- FreshOnly
  FaultKinds = {}
INVARIANT SyncCoversEarlier
CHECK_DEADLOCK FALSE
