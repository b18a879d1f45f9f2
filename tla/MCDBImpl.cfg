SPECIFICATION FairSpec
CONSTANTS
  NULL = NULL
  Thread = {t1, t2}
  WriteBuffer = 1
  MaxGroup = 2
  kL0_CompactionTrigger = 2
  kL0_StopWritesTrigger = 2
  Modes <- MCModes
  FaultKinds = {"newlog", "append", "sync", "table", "manifest"}
INVARIANTS  RecoverSucceeds PinnedFilesIntact SequenceFresh
PROPERTIES CallsReturn
CHECK_DEADLOCK FALSE
