SPECIFICATION MCSpec
CONSTANTS
  NULL = NULL
  Garbage = Garbage
INVARIANTS
  HandlesAlive
  NothingSkipped
  PiecesDisjoint
  ShowsSnapshot
  LogReadsBack
  
  RecordsDecode
  NothingForgotten
CHECK_DEADLOCK FALSE
