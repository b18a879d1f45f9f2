SPECIFICATION MCSpec
CONSTANT NULL = NULL
INVARIANTS
  
  CountsExact
  InferredOnce
  PairedByRank
  
  
  CutAsWhole
  RedBlack
PROPERTIES
  ProgramsEnd
CHECK_DEADLOCK FALSE
