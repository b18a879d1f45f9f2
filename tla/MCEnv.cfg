SPECIFICATION MCSpec
CONSTANTS
  Process <- MCProcess
  Thread <- MCThread
  ProcessOf <- MCProcessOf
  NULL = NULL
CHECK_DEADLOCK FALSE
INVARIANTS
  OnceInProcess
  LockKept
  SlotsExact
  NamedTablesSurvive
  
  AddedFound
PROPERTIES
  EachRuns
  ImplementsLru
