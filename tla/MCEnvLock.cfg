SPECIFICATION MCSpec
CONSTANTS
  Process <- MCProcess
  Thread <- MCThread
  ProcessOf <- MCProcessOf
  NULL = NULL
CHECK_DEADLOCK FALSE
INVARIANT Exclusive
