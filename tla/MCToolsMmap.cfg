SPECIFICATION MCSpec
CONSTANT NULL = NULL
INVARIANT LaggardInWindow
CHECK_DEADLOCK FALSE
