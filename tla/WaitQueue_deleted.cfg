SPECIFICATION Spec
CHECK_DEADLOCK FALSE
CONSTANT Limit = 2
INVARIANT TimerIsDeleted
