SPECIFICATION Spec
CHECK_DEADLOCK FALSE
CONSTANTS
  u1 = u1
  u2 = u2
  Users <- TwoUsers
INVARIANT ThreadEndsBeforeUnload
