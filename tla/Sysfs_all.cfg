SPECIFICATION Spec
CHECK_DEADLOCK FALSE
CONSTANTS
  u1 = u1
  u2 = u2
  Users <- TwoUsers
  Length = 3
  Values <- ThreeValues
INVARIANTS
  TypeOK
  LeavesNothingBehind
  OnlyKnownFaults
PROPERTY PollIsRight
