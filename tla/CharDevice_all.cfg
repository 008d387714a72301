SPECIFICATION Spec
CHECK_DEADLOCK FALSE
CONSTANTS
  u1 = u1
  u2 = u2
  Users <- TwoUsers
  DataLimit = 3
  Nul = Nul
INVARIANTS
  TypeOK
  LeavesNothingBehind
  BytesSurvive
  OnlyKnownFaults
PROPERTY KeepsLifetime
