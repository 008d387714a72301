SPECIFICATION Spec
CHECK_DEADLOCK FALSE
CONSTANT Count = 3
INVARIANTS
  TypeOK
  ListIsRing
  EveryProcessListed
  OnlyKnownFaults
