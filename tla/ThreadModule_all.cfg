SPECIFICATION Spec
CHECK_DEADLOCK FALSE
CONSTANT VarMod = 3
INVARIANTS
  MutualExclusion
PROPERTIES
  ReadIsCurrent
  KeepsLifetime
  ExitCompletes
