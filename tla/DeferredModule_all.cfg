SPECIFICATION Spec
CHECK_DEADLOCK FALSE
CONSTANT Files <- AllFiles
INVARIANTS
  OnlyKnownFaults
  OneShot
PROPERTIES
  KeepsLifetime
  CallbackIsCalled
  ExitCompletes
