SPECIFICATION Spec
CHECK_DEADLOCK FALSE
CONSTANTS
  u1 = u1
  u2 = u2
  Users <- TwoUsers
INVARIANTS
  TypeOK
  UnloadLeavesNoThread
  TaskIsAliveWhenUsed
  FailedLoadReleasesAll
PROPERTIES
  RetriedResumeRuns
  ExitCompletes
  StopEnds
