SPECIFICATION Spec
CHECK_DEADLOCK FALSE
CONSTANT Limit = 2
INVARIANTS
  TypeOK
  WakeUpReachesWaiter
  OnlyRacedTimerSurvives
PROPERTY InitReturns
