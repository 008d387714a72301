SPECIFICATION Spec
CHECK_DEADLOCK FALSE
CONSTANTS
  c1 = c1
  c2 = c2
  c3 = c3
  Consumers <- ThreeConsumers
INVARIANTS
  OnlyLoadedIsCalled
  EveryoneIsTold
  InitAndExitReachNobody
PROPERTIES
  FlagsAlternate
  KeepsLifetime
  ConsumersAreNotified
  ExitCompletes
