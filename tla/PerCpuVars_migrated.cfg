SPECIFICATION Spec
CHECK_DEADLOCK FALSE
CONSTANTS
  cpu0 = cpu0
  cpu1 = cpu1
  Cpus <- TwoCpus
INVARIANT UpdatesOneCpuOnly
