SPECIFICATION Spec
CONSTANTS
  Cpus <- MCCpus
  Bsp = 0
  MaxPid = 3
  MaxKernel = 1
  Targets = {3}
INVARIANT LeaderExitKillsGroup
