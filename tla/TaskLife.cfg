SPECIFICATION Spec
CONSTANTS
  Cpus <- MCCpus
  Bsp = 0
  MaxPid = 4
  MaxKernel = 2
  Targets = {3}
INVARIANTS
  TypeOK
  KernelStackPinned
  AddressSpacePinned
  StackExclusive
  NoLostWakeup
  WaitReturnsAfterDeath
  ThreadCountExact
PROPERTY DeadStaysDead
