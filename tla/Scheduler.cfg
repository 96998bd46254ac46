SPECIFICATION LiveSpec
CONSTANTS
  N = 3
  Boost = 2
  Base <- MCBase
  Nices <- MCNices
  MaxSleep = 1
INVARIANT TypeOK
PROPERTIES
  OvertakenOnce
  StarvationFree
