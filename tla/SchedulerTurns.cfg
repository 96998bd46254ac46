SPECIFICATION TurnsSpec
CONSTANTS
  N = 3
  Boost = 20
  Base <- MCBase
  Nices = {}
  MaxSleep = 1
PROPERTY EqualTurns
