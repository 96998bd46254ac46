CONSTANTS
  None = None
  Responses <- MCResponses
  MaxCpus = 3
  MaxPlaced = 4
  Caller = t1
  Nobody = Nobody
SPECIFICATION PartsSpec
INVARIANTS Safety
PROPERTIES BootProgress NobodyWaitsForever
CHECK_DEADLOCK FALSE
