SPECIFICATION LiveSpec
PROPERTIES
  Reclaimed
  WaiterWakes
