CONSTANTS
  t1 = t1 t2 = t2
  Tasks = {t1, t2}
  Nobody = Nobody
  MaxId = 2
  MaxWaiters = 1
  Receiving = {t1, t2} Sending = {t1, t2} NetSlots = 1 MaxInits = 2
  Frames = {"f1", "f2"} Size = 4 Slots = 2 IndexMod = 8
  FaultyFrames = {"f1"} FaultySize = 2 FaultySlots = 1
  SharedDevices = {1, 2} SharedIrq <- MCSharedIrq SharedRoutes = 2
  FullDevices = {1, 2} FullIrq <- MCFullIrq FullRoutes = 1
SPECIFICATION DevicesSpec
SYMMETRY Symmetric
INVARIANTS RoutesSafe
PROPERTIES DiskSafe NetSafe QueueSafe
