SPECIFICATION BoundedSpec
CONSTANTS
  N = 2
  v1 = v1
  f1 = f1
  f2 = f2
  Vas = {v1}
  Frames = {f1, f2}
  None = None
  VmmLockHeld = {TRUE, FALSE}
  MaxRefs = 2
  MaxDepth = 2
  MaxSeq = 3
  Drivers = {0, 1}
INVARIANTS
  TypeOK
  NoStaleTranslation
  FrameOwned
  CowIsolation
  MutualExclusion
  NoWaitCycle
PROPERTY
  Acked
