CONSTANTS
  Owners = {"o1", "o2", "o3"}
  Sizes = {1, 3, 6} Align = 2 HeaderSize = 2 InitialSize = 10 GrowSize = 6 MaxGrows = 2
  Maps <- MCMaps IdleMap <- SmallMap FramePage = 16 Reserved = 3 Counts = {0, 1, 2, 3} None = None
  TableFrames = 7 Top = 2 RootFan = 4 Fan = 2 RetireMax = 2 Cpus = {0} MaxSpaces = 2
  MapRanges <- MCRanges BootTables <- MCBootTables
  FileHeaders <- MCHeaders Phdrs <- MCPhdrs ElfPage = 2 ElfUserEnd = 16 ElfWord = 32
  EhdrSize = 1 PhdrSize = 1 SectionSize = 1 MaxPhdrs = 3 MaxSections = 3
  StackBase = 10 StackPages = 1 ElfPages = 4 InlinePages = 2 ElfFrames = 4
  CopyPage = 2 CopyPages = 2 CopyFrames = 3 Lengths = {1, 3} EventSize = 2 MaxEvents = 1 Stores = {0}
  Image <- MCImage HeapBase = 2 HeapEnd = 8 ShmBase = 8 ShmEnd = 12
  MaxRefs = 2 MaxAttached = 4 MaxAttach = 2 MaxPages = 4 PageCounts = {1, 2}
  UserProcs = {"p1", "p2"} UserFrames = {f1, f2, f3, f4} UserSegments = 1 UserShmid = 1
  FamilyProcs = {"p1", "p2", "p3"} FamilyFrames = {f1, f2, f3} FamilySegments = 2 FamilyShmid = 2
  f1 = f1 f2 = f2 f3 = f3 f4 = f4
SPECIFICATION MemorySpec
SYMMETRY Symmetric
INVARIANTS TablesSafe HeapSafe ImageSafe SharingSafe
PROPERTIES FramesSafe CopiesSafe
CHECK_DEADLOCK FALSE
