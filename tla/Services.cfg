CONSTANTS
  p1 = p1 p2 = p2
  Absent = Absent None = None Garbage = Garbage
  Items = {1, 2, 3} Capacity = 4 MaxDropped = 2
  Procs = {p1, p2} Archive <- MCArchive Cells = {"x"} Zero = "zero" Junk = "junk"
  MaxFds = 1 InitialCap = 1 Chunk = 1
  FileNames = {"a", "t"} MaxFiles = 2 MaxSize = 2 FileCounts = {2}
  ListingNames = {"a", "b", "t"} ListingFiles = 3 ListingSize = 1
  CacheNames = {"f", "g"} Tag <- MCTag Size <- MCSize Hash <- MCHash Buckets = {0, 1}
  MaxBlocks = 3 BlockSize = 2 CacheCounts = {1, 3}
  KeyNames = {"k1", "k2", "k3"} Passphrases = {"x", "y"} Values <- MCValues
  Capacities = {3, 4, 8, 9} MaxEntries = 2 MaxValue = 8 Block = 4
  KeyReports <- MCKeyReports Packets <- MCPackets
  NoisyReports <- MCNoisyReports NoisyPackets <- MCNoisyPackets InputRoom = 1
SPECIFICATION ServicesSpec
SYMMETRY Symmetric
INVARIANTS CacheSafe
PROPERTIES RingSafe FilesSafe KeysSafe InputSafe
