------------------------------ MODULE Services ------------------------------
(***************************************************************************)
(* What programs use, side by side: files and their listings, the block    *)
(* cache, the key store, the event ring and the input decoders.  Each has  *)
(* its own state; the initial state chooses the part that moves, and the   *)
(* others stay as they started.                                            *)
(***************************************************************************)
EXTENDS Ring

CONSTANTS
  Procs, Archive, Cells, Zero, Junk, Absent, MaxFds, InitialCap, Chunk,   \* FileTable
  FileNames, MaxFiles, MaxSize, FileCounts,             \* for contents
  ListingNames, ListingFiles, ListingSize,              \* for listings
  CacheNames, Tag(_), Size(_), Hash(_, _), Buckets, MaxBlocks, BlockSize, \* BlockCache
  CacheCounts,
  KeyNames, Passphrases, Values, Capacities, MaxEntries, MaxValue, Block, \* KeyStore
  Garbage,
  KeyReports, Packets, NoisyReports, NoisyPackets, InputRoom    \* Input

VARIABLES
  part,
  files, fds, alive,                                                  \* FileTable
  pool, hash_table, lru, free_hint, used_blocks, rd,                  \* BlockCache
  entries, master_key, initialized, result,                           \* KeyStore
  kbd, mouse, mouse_present, noise, packet, pause_bytes,              \* Input
  extended_key, shift_pressed, caps_lock_active, inputs, chars

fileVars == <<files, fds, alive>>
cacheVars == <<pool, hash_table, lru, free_hint, used_blocks, rd>>
keyVars == <<entries, master_key, initialized, result>>
inputVars == <<kbd, mouse, mouse_present, noise, packet, pause_bytes, extended_key,
               shift_pressed, caps_lock_active, inputs, chars>>

Files == INSTANCE FileTable WITH
  Names <- FileNames, Values <- Cells, Counts <- FileCounts, Listers <- {}

Listing == INSTANCE FileTable WITH
  Names <- ListingNames, Values <- Cells, MaxFiles <- ListingFiles, MaxSize <- ListingSize,
  Counts <- {}, Listers <- Procs

Cache == INSTANCE BlockCache WITH Names <- CacheNames, Counts <- CacheCounts

Keys == INSTANCE KeyStore WITH Names <- KeyNames

Input == INSTANCE Input WITH events <- inputs, Room <- InputRoom

ASSUME FilesAssumption == Files!SizeAssumption /\ Listing!SizeAssumption
ASSUME CacheAssumption == Cache!CacheAssumption
ASSUME KeysAssumption == Keys!KeyAssumption
ASSUME InputAssumption == Input!ReportAssumption
-----------------------------------------------------------------------------
ServicesInit ==
  /\ part \in {"ring", "files", "listing", "cache", "keys", "input"}
  /\ Init /\ Cache!Init /\ Keys!Init
  /\ IF part = "listing" THEN Listing!Init ELSE Files!Init
  /\ Input!Init /\ (part # "input" => mouse_present /\ noise)

ServicesNext ==
  /\ UNCHANGED part
  /\ \/ /\ part = "ring" /\ Next
        /\ UNCHANGED <<fileVars, cacheVars, keyVars, inputVars>>
     \/ /\ part = "files" /\ Files!Next
        /\ UNCHANGED <<vars, cacheVars, keyVars, inputVars>>
     \/ /\ part = "listing" /\ Listing!Next
        /\ UNCHANGED <<vars, cacheVars, keyVars, inputVars>>
     \/ /\ part = "cache" /\ Cache!Next
        /\ UNCHANGED <<vars, fileVars, keyVars, inputVars>>
     \/ /\ part = "keys" /\ Keys!Next
        /\ UNCHANGED <<vars, fileVars, cacheVars, inputVars>>
     \/ /\ part = "input" /\ Input!Next
        /\ UNCHANGED <<vars, fileVars, cacheVars, keyVars>>

ServicesSpec ==
  ServicesInit
  /\ [][ServicesNext]_<<part, vars, fileVars, cacheVars, keyVars, inputVars>>

-----------------------------------------------------------------------------
(* tmpfs.c, vfs.c: slots, buffers and stale descriptors implement a store  *)
(* of named files (FileStore); a listing returns every file present from   *)
(* its beginning to its end once, whatever is created and deleted          *)
(* meanwhile.                                                              *)
FilesSafe ==
  /\ [](part = "files" => Files!Safety)
  /\ [](part = "listing" => Listing!Safety)
  /\ Files!Store!Init
  /\ [][part = "files" => [Files!Store!Next]_(Files!Stored)]_fileVars

(* cache.c: pool, chains and LRU list agree in every state, no block is    *)
(* cached twice, and a read returns the file's own bytes.                  *)
CacheSafe == part = "cache" => Cache!Safety

(* keystore.c: slots, searches and encryption implement a map (KeyMap).    *)
KeysSafe == Keys!KeysSafe

(* keyboard.c, ps2.c: the last byte of an undamaged report, and no other   *)
(* byte, yields its event, however the bytes of the devices mix and        *)
(* whatever is damaged before it; no shift state is left behind when both  *)
(* shift keys are up.                                                      *)
InputSafe ==
  /\ [](part = "input" => Input!Safety)
  /\ Input!OneEventPerReport
=============================================================================
