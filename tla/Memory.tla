------------------------------- MODULE Memory -------------------------------
(***************************************************************************)
(* The kernel's memory side by side: the heap, page frames, page tables,   *)
(* the ELF loader, the memory of processes and the copies between kernel   *)
(* and user.  Each has its own state; the initial state chooses the part   *)
(* that moves; the others stay as they started, so the states add up       *)
(* instead of multiplying.                                                 *)
(***************************************************************************)
EXTENDS MemoryCore

CONSTANTS
  TableFrames, Top, RootFan, Fan, RetireMax, Cpus, MaxSpaces,        \* PageTables
  MapRanges, BootTables,
  CopyPage, CopyPages, CopyFrames, Lengths, EventSize, MaxEvents,    \* UserCopy
  Stores,
  Image, HeapBase, HeapEnd, ShmBase, ShmEnd, MaxRefs, MaxAttached,   \* UserMemory,
  MaxAttach, MaxPages, PageCounts,
  UserProcs, UserFrames, UserSegments, UserShmid,                    \* two processes
  FamilyProcs, FamilyFrames, FamilySegments, FamilyShmid             \* and more of them

VARIABLES
  tables, spaces, cr3, cached, op,                                   \* PageTables
  pte, data, other, kept, call, events,                              \* UserCopy
  task, segments, next_shmid, refs, kop                              \* UserMemory

tableVars == <<tables, spaces, cr3, cached, op>>
copyVars == <<pte, data, other, kept, call, events>>
userVars == <<task, segments, next_shmid, refs, kop>>

Tables == INSTANCE PageTables WITH
  mem <- tables, FrameCount <- TableFrames, Ranges <- MapRanges

Copy == INSTANCE UserCopy WITH
  PageSize <- CopyPage, PageCount <- CopyPages, FrameCount <- CopyFrames

User == INSTANCE UserMemory WITH
  refcounts <- refs, Sizes <- PageCounts, Procs <- UserProcs, Frames <- UserFrames,
  MaxSegments <- UserSegments, MaxShmid <- UserShmid

Family == INSTANCE UserMemory WITH
  refcounts <- refs, Sizes <- PageCounts, Procs <- FamilyProcs, Frames <- FamilyFrames,
  MaxSegments <- FamilySegments, MaxShmid <- FamilyShmid

ASSUME TablesAssumption == Tables!FanAssumption /\ Tables!RetireAssumption /\ Tables!BootAssumption
ASSUME UserAssumption ==
  Copy!SizeAssumption /\ User!AreaAssumption /\ Family!AreaAssumption
-----------------------------------------------------------------------------
MemoryInit ==
  /\ part \in {"frames", "tables", "heap", "elf", "copy", "user", "family"}
  /\ Init
  /\ Physical!Init /\ (part # "frames" => map = IdleMap)
  /\ Tables!Init /\ Elf!Init
  /\ Copy!Init /\ (part # "copy" => \A p \in DOMAIN pte : pte[p] = "none")
  /\ IF part = "family" THEN Family!Init ELSE User!Init

MemoryNext ==
  /\ UNCHANGED part
  /\ \/ part = "heap" /\ Next /\ UNCHANGED <<frameVars, tableVars, elfVars, copyVars, userVars>>
     \/ part = "frames" /\ Physical!Next /\ UNCHANGED <<vars, tableVars, elfVars, copyVars, userVars>>
     \/ part = "tables" /\ Tables!Next /\ UNCHANGED <<vars, frameVars, elfVars, copyVars, userVars>>
     \/ part = "elf" /\ Elf!Next /\ UNCHANGED <<vars, frameVars, tableVars, copyVars, userVars>>
     \/ part = "copy" /\ Copy!Next /\ UNCHANGED <<vars, frameVars, tableVars, elfVars, userVars>>
     \/ part = "user" /\ User!Next /\ UNCHANGED <<vars, frameVars, tableVars, elfVars, copyVars>>
     \/ part = "family" /\ Family!Next /\ UNCHANGED <<vars, frameVars, tableVars, elfVars, copyVars>>

MemorySpec ==
  MemoryInit /\ [][MemoryNext]_<<part, vars, frameVars, tableVars, elfVars, copyVars, userVars>>

-----------------------------------------------------------------------------
(* vmm.c: every table hangs in one place and none that a CPU may walk is   *)
(* recycled; the kernel half stays the kernel's; no empty table is left,   *)
(* and a mapping that fails leaves the trees as they were.                 *)
TablesSafe == part = "tables" => Tables!Safety

(* uaccess.c, cow.c, syscall.c: a call stores a prefix and all of it on    *)
(* success, never into the forked process, and never stops the kernel; a   *)
(* prepared range stays writable; an event leaves the ring only when the   *)
(* user has it.                                                            *)
CopiesSafe == [](part = "copy" => Copy!Safety) /\ Copy!EventDelivered

(* user_memory.c, shm.c, cow.c: a frame's count is the number of its       *)
(* owners also half way through an operation and after one that failed;    *)
(* what is mapped is owned, what is writable has one owner, a segment that *)
(* nobody is attached to has a creator to release it, and the search finds *)
(* the first range that fits with its guard.                               *)
SharingSafe ==
  /\ part = "user" => User!Safety
  /\ part = "family" => Family!Safety
=============================================================================
