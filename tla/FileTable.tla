----------------------------- MODULE FileTable ------------------------------
(***************************************************************************)
(* Descriptors, directory listings and the writable file system:           *)
(*   fs/vfs.c           open, read, write, seek, close, readdir            *)
(*   fs/tmpfs.c         named slots with a buffer that grows               *)
(*   cpu/syscall_io.c   user reads and writes in chunks                    *)
(*   kernel/task.c      fork copies the descriptor table                   *)
(*                                                                         *)
(* Every call runs under the mutation lock, from the copy of the name to   *)
(* the result, and is one action.  A cell stands for the bytes between two *)
(* boundaries that the code tells apart.  The contents of archive files    *)
(* are BlockCache's subject; here they have a size.  Whether a slot index  *)
(* is negative and whether a descriptor is writable are the same fact in   *)
(* the code, so idx = 0 stands for an archive file.                        *)
(***************************************************************************)
EXTENDS Integers, Sequences, FiniteSets, FiniteSetsExt

CONSTANTS
  Procs,
  Names,        \* names a caller uses
  Archive,      \* sequence of [name, size, dir]: the entries of the TAR
  Values, Zero, Junk,     \* written cells, cleared cells, what kmalloc hands out
  Absent,
  MaxFiles,     \* TMPFS_MAX_FILES
  MaxFds,       \* VFS_MAX_FDS
  MaxSize,      \* TMPFS_MAX_SIZE
  InitialCap,   \* TMPFS_INITIAL_CAP
  Chunk,        \* the kernel buffer of sys_user_read and sys_user_write
  Counts,       \* bound: lengths a caller asks for
  Listers       \* bound: processes that open the root directory

SizeAssumption ==
  /\ InitialCap \in 1 .. MaxSize /\ Chunk \in Nat \ {0}
  /\ Counts \subseteq Nat /\ MaxFds \in Nat \ {0} /\ MaxFiles \in Nat \ {0}

Slots == 1 .. MaxFiles
FdNumbers == 1 .. MaxFds
Unused == [name |-> Absent, data |-> <<>>, size |-> 0]
Closed == [type |-> "none", name |-> Absent, size |-> 0, offset |-> 0, idx |-> 0,
           kept |-> {}, seen |-> {}]

VARIABLES
  files,    \* tmpfs.c: files; the name is Absent when not in_use
  fds,      \* task->fds; kept and seen are history for directory listings:
            \* the slots in use since the listing began, those it returned
  alive

vars == <<files, fds, alive>>

Init ==
  /\ files = [i \in Slots |-> Unused]
  /\ fds = [p \in Procs |-> [d \in FdNumbers |-> Closed]]
  /\ \E p \in Procs : alive = {p}

(***************************************************************************)
(* tmpfs.c                                                                 *)
(***************************************************************************)
InUse(i) == files[i].name # Absent
tmpfs_open(n) == {i \in Slots : files[i].name = n}

\* Mutant: the buffer is taken as kmalloc returns it.
Cleared_Not(k) == [i \in 1 .. k |-> Junk]

Cleared(k) == [i \in 1 .. k |-> Zero]

(* The slot that holds the name afterwards, and its contents; none when    *)
(* every slot is taken.                                                    *)
tmpfs_create(n) ==
  LET unused == {i \in Slots : ~InUse(i)}
  IN  IF tmpfs_open(n) # {} THEN {[i |-> i, f |-> files[i]] : i \in tmpfs_open(n)}
      ELSE IF unused # {}
      THEN {[i |-> Min(unused), f |-> [name |-> n, data |-> Cleared(InitialCap), size |-> 0]]}
      ELSE {}

NewCap(cap, end) ==
  LET double[c \in 1 .. MaxSize] ==
        IF c >= end THEN c ELSE double[IF 2 * c > MaxSize THEN MaxSize ELSE 2 * c]
  IN  double[cap]

(* k cells, already cut to MaxSize; k > 0.                                 *)
tmpfs_write(f, o, k, v) ==
  LET cap == IF o + k > Len(f.data) THEN NewCap(Len(f.data), o + k) ELSE Len(f.data)
      grown == f.data \o Cleared(cap - Len(f.data))
  IN  [f EXCEPT !.data = [i \in 1 .. cap |-> IF i \in o + 1 .. o + k THEN v ELSE grown[i]],
                !.size = IF o + k > f.size THEN o + k ELSE f.size]

(***************************************************************************)
(* vfs.c and the system calls                                              *)
(***************************************************************************)
FreeFd(p) == {d \in FdNumbers : fds[p][d].type = "none"}
Entry(n) == {e \in {Archive[i] : i \in DOMAIN Archive} : e.name = n}
FileFd(n, i, size) == [Closed EXCEPT !.type = "file", !.name = n, !.idx = i, !.size = size]

OpenRoot(p) ==
  /\ p \in Listers /\ FreeFd(p) # {}
  /\ fds' = [fds EXCEPT ![p][Min(FreeFd(p))] =
               [Closed EXCEPT !.type = "dir", !.kept = {i \in Slots : InUse(i)}]]
  /\ UNCHANGED <<files, alive>>

(* The writable file, else the archive's, else a new one with O_CREATE,    *)
(* which stays although no descriptor is free for it.                      *)
vfs_open(p, n, create) ==
  /\ \/ /\ tmpfs_open(n) # {} /\ FreeFd(p) # {}
        /\ fds' = [fds EXCEPT ![p][Min(FreeFd(p))] =
                     LET i == Min(tmpfs_open(n)) IN FileFd(n, i, files[i].size)]
        /\ UNCHANGED files
     \/ /\ tmpfs_open(n) = {} /\ Entry(n) # {} /\ FreeFd(p) # {}
        /\ \E e \in Entry(n) :
             fds' = [fds EXCEPT ![p][Min(FreeFd(p))] = FileFd(n, 0, e.size)]
        /\ UNCHANGED files
     \/ /\ tmpfs_open(n) = {} /\ Entry(n) = {} /\ create
        /\ \E c \in tmpfs_create(n) :
             /\ files' = [files EXCEPT ![c.i] = c.f]
             /\ fds' = IF FreeFd(p) = {} THEN fds
                       ELSE [fds EXCEPT ![p][Min(FreeFd(p))] = FileFd(n, c.i, 0)]
  /\ UNCHANGED alive

vfs_close(p, d) ==
  /\ fds[p][d].type # "none"
  /\ fds' = [fds EXCEPT ![p][d] = Closed]
  /\ UNCHANGED <<files, alive>>

Smaller(a, b) == IF a < b THEN a ELSE b

(* One vfs_read of k cells at offset o: -1 when the slot is free.          *)
ReadAt(f, o, k) ==
  IF o >= f.size THEN 0
  ELSE IF f.idx = 0 THEN Smaller(k, f.size - o)
  ELSE IF ~InUse(f.idx) THEN -1
  ELSE IF o >= files[f.idx].size THEN 0 ELSE Smaller(k, files[f.idx].size - o)

(* Cells read in chunks until a short one; the copy to the user may stop   *)
(* the loop before any chunk, whose cells are then not consumed.           *)
sys_user_read(p, d, count) ==
  LET f == fds[p][d]
      total[n \in 0 .. count] ==
        LET chunk == Smaller(count - n, Chunk)
            got == ReadAt(f, f.offset + n, chunk)
        IN  IF got < chunk \/ n + got = count THEN IF got > 0 THEN n + got ELSE n
            ELSE total[n + got]
  IN  /\ f.type = "file"
      /\ \E n \in {k \in 0 .. total[0] : k % Chunk = 0} \cup {total[0]} :
           fds' = [fds EXCEPT ![p][d].offset = @ + n]
      /\ UNCHANGED <<files, alive>>

(* As above; a failed krealloc or copy stops before a chunk.               *)
sys_user_write(p, d, count, v) ==
  LET f == fds[p][d]
      room == IF f.offset < MaxSize THEN MaxSize - f.offset ELSE 0
      most == Smaller(count, room)
  IN  /\ f.type = "file" /\ f.idx # 0 /\ InUse(f.idx)
      /\ \E n \in ({k \in 1 .. most : k % Chunk = 0} \cup {most}) \ {0} :
           LET new == tmpfs_write(files[f.idx], f.offset, n, v)
           IN  /\ files' = [files EXCEPT ![f.idx] = new]
               /\ fds' = [fds EXCEPT ![p][d].offset = @ + n, ![p][d].size = new.size]
      /\ UNCHANGED alive

(* Any offset and whence, clamped to what the descriptor has for a size.   *)
SeekTo(f) == 0 .. f.size

vfs_seek(p, d) ==
  /\ fds[p][d].type = "file"
  /\ \E o \in SeekTo(fds[p][d]) : fds' = [fds EXCEPT ![p][d].offset = o]
  /\ UNCHANGED <<files, alive>>

\* Mutant: the cursor passes one entry too many.
After_Two(i) == i + 2

After(i) == i + 1

(* Archive entries first, directories skipped, then the slots in use.      *)
(* Entry i of the listing is Archive[i + 1] or slot i + 1 - Len(Archive).  *)
vfs_readdir(p, d) ==
  LET f == fds[p][d]
      Slot(i) == i + 1 - Len(Archive)
      next == {i \in f.offset .. Len(Archive) + MaxFiles - 1 :
                 IF i < Len(Archive) THEN ~Archive[i + 1].dir ELSE InUse(Slot(i))}
      slot == IF Min(next) < Len(Archive) THEN 0 ELSE Slot(Min(next))
  IN  /\ f.type = "dir"
      /\ \/ /\ next # {}
            /\ fds' = [fds EXCEPT ![p][d].offset = After(Min(next)),
                                  ![p][d].seen = @ \cup ({slot} \ {0})]
         \/ /\ next = {}
            /\ fds' = [fds EXCEPT ![p][d].offset =
                         IF @ > Len(Archive) + MaxFiles THEN @ ELSE Len(Archive) + MaxFiles]
      /\ UNCHANGED <<files, alive>>

vfs_create(n) ==
  /\ \E c \in tmpfs_create(n) : files' = [files EXCEPT ![c.i] = c.f]
  /\ UNCHANGED <<fds, alive>>

(* The slot is free at once, whatever descriptors say.                     *)
tmpfs_unlink(n) ==
  \E i \in tmpfs_open(n) :
    /\ files' = [files EXCEPT ![i] = Unused]
    /\ fds' = [p \in Procs |-> [d \in FdNumbers |->
                 [fds[p][d] EXCEPT !.kept = @ \ {i}, !.seen = @ \ {i}]]]
    /\ UNCHANGED alive

(* fork and clone copy the table, offsets included.                        *)
task_fork(p, c) ==
  /\ c \notin alive
  /\ alive' = alive \cup {c}
  /\ fds' = [fds EXCEPT ![c] = fds[p]]
  /\ UNCHANGED files

(* The table goes with the task; nothing is closed.                        *)
task_exit(p) ==
  /\ alive # {p}
  /\ alive' = alive \ {p}
  /\ fds' = [fds EXCEPT ![p] = [d \in FdNumbers |-> Closed]]
  /\ UNCHANGED files

Next ==
  \E p \in alive :
    \/ OpenRoot(p) \/ task_exit(p) \/ \E c \in Procs : task_fork(p, c)
    \/ \E n \in Names : vfs_create(n) \/ tmpfs_unlink(n)
                        \/ \E create \in BOOLEAN : vfs_open(p, n, create)
    \/ \E d \in FdNumbers :
         \/ vfs_close(p, d) \/ vfs_seek(p, d) \/ vfs_readdir(p, d)
         \/ \E k \in Counts : sys_user_read(p, d, k)
                              \/ \E v \in Values : sys_user_write(p, d, k, v)

Spec == Init /\ [][Next]_vars

-----------------------------------------------------------------------------
(* Slots and descriptors have their shape, and the two bounds on which     *)
(* tmpfs.c's pointer arithmetic rests hold: a file ends inside its buffer, *)
(* and no offset, however stale, is past the largest file.                 *)
TypeOK ==
  /\ \A i \in Slots :
       /\ files[i].name \in Names \cup {Absent}
       /\ files[i].size <= Len(files[i].data) /\ Len(files[i].data) <= MaxSize
       /\ InUse(i) => Len(files[i].data) >= InitialCap
  /\ \A p \in Procs : \A d \in FdNumbers :
       /\ fds[p][d].type \in {"none", "file", "dir"}
       /\ fds[p][d].idx \in 0 .. MaxFiles
       /\ fds[p][d].type = "file" =>
            /\ fds[p][d].name \in Names
            /\ fds[p][d].idx # 0 => fds[p][d].offset <= MaxSize /\ fds[p][d].size <= MaxSize
            /\ fds[p][d].idx = 0 => fds[p][d].offset <= fds[p][d].size
  /\ alive \in SUBSET Procs \ {{}}

(* What the slots store, by name.                                          *)
Stored == [n \in Names |->
  IF tmpfs_open(n) = {} THEN Absent
  ELSE LET f == files[Min(tmpfs_open(n))] IN SubSeq(f.data, 1, f.size)]

Store == INSTANCE FileStore WITH store <- Stored

(* tmpfs.c implements the file store: slots, buffers, descriptors that     *)
(* outlive their file and stale offsets never let a call change two files, *)
(* show a cell that nobody wrote, or keep two files of one name.           *)
ImplementsStore == Store!Spec

(* Wherever a listing stands, it has returned exactly those of the files   *)
(* present since it began that its cursor has passed: at its end it has    *)
(* returned every one, and none twice, whatever was created, deleted or    *)
(* forked in between (vfs_readdir).                                        *)
ListingExact ==
  \A p \in Procs : \A d \in FdNumbers : fds[p][d].type = "dir" =>
    \A i \in fds[p][d].kept :
      i \in fds[p][d].seen <=> Len(Archive) + i - 1 < fds[p][d].offset

(* The safety invariants together: descriptors fit their files, listings   *)
(* are exact.                                                              *)
Safety ==
  /\ TypeOK
  /\ ListingExact
=============================================================================
