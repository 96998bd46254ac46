----------------------------- MODULE UserMemory -----------------------------
(***************************************************************************)
(* Who owns a physical frame: the private pages of every process, the      *)
(* shared-memory segments and their attachments, and the operations that   *)
(* move them:                                                              *)
(*   mm/user_memory.c  user_alloc, user_free, user_realloc, first fit      *)
(*   mm/shm.c          create, attach, detach, destroy, clean-up           *)
(*   mm/cow.c          fork's clone of an address space, write faults      *)
(*   mm/pmm.c          the reference counts behind them                    *)
(*   kernel/task.c     create_user_task, task_fork, task_discard, reaper   *)
(*                                                                         *)
(* Every operation holds the mutation lock from beginning to end, so no    *)
(* two of them interleave.  The ones that take frames one at a time and    *)
(* may run out half way are split into steps; kop is the operation under   *)
(* way.  Page-table frames, kernel stacks and kmalloc blocks are not       *)
(* counted: a mapping or a clone may fail for want of them at any point.   *)
(* Threads act on the memory of their leader (task_memory_owner), so a     *)
(* process stands for all its threads.  Addresses are page numbers.        *)
(***************************************************************************)
EXTENDS Integers, Sequences, FiniteSets, FiniteSetsExt

CONSTANTS
  Procs,        \* address-space owners; a process that ends does not return
  Frames,       \* physical frames
  None,
  Image,        \* page -> permission, what create_user_task maps
  HeapBase, HeapEnd,      \* USER_HEAP_BASE, USER_HEAP_END
  ShmBase, ShmEnd,        \* USER_SHM_BASE, USER_SHM_END
  MaxRefs,      \* UINT32_MAX - 1: the largest count pmm_ref_page allows
  MaxAttached,  \* UINT32_MAX: the largest segment count shm_attach allows
  MaxSegments,  \* SHM_MAX_SEGMENTS
  MaxAttach,    \* SHM_MAX_ATTACH
  MaxPages,     \* USER_MAX_PAGES
  MaxShmid,     \* bound: INT32_MAX, the last identifier
  Sizes         \* bound: pages a caller asks for

AreaAssumption ==
  /\ DOMAIN Image \subseteq Nat \ {0}
  /\ HeapBase \in Nat \ {0} /\ HeapEnd \in Nat /\ ShmBase \in Nat \ {0} /\ ShmEnd \in Nat
  /\ HeapEnd <= ShmBase
  /\ Sizes \subseteq Nat \ {0}

Vas == DOMAIN Image \cup HeapBase .. HeapEnd - 1 \cup ShmBase .. ShmEnd - 1
Slots == 1 .. MaxAttach
Segments == 1 .. MaxSegments
Entries == [frame : Frames, perm : {"ro", "cow", "rw"}]
Pages == [va : Vas, frame : Frames]

VARIABLES
  task,         \* per process: state, leaf entries, page list, allocations, attachments
  segments,     \* shm.c: segments
  next_shmid,
  refcounts,    \* pmm.c: refcounts, zero when the bitmap says free
  kop           \* the operation that holds the lock, None between operations

vars == <<task, segments, next_shmid, refcounts, kop>>

Unborn == [state |-> "unborn", pml4 |-> [v \in Vas |-> None], pages |-> {},
           allocations |-> {}, shm |-> [i \in Slots |-> None]]

Init ==
  /\ task = [p \in Procs |-> Unborn]
  /\ segments = [s \in Segments |-> None]
  /\ next_shmid = 1
  /\ refcounts = [f \in Frames |-> 0]
  /\ kop = None

(* What the calls below read and write, handed from one to the next.       *)
Memory == [task |-> task, segments |-> segments, refcounts |-> refcounts]

Becomes(M) ==
  /\ task' = M.task
  /\ segments' = M.segments
  /\ refcounts' = M.refcounts

Live(p) == task[p].state = "live"
Idle == kop = None
Free == {f \in Frames : refcounts[f] = 0}

(* pmm_free_page for every frame of a page list, one call per entry; a     *)
(* call for a frame that is already free does nothing.                     *)
pmm_free_page(r, entries) ==
  [f \in Frames |-> LET n == Cardinality({e \in entries : e.frame = f})
                    IN  IF n > r[f] THEN 0 ELSE r[f] - n]

pmm_ref_page(r, f) == r[f] \in 1 .. MaxRefs - 1

(***************************************************************************)
(* user_find_free_range.  Every range keeps one unmapped page after it.    *)
(***************************************************************************)
Ranges(t) ==
  t.allocations \cup
  {[base |-> t.shm[i].base, pages |-> t.shm[i].pages] : i \in {j \in Slots : t.shm[j] # None}}

\* Mutant: the guard page of an existing range is not part of it.
Stop_NoGuard(a) == a.base + a.pages

Stop(a) == a.base + a.pages + 1

\* Mutant: after a mapped page the walk goes on behind the whole range.
Skip_Far(t, c, span) ==
  LET hit == {a \in Ranges(t) : c < Stop(a) /\ a.base < c + span}
      mapped == {v \in c .. c + span - 1 : v \in Vas /\ t.pml4[v] # None}
  IN  IF hit # {} THEN Max({Stop(a) : a \in hit}) + 1
      ELSE IF mapped # {} THEN Max(mapped) + span ELSE c

Skip(t, c, span) ==
  LET hit == {a \in Ranges(t) : c < Stop(a) /\ a.base < c + span}
      mapped == {v \in c .. c + span - 1 : v \in Vas /\ t.pml4[v] # None}
  IN  IF hit # {} THEN Max({Stop(a) : a \in hit})
      ELSE IF mapped # {} THEN Min(mapped) + 1 ELSE c

user_find_free_range(t, first, end, pages) ==
  LET span == pages + 1
      walk[c \in first .. end + span] ==
        IF c > end - span THEN 0
        ELSE IF Skip(t, c, span) = c THEN c ELSE walk[Skip(t, c, span)]
  IN  IF span > end - first THEN 0 ELSE walk[first]

(***************************************************************************)
(* shm.c                                                                   *)
(***************************************************************************)
find_segment(M, id) == {s \in Segments : M.segments[s] # None /\ M.segments[s].shmid = id}

release_segment(M, s) ==
  [M EXCEPT !.segments[s] = None,
            !.refcounts = pmm_free_page(@, M.segments[s].frames)]

\* Mutant: the mapping stays when the record goes.
detach_record_KeepsMapping(M, p, i) ==
  [[M EXCEPT !.task[p].shm[i] = None] EXCEPT
     !.segments = [s \in Segments |->
                     IF s \in find_segment(M, M.task[p].shm[i].shmid)
                     THEN IF @[s].refcount = 1 THEN None ELSE [@[s] EXCEPT !.refcount = @ - 1]
                     ELSE @[s]],
     !.refcounts = [f \in Frames |->
                     IF \E s \in find_segment(M, M.task[p].shm[i].shmid) :
                           /\ M.segments[s].refcount = 1
                           /\ \E e \in M.segments[s].frames : e.frame = f
                     THEN @[f] - 1 ELSE @[f]]]

detach_record(M, p, i) ==
  LET a == M.task[p].shm[i]
      gone == [M EXCEPT !.task[p].pml4 =
                          [v \in Vas |-> IF v \in a.base .. a.base + a.pages - 1
                                         THEN None ELSE @[v]],
                        !.task[p].shm[i] = None]
      s == CHOOSE x \in Segments : x \in find_segment(M, a.shmid)
  IN  IF find_segment(M, a.shmid) = {} THEN gone
      ELSE IF M.segments[s].refcount = 1 THEN release_segment(gone, s)
      ELSE [gone EXCEPT !.segments[s].refcount = @ - 1]

\* Mutant: segments the process created and nobody uses are left behind.
shm_cleanup_process_NoSweep(M, p, pid) ==
  LET detached[i \in 0 .. MaxAttach] ==
        IF i = 0 THEN M
        ELSE IF detached[i - 1].task[p].shm[i] = None THEN detached[i - 1]
        ELSE detach_record(detached[i - 1], p, i)
  IN  detached[MaxAttach]

shm_cleanup_process(M, p, pid) ==
  LET detached[i \in 0 .. MaxAttach] ==
        IF i = 0 THEN M
        ELSE IF detached[i - 1].task[p].shm[i] = None THEN detached[i - 1]
        ELSE detach_record(detached[i - 1], p, i)
      m == detached[MaxAttach]
      swept[s \in 0 .. MaxSegments] ==
        IF s = 0 THEN m
        ELSE IF /\ swept[s - 1].segments[s] # None
                /\ swept[s - 1].segments[s].creator = pid
                /\ swept[s - 1].segments[s].refcount = 0
             THEN release_segment(swept[s - 1], s)
             ELSE swept[s - 1]
  IN  IF pid = None THEN m ELSE swept[MaxSegments]

user_memory_release(M, p) ==
  [M EXCEPT !.refcounts = pmm_free_page(@, M.task[p].pages),
            !.task[p] = [Unborn EXCEPT !.state = "reaped"]]

\* Mutant: a constructor that fails gives back nothing.
task_discard_Forgets(M, p) == [M EXCEPT !.task[p] = Unborn]

(* A constructor's process has no PID yet, and none is used up.            *)
task_discard(M, p) ==
  [user_memory_release(shm_cleanup_process(M, p, None), p) EXCEPT !.task[p] = Unborn]

(***************************************************************************)
(* create_user_task: the pages of the image, then of the stack.  A page is *)
(* recorded before it is mapped, so a failed mapping is given back too.    *)
(***************************************************************************)
create_user_task(p) ==
  /\ Idle /\ task[p].state = "unborn"
  /\ task' = [task EXCEPT ![p].state = "building"]
  /\ kop' = [op |-> "load", p |-> p, todo |-> DOMAIN Image]
  /\ UNCHANGED <<segments, next_shmid, refcounts>>

Recorded(M, p, va, f) ==
  [M EXCEPT !.refcounts[f] = 1, !.task[p].pages = @ \cup {[va |-> va, frame |-> f]}]

LoadPage ==
  /\ kop # None /\ kop.op = "load" /\ kop.todo # {}
  /\ LET va == Min(kop.todo)
     IN  \E f \in Free :
           \/ /\ Becomes([Recorded(Memory, kop.p, va, f) EXCEPT
                            !.task[kop.p].pml4[va] = [frame |-> f, perm |-> Image[va]]])
              /\ kop' = [kop EXCEPT !.todo = @ \ {va}]
           \/ /\ Becomes(task_discard(Recorded(Memory, kop.p, va, f), kop.p))
              /\ kop' = None
  /\ UNCHANGED next_shmid

LoadNoFrame ==
  /\ kop # None /\ kop.op = "load" /\ kop.todo # {} /\ Free = {}
  /\ Becomes(task_discard(Memory, kop.p))
  /\ kop' = None /\ UNCHANGED next_shmid

LoadDone ==
  /\ kop # None /\ kop.op = "load" /\ kop.todo = {}
  /\ task' = [task EXCEPT ![kop.p].state = "live"]
  /\ kop' = None /\ UNCHANGED <<segments, next_shmid, refcounts>>

(***************************************************************************)
(* user_alloc, user_free, user_realloc.  The pages join the list one by    *)
(* one and are mapped together; before is the list to go back to.          *)
(***************************************************************************)
user_alloc(p, n, old) ==
  LET base == user_find_free_range(task[p], HeapBase, HeapEnd, n)
  IN  /\ Idle /\ Live(p)
      /\ Cardinality(task[p].pages) + n <= MaxPages
      /\ base # 0
      /\ kop' = [op |-> "alloc", p |-> p, base |-> base, pages |-> n, got |-> 0,
                 before |-> task[p].pages, old |-> old]
      /\ UNCHANGED <<task, segments, next_shmid, refcounts>>

AllocPage ==
  /\ kop # None /\ kop.op = "alloc" /\ kop.got < kop.pages
  /\ \E f \in Free : Becomes(Recorded(Memory, kop.p, kop.base + kop.got, f))
  /\ kop' = [kop EXCEPT !.got = @ + 1]
  /\ UNCHANGED next_shmid

rollback(M) ==
  [M EXCEPT !.refcounts = pmm_free_page(@, M.task[kop.p].pages \ kop.before),
            !.task[kop.p].pages = kop.before]

AllocFails ==
  /\ kop # None /\ kop.op = "alloc"
  /\ kop.got < kop.pages => Free = {}
  /\ Becomes(rollback(Memory))
  /\ kop' = None /\ UNCHANGED next_shmid

user_free(M, p, base) ==
  LET a == CHOOSE x \in M.task[p].allocations : x.base = base
      hit == {e \in M.task[p].pages : e.va \in base .. base + a.pages - 1}
  IN  [M EXCEPT !.task[p].pml4 = [v \in Vas |-> IF v \in base .. base + a.pages - 1
                                                THEN None ELSE @[v]],
                !.task[p].pages = @ \ hit,
                !.task[p].allocations = @ \ {a},
                !.refcounts = pmm_free_page(@, hit)]

(* The contents of the old block are copied before it is freed.            *)
AllocDone ==
  /\ kop # None /\ kop.op = "alloc" /\ kop.got = kop.pages
  /\ LET added == task[kop.p].pages \ kop.before
         Frame(v) == (CHOOSE e \in added : e.va = v).frame
         m == [Memory EXCEPT
                 !.task[kop.p].pml4 =
                    [v \in Vas |-> IF v \in kop.base .. kop.base + kop.pages - 1
                                   THEN [frame |-> Frame(v), perm |-> "rw"] ELSE @[v]],
                 !.task[kop.p].allocations =
                    @ \cup {[base |-> kop.base, pages |-> kop.pages]}]
     IN  Becomes(IF kop.old = 0 THEN m ELSE user_free(m, kop.p, kop.old))
  /\ kop' = None /\ UNCHANGED next_shmid

UserFree(p) ==
  /\ Idle /\ Live(p)
  /\ \E a \in task[p].allocations : Becomes(user_free(Memory, p, a.base))
  /\ UNCHANGED <<next_shmid, kop>>

user_realloc(p, n) ==
  \E a \in task[p].allocations : user_alloc(p, n, a.base)

(***************************************************************************)
(* shm_create, shm_attach, shm_detach, shm_destroy                         *)
(***************************************************************************)
shm_create(p, n) ==
  LET unused == {s \in Segments : segments[s] = None}
  IN  /\ Idle /\ Live(p) /\ next_shmid <= MaxShmid /\ unused # {}
      /\ kop' = [op |-> "shm", p |-> p, slot |-> Min(unused), pages |-> n, frames |-> {}]
      /\ UNCHANGED <<task, segments, next_shmid, refcounts>>

ShmPage ==
  /\ kop # None /\ kop.op = "shm" /\ Cardinality(kop.frames) < kop.pages
  /\ \E f \in Free :
       /\ refcounts' = [refcounts EXCEPT ![f] = 1]
       /\ kop' = [kop EXCEPT !.frames =
                    @ \cup {[va |-> Cardinality(kop.frames), frame |-> f]}]
  /\ UNCHANGED <<task, segments, next_shmid>>

ShmNoFrame ==
  /\ kop # None /\ kop.op = "shm" /\ Cardinality(kop.frames) < kop.pages /\ Free = {}
  /\ refcounts' = pmm_free_page(refcounts, kop.frames)
  /\ kop' = None /\ UNCHANGED <<task, segments, next_shmid>>

ShmDone ==
  /\ kop # None /\ kop.op = "shm" /\ Cardinality(kop.frames) = kop.pages
  /\ segments' = [segments EXCEPT ![kop.slot] =
                    [shmid |-> next_shmid, frames |-> kop.frames, refcount |-> 0,
                     creator |-> kop.p]]
  /\ next_shmid' = next_shmid + 1
  /\ kop' = None /\ UNCHANGED <<task, refcounts>>

shm_attach(p, id) ==
  \E s \in find_segment(Memory, id) :
    LET unused == {i \in Slots : task[p].shm[i] = None}
        pages == Cardinality(segments[s].frames)
        base == user_find_free_range(task[p], ShmBase, ShmEnd, pages)
    IN  /\ Idle /\ Live(p)
        /\ segments[s].refcount < MaxAttached /\ unused # {} /\ base # 0
        /\ segments' = [segments EXCEPT ![s].refcount = @ + 1]
        /\ task' = [task EXCEPT
             ![p].pml4 = [v \in Vas |->
                IF v \in base .. base + pages - 1
                THEN [frame |-> (CHOOSE e \in segments[s].frames : e.va = v - base).frame,
                      perm |-> "rw"]
                ELSE @[v]],
             ![p].shm[Min(unused)] = [shmid |-> id, base |-> base, pages |-> pages]]
        /\ UNCHANGED <<next_shmid, refcounts, kop>>

shm_detach(p) ==
  /\ Idle /\ Live(p)
  /\ \E i \in Slots : task[p].shm[i] # None /\ Becomes(detach_record(Memory, p, i))
  /\ UNCHANGED <<next_shmid, kop>>

(* Any process may destroy any segment.                                    *)
shm_destroy(p, id) ==
  /\ Idle /\ Live(p)
  /\ \E s \in find_segment(Memory, id) :
       segments[s].refcount = 0 /\ Becomes(release_segment(Memory, s))
  /\ UNCHANGED <<next_shmid, kop>>

(***************************************************************************)
(* task_fork: the child gets the allocations, then the parent's pages in   *)
(* address order, then the attachments.  Only then do the parent's own     *)
(* entries change.                                                         *)
(***************************************************************************)
task_fork(p, c) ==
  /\ Idle /\ Live(p) /\ task[c].state = "unborn"
  /\ task' = [task EXCEPT ![c].state = "building", ![c].allocations = task[p].allocations]
  /\ kop' = [op |-> "fork", p |-> c, parent |-> p,
             todo |-> {v \in Vas : task[p].pml4[v] # None}]
  /\ UNCHANGED <<segments, next_shmid, refcounts>>

ForkFails ==
  /\ Becomes(task_discard(Memory, kop.p))
  /\ kop' = None

Private(t, va, frame) == [va |-> va, frame |-> frame] \in t.pages

shm_owns_mapping(t, va, frame) ==
  \E i \in Slots :
    /\ t.shm[i] # None
    /\ va \in t.shm[i].base .. t.shm[i].base + t.shm[i].pages - 1
    /\ \E s \in find_segment(Memory, t.shm[i].shmid) :
         /\ segments[s].refcount > 0
         /\ Cardinality(segments[s].frames) = t.shm[i].pages
         /\ [va |-> va - t.shm[i].base, frame |-> frame] \in segments[s].frames

\* Mutant: a page that can already be written stays so in the child.
Protected_Not(perm) == perm

Protected(perm) == IF perm = "ro" THEN "ro" ELSE "cow"

clone_page ==
  /\ kop # None /\ kop.op = "fork" /\ kop.todo # {}
  /\ LET va == Min(kop.todo)
         pte == task[kop.parent].pml4[va]
         private == Private(task[kop.parent], va, pte.frame)
     IN  \/ /\ private /\ pmm_ref_page(refcounts, pte.frame)
            /\ Becomes([Memory EXCEPT
                 !.refcounts[pte.frame] = @ + 1,
                 !.task[kop.p].pml4[va] = [pte EXCEPT !.perm = Protected(@)],
                 !.task[kop.p].pages = @ \cup {[va |-> va, frame |-> pte.frame]}])
            /\ kop' = [kop EXCEPT !.todo = @ \ {va}]
         \/ /\ ~private /\ pte.perm # "cow" /\ shm_owns_mapping(task[kop.parent], va, pte.frame)
            /\ Becomes([Memory EXCEPT !.task[kop.p].pml4[va] = pte])
            /\ kop' = [kop EXCEPT !.todo = @ \ {va}]
         \/ ForkFails                 \* no reference, no policy, or no page table
  /\ UNCHANGED next_shmid

(* How many more attachments a segment gets from the parent's records.     *)
Added(t, s) == Cardinality({i \in Slots : t.shm[i] # None /\ segments[s] # None
                                            /\ t.shm[i].shmid = segments[s].shmid})

shm_inherit_attachments(t, child) ==
  \A i \in Slots : t.shm[i] # None =>
    \E s \in find_segment(Memory, t.shm[i].shmid) :
      /\ Cardinality(segments[s].frames) = t.shm[i].pages
      /\ segments[s].refcount + Added(t, s) <= MaxAttached
      /\ \A e \in segments[s].frames :
           /\ child.pml4[t.shm[i].base + e.va] # None
           /\ child.pml4[t.shm[i].base + e.va].frame = e.frame

\* Mutant: a segment gets one more attachment however often it is attached.
Retained_Once == [s \in Segments |->
  IF segments[s] = None \/ Added(task[kop.parent], s) = 0 THEN segments[s]
  ELSE [segments[s] EXCEPT !.refcount = @ + 1]]

Retained == [s \in Segments |-> IF segments[s] = None THEN None
                                ELSE [segments[s] EXCEPT !.refcount =
                                        @ + Added(task[kop.parent], s)]]

ForkDone ==
  /\ kop # None /\ kop.op = "fork" /\ kop.todo = {}
  /\ LET parent == task[kop.parent]
         child == task[kop.p]
         touched == {v \in Vas : parent.pml4[v] # None /\ \E e \in child.pages : e.va = v}
     IN  \/ /\ Cardinality(child.pages) = Cardinality(parent.pages)
            /\ shm_inherit_attachments(parent, child)
            /\ task' = [task EXCEPT
                 ![kop.p].state = "live",
                 ![kop.p].shm = parent.shm,
                 ![kop.parent].pml4 = [v \in Vas |->
                    IF v \in touched THEN [@[v] EXCEPT !.perm = Protected(@)] ELSE @[v]]]
            /\ segments' = Retained /\ UNCHANGED refcounts
            /\ kop' = None
         \/ /\ ~ (/\ Cardinality(child.pages) = Cardinality(parent.pages)
                  /\ shm_inherit_attachments(parent, child))
            /\ ForkFails
  /\ UNCHANGED next_shmid

(* A write to a page of p that is not writable in the page table.          *)
cow_resolve(p, va) ==
  /\ Idle /\ Live(p)
  /\ LET pte == task[p].pml4[va]
     IN  /\ pte # None /\ pte.perm = "cow" /\ Private(task[p], va, pte.frame)
         /\ \/ /\ refcounts[pte.frame] = 1
               /\ task' = [task EXCEPT ![p].pml4[va].perm = "rw"]
               /\ UNCHANGED refcounts
            \/ /\ refcounts[pte.frame] > 1
               /\ \E f \in Free :
                    LET old == [va |-> va, frame |-> pte.frame]
                    IN  /\ task' = [task EXCEPT
                             ![p].pml4[va] = [frame |-> f, perm |-> "rw"],
                             ![p].pages = (@ \ {old}) \cup {[va |-> va, frame |-> f]}]
                        /\ refcounts' = pmm_free_page([refcounts EXCEPT ![f] = 1], {old})
  /\ UNCHANGED <<segments, next_shmid, kop>>

(* The reaper, once the process and all its threads are dead.              *)
task_reap_dead(p) ==
  /\ Idle /\ Live(p)
  /\ Becomes(user_memory_release(shm_cleanup_process(Memory, p, p), p))
  /\ UNCHANGED <<next_shmid, kop>>

Next ==
  \/ LoadPage \/ LoadNoFrame \/ LoadDone
  \/ AllocPage \/ AllocFails \/ AllocDone
  \/ ShmPage \/ ShmNoFrame \/ ShmDone
  \/ clone_page \/ ForkDone
  \/ \E p \in Procs :
       \/ create_user_task(p) \/ task_reap_dead(p) \/ UserFree(p) \/ shm_detach(p)
       \/ \E n \in Sizes : user_alloc(p, n, 0) \/ user_realloc(p, n) \/ shm_create(p, n)
       \/ \E id \in 1 .. MaxShmid : shm_attach(p, id) \/ shm_destroy(p, id)
       \/ \E va \in Vas : cow_resolve(p, va)
       \/ \E c \in Procs : task_fork(p, c)

Spec == Init /\ [][Next]_vars

-----------------------------------------------------------------------------
(* The shape of the state: records of processes and segments, counts in    *)
(* the range that pmm.c and shm.c allow them (struct task, shm_segment_t). *)
TypeOK ==
  /\ \A p \in Procs :
       /\ task[p].state \in {"unborn", "building", "live", "reaped"}
       /\ task[p].pml4 \in [Vas -> Entries \cup {None}]
       /\ task[p].pages \subseteq Pages
       /\ \A a \in Ranges(task[p]) : a.base \in Vas /\ a.pages \in Sizes
       /\ Cardinality(task[p].pages) <= MaxPages
  /\ \A s \in Segments : segments[s] # None =>
       /\ segments[s].shmid \in 1 .. next_shmid - 1
       /\ segments[s].refcount \in 0 .. MaxAttached
       /\ segments[s].creator \in Procs
  /\ next_shmid \in 1 .. MaxShmid + 1
  /\ refcounts \in [Frames -> 0 .. MaxRefs]

(* Frames a segment, or shm_create under way, has taken.                   *)
Held(f) ==
  {x \in Procs \X Pages : x[2] \in task[x[1]].pages /\ x[2].frame = f} \cup
  {x \in Segments \X (0 .. Max(Sizes)) :
     segments[x[1]] # None /\ [va |-> x[2], frame |-> f] \in segments[x[1]].frames} \cup
  {<<0, i>> : i \in {j \in 0 .. Max(Sizes) :
     kop # None /\ kop.op = "shm" /\ [va |-> j, frame |-> f] \in kop.frames}}

(* pmm.c counts exactly the owners of a frame, also while an operation is  *)
(* half done and after one that failed half way: nothing leaks and nothing *)
(* is free that somebody still owns.                                       *)
RefsExact == \A f \in Frames : refcounts[f] = Cardinality(Held(f))

(* Every leaf entry is backed by an owner: the process's own page list, or *)
(* a segment it is attached to (its parent is, while it is being built),   *)
(* so no entry points to a frame that pmm_alloc_page can give away.        *)
MappedIsOwned ==
  \A p \in Procs : \A v \in Vas : task[p].pml4[v] # None =>
    LET f == task[p].pml4[v].frame
        by == IF kop # None /\ kop.op = "fork" /\ kop.p = p THEN kop.parent ELSE p
    IN  Private(task[p], v, f) \/ shm_owns_mapping(task[by], v, f)

(* Only shared memory can be written by two processes: a private page that *)
(* is writable in some page table has one owner (cow.c's promise).  The    *)
(* parent's entries may still be writable while fork is under way.         *)
WritableIsPrivate ==
  \A p \in Procs : \A v \in Vas :
    LET pte == task[p].pml4[v]
    IN  (pte # None /\ pte.perm = "rw" /\ Private(task[p], v, pte.frame)
          /\ ~ (kop # None /\ kop.op = "fork" /\ kop.parent = p))
        => refcounts[pte.frame] = 1

Attachments(id) ==
  {x \in Procs \X Slots : task[x[1]].shm[x[2]] # None /\ task[x[1]].shm[x[2]].shmid = id}

(* shm.c's refcount is the number of attachment records that name the      *)
(* segment, and no record names a segment that is gone.                    *)
AttachmentsCounted ==
  /\ \A s \in Segments : segments[s] # None =>
       segments[s].refcount = Cardinality(Attachments(segments[s].shmid))
  /\ \A p \in Procs : \A i \in Slots : task[p].shm[i] # None =>
       find_segment(Memory, task[p].shm[i].shmid) # {}

(* A segment nobody is attached to still has a creator to release it: no   *)
(* order of attaching, forking, dying and reaping leaves one behind.       *)
NoOrphanSegment ==
  \A s \in Segments : segments[s] # None =>
    segments[s].refcount > 0 \/ task[segments[s].creator].state = "live"

(* Allocations and attachments of a process never overlap, and the guard   *)
(* page behind each one stays unmapped.                                    *)
RangesApart ==
  \A p \in Procs :
    /\ \A a, b \in Ranges(task[p]) : a # b => a.base + a.pages < b.base \/ b.base + b.pages < a.base
    /\ \A a \in Ranges(task[p]) :
         a.base + a.pages \in Vas => task[p].pml4[a.base + a.pages] = None

(* user_find_free_range's walk finds the first fit its header promises:    *)
(* the lowest range with its guard that meets no other range or mapping.   *)
FirstFit ==
  \A p \in Procs : \A n \in Sizes : \A area \in {<<HeapBase, HeapEnd>>, <<ShmBase, ShmEnd>>} :
    LET fits == {c \in area[1] .. area[2] - n - 1 :
                   /\ \A a \in Ranges(task[p]) :
                        a.base + a.pages + 1 <= c \/ c + n + 1 <= a.base
                   /\ \A v \in c .. c + n : v \in Vas => task[p].pml4[v] = None}
    IN  user_find_free_range(task[p], area[1], area[2], n)
          = IF fits = {} THEN 0 ELSE Min(fits)

(* The safety invariants together: counts, mappings, attachments and       *)
(* ranges agree, also half way through a call.                             *)
Safety ==
  /\ TypeOK
  /\ RefsExact
  /\ MappedIsOwned
  /\ WritableIsPrivate
  /\ AttachmentsCounted
  /\ NoOrphanSegment
  /\ RangesApart
  /\ FirstFit
=============================================================================
