----------------------------- MODULE PageTables -----------------------------
(***************************************************************************)
(* The page-table trees of mm/vmm.c: mapping with tables made on the way,  *)
(* roll-back, unmapping with the pruning of empty tables, address spaces   *)
(* that share the kernel half.                                             *)
(*                                                                         *)
(* Addresses are page numbers.  A tree has Top + 1 levels (four in the     *)
(* code), the root RootFan entries and every other table Fan (512 both).   *)
(* As on the machine the lower half of the address space, the user's, and  *)
(* the upper half, the kernel's, are separated by a hole of non-canonical  *)
(* addresses.  All edits run under the kernel lock, one call at a time;    *)
(* between the steps of a call other CPUs walk the tables, and may go on   *)
(* using a table they have seen until they are made to flush.              *)
(***************************************************************************)
EXTENDS Integers, FiniteSetsExt, SequencesExt

CONSTANTS
  FrameCount,      \* frames that can hold a table
  Top, RootFan, Fan,
  RetireMax,       \* retired[16] of vmm_unmap_pages_in
  Cpus,
  MaxSpaces,       \* address spaces at a time (a bound of the model)
  Ranges,          \* the ranges <<base, count>> that callers name
  BootTables       \* the bootloader's tables: frame -> entries

Frames == 1 .. FrameCount
kernel_pml4 == 1

NoEntry == [kind |-> "none", to |-> 0]
Free == <<>>       \* the contents of a frame that is no table
Empty == [i \in 0 .. RootFan - 1 |-> NoEntry]

FanAssumption ==
  /\ RootFan \in Nat /\ Fan \in Nat /\ Top \in Nat /\ Top > 0
  /\ 1 < Fan /\ Fan <= RootFan /\ RootFan % 2 = 0
RetireAssumption == RetireMax \in Nat /\ RetireMax > 0
BootAssumption == DOMAIN BootTables \subseteq Frames /\ kernel_pml4 \in DOMAIN BootTables

VARIABLES
  mem,       \* the contents of every frame
  spaces,    \* the roots of the processes
  cr3,       \* the root each CPU runs on
  cached,    \* the tables a CPU's page walker may still use
  op         \* the call in progress

vars == <<mem, spaces, cr3, cached, op>>

UserEnd == (RootFan \div 2) * Fan^Top
Word == 2 * RootFan * Fan^Top
UpperStart == Word - UserEnd

canonical(va) == va < UserEnd \/ va >= UpperStart
valid_range(base, count) ==
  count > 0 /\ canonical(base) /\ base + count <= Word /\ canonical(base + count - 1)
index_at(va, level) == (va \div Fan^level) % (IF level = Top THEN RootFan ELSE Fan)

Idle == [pc |-> "idle"]
IsTable(e) == e.kind \in {"table", "closed"}
FreeFrames(m) == {f \in Frames : m[f] = Free}

(* The levels of a walk, from the root down to the last but one. *)
Down == [k \in 1 .. Top |-> Top + 1 - k]

Children(m, S) ==
  {m[q[1]][q[2]].to : q \in {p \in S \X (0 .. RootFan - 1) : IsTable(m[p[1]][p[2]])}}

(* The tables a walk from root can meet. *)
Reach(m, root) == FoldLeft(LAMBDA S, l : S \cup Children(m, S), {root}, Down)

(* The table of the walk that holds the slot of a level, or 0: vmm_pte_in. *)
TableAt(m, root, va, level) ==
  FoldLeft(LAMBDA t, l : IF t # 0 /\ l > level /\ ~IsTable(m[t][index_at(va, l)]) THEN 0
                         ELSE IF t # 0 /\ l > level THEN m[t][index_at(va, l)].to ELSE t,
           root, Down)

Mapped(m, root, va) ==
  LET t == TableAt(m, root, va, 0) IN t # 0 /\ m[t][index_at(va, 0)].kind = "page"

Init ==
  /\ mem = [f \in Frames |-> IF f \in DOMAIN BootTables THEN BootTables[f] ELSE Free]
  /\ spaces = {}
  /\ cr3 = [c \in Cpus |-> kernel_pml4]
  /\ cached = [c \in Cpus |-> Reach(mem, kernel_pml4)]
  /\ op = Idle

(* An edit: what a walker can meet now joins what it may remember. *)
Edit(m) ==
  /\ mem' = m
  /\ cached' = [c \in Cpus |-> cached[c] \cup Reach(m, cr3[c])]

(***************************************************************************)
(* map_page.  Memory runs out after left tables, or when no frame is left. *)
(***************************************************************************)
Descend(s, va, level) ==
  LET i == index_at(va, level)
      e == s.m[s.table][i]
      f == Min(FreeFrames(s.m))
  IN  CASE ~s.ok -> s
        [] s.ok /\ e.kind = "table" -> [s EXCEPT !.table = e.to]
        [] s.ok /\ e.kind = "none" /\ s.left > 0 /\ FreeFrames(s.m) # {} ->
             [s EXCEPT !.m = [@ EXCEPT ![s.table][i] = [kind |-> "table", to |-> f], ![f] = Empty],
                       !.table = f, !.left = @ - 1,
                       !.created = Append(@, <<s.table, i>>)]
        [] OTHER -> [s EXCEPT !.ok = FALSE]

\* Mutant: the tables that were made are taken out and not given back.
Rollback_Leaks(s) ==
  [ok |-> FALSE,
   m |-> [f \in Frames |-> IF s.m[f] = Free THEN Free
                           ELSE [i \in DOMAIN s.m[f] |->
                                   IF Contains(s.created, <<f, i>>) THEN NoEntry ELSE s.m[f][i]]],
   retired |-> <<>>]

Rollback(s) ==
  [ok |-> FALSE,
   m |-> [f \in Frames |-> IF s.m[f] = Free THEN Free
                           ELSE [i \in DOMAIN s.m[f] |->
                                   IF Contains(s.created, <<f, i>>) THEN NoEntry ELSE s.m[f][i]]],
   retired |-> Reverse([k \in DOMAIN s.created |-> s.m[s.created[k][1]][s.created[k][2]].to])]

map_page(m, root, va, left) ==
  LET s == FoldLeft(LAMBDA acc, l : Descend(acc, va, l),
                    [m |-> m, table |-> root, created |-> <<>>, left |-> left, ok |-> TRUE], Down)
      i == index_at(va, 0)
  IN  IF ~canonical(va) THEN [ok |-> FALSE, m |-> m, retired |-> <<>>]
      ELSE IF s.ok /\ s.m[s.table][i] = NoEntry
      THEN [ok |-> TRUE, retired |-> <<>>,
            m |-> [s.m EXCEPT ![s.table][i] = [kind |-> "page", to |-> 0]]]
      ELSE Rollback(s)

(* A call that has still to flush, and to give back the retired tables. *)
Retire(retired, next) == [pc |-> "flush", retired |-> retired, next |-> next]

vmm_map_page_in(root, va) ==
  /\ op = Idle
  /\ \E left \in 0 .. Top :
       LET r == map_page(mem, root, va, left)
       IN  /\ Edit(r.m)
           /\ op' = IF r.retired = <<>> THEN Idle
                    ELSE Retire(r.retired, [pc |-> "failed", before |-> mem])
  /\ UNCHANGED <<spaces, cr3>>

vmm_map_pages_in(root, base, count) ==
  /\ op = Idle /\ valid_range(base, count)
  /\ op' = [pc |-> "map", root |-> root, base |-> base, count |-> count, i |-> 0, before |-> mem]
  /\ UNCHANGED <<mem, spaces, cr3, cached>>

Unmapping(root, base, count, then) ==
  [pc |-> "unmap", root |-> root, base |-> base, count |-> count, then |-> then]

\* Mutant: a failed call removes the page it failed at, too.
AfterFailure_Included(o) ==
  LET failed == [pc |-> "failed", before |-> o.before]
  IN  Unmapping(o.root, o.base, o.i + 1, failed)

(* What is left to do when page i of a range could not be mapped. *)
AfterFailure(o) ==
  LET failed == [pc |-> "failed", before |-> o.before]
  IN  IF o.i = 0 THEN failed ELSE Unmapping(o.root, o.base, o.i, failed)

MapNext ==
  /\ op.pc = "map"
  /\ \E left \in 0 .. Top :
       LET r == map_page(mem, op.root, op.base + op.i, left)
       IN  /\ Edit(r.m)
           /\ op' = IF r.ok THEN IF op.i + 1 = op.count THEN Retire(<<>>, Idle)
                                 ELSE [op EXCEPT !.i = @ + 1]
                    ELSE IF r.retired = <<>> THEN AfterFailure(op)
                    ELSE Retire(r.retired, AfterFailure(op))
  /\ UNCHANGED <<spaces, cr3>>

(***************************************************************************)
(* Unmapping: clear the leaves, then take out the tables that became       *)
(* empty, from the last level up, one group of Fan pages after the other.  *)
(***************************************************************************)
vmm_unmap_page_in(root, va) ==
  /\ op = Idle /\ canonical(va) /\ Mapped(mem, root, va)
  /\ op' = Unmapping(root, va, 1, Idle)
  /\ UNCHANGED <<mem, spaces, cr3, cached>>

vmm_unmap_pages_in(root, base, count) ==
  /\ op = Idle /\ valid_range(base, count)
  /\ op' = Unmapping(root, base, count, Idle)
  /\ UNCHANGED <<mem, spaces, cr3, cached>>

ClearLeaves ==
  LET gone == {va \in op.base .. op.base + op.count - 1 : Mapped(mem, op.root, va)}
      leaf == {<<TableAt(mem, op.root, va, 0), index_at(va, 0)>> : va \in gone}
  IN  /\ op.pc = "unmap"
      /\ Edit([f \in Frames |-> IF mem[f] = Free THEN Free
                                ELSE [i \in DOMAIN mem[f] |-> IF <<f, i>> \in leaf THEN NoEntry ELSE mem[f][i]]])
      /\ op' = IF gone = {} THEN op.then
               ELSE [pc |-> "prune", root |-> op.root, va |-> op.base, level |-> 1,
                     last |-> op.base + op.count - 1, retired |-> <<>>, then |-> op.then]
      /\ UNCHANGED <<spaces, cr3>>

\* Mutant: only the table of the first page is looked at.
NextGroup_None(o) == Retire(o.retired, o.then)

(* The next group of pages, or the end with the tables still to be freed. *)
NextGroup(o) ==
  IF o.va \div Fan = o.last \div Fan THEN Retire(o.retired, o.then)
  ELSE [o EXCEPT !.va = (@ \div Fan + 1) * Fan, !.level = 1]

\* Mutant: the kernel half is pruned like the user's.
Prunable_Kernel(o, t) ==
  /\ t # 0 /\ IsTable(mem[t][index_at(o.va, o.level)])
  /\ mem[mem[t][index_at(o.va, o.level)].to] = Empty

(* The slot leads to an empty table; the roots of the kernel half stay. *)
Prunable(o, t) ==
  /\ t # 0 /\ IsTable(mem[t][index_at(o.va, o.level)])
  /\ ~(o.level = Top /\ o.va >= UpperStart)
  /\ mem[mem[t][index_at(o.va, o.level)].to] = Empty

Prune ==
  LET t == TableAt(mem, op.root, op.va, op.level)
      i == index_at(op.va, op.level)
      more == [op EXCEPT !.retired = Append(@, mem[t][i].to)]
      up == IF op.level = Top THEN NextGroup(more) ELSE [more EXCEPT !.level = @ + 1]
  IN  /\ op.pc = "prune"
      /\ IF Prunable(op, t)
         THEN /\ Edit([mem EXCEPT ![t][i] = NoEntry])
              /\ op' = IF Len(more.retired) = RetireMax /\ up.pc = "prune"
                       THEN Retire(more.retired, [up EXCEPT !.retired = <<>>])
                       ELSE up
         ELSE op' = NextGroup(op) /\ UNCHANGED <<mem, cached>>
      /\ UNCHANGED <<spaces, cr3>>

\* Mutant: the walkers are not made to forget.
tlb_shootdown_Local ==
  /\ op.pc = "flush"
  /\ op' = [op EXCEPT !.pc = "free"]
  /\ UNCHANGED <<mem, spaces, cr3, cached>>

(***************************************************************************)
(* tlb_shootdown of everything, which module Shootdown has in detail: here *)
(* it is one that gets past the check of the VMM lock and returns.         *)
(***************************************************************************)
tlb_shootdown ==
  /\ op.pc = "flush"
  /\ cached' = [c \in Cpus |-> Reach(mem, cr3[c])]
  /\ op' = [op EXCEPT !.pc = "free"]
  /\ UNCHANGED <<mem, spaces, cr3>>

release_tables ==
  /\ op.pc = "free"
  /\ mem' = [f \in Frames |-> IF Contains(op.retired, f) THEN Free ELSE mem[f]]
  /\ op' = op.next
  /\ UNCHANGED <<spaces, cr3, cached>>

Fails ==
  /\ op.pc = "failed"
  /\ op' = Idle
  /\ UNCHANGED <<mem, spaces, cr3, cached>>

(***************************************************************************)
(* Address spaces                                                          *)
(***************************************************************************)
vmm_create_address_space ==
  /\ op = Idle /\ FreeFrames(mem) # {} /\ Cardinality(spaces) < MaxSpaces
  /\ LET f == Min(FreeFrames(mem)) IN
       /\ Edit([mem EXCEPT ![f] = [i \in 0 .. RootFan - 1 |->
                  IF i < RootFan \div 2 THEN NoEntry ELSE mem[kernel_pml4][i]]])
       /\ spaces' = spaces \cup {f}
  /\ UNCHANGED <<cr3, op>>

(* The tables that only this address space has. *)
OwnTables(m, root) ==
  LET half == [m EXCEPT ![root] = [i \in DOMAIN m[root] |-> IF i < RootFan \div 2 THEN m[root][i] ELSE NoEntry]]
  IN  Reach(half, root)

(* The reaper calls it when no CPU runs the process (module TaskLife). *)
vmm_destroy_address_space(root) ==
  /\ op = Idle /\ \A c \in Cpus : cr3[c] # root
  /\ mem' = [f \in Frames |-> IF f \in OwnTables(mem, root) THEN Free ELSE mem[f]]
  /\ spaces' = spaces \ {root}
  /\ UNCHANGED <<cr3, cached, op>>

(* A CPU reloads CR3 also while another one edits. *)
vmm_switch_pml4(c, root) ==
  /\ cr3[c] # root
  /\ cr3' = [cr3 EXCEPT ![c] = root]
  /\ cached' = [cached EXCEPT ![c] = Reach(mem, root)]
  /\ UNCHANGED <<mem, spaces, op>>

(* The kernel (mm/heap.c) edits its own half page by page; processes get   *)
(* pages (stack, image, fork) and ranges (user heap, shared memory).       *)
Next ==
  \/ \E r \in Ranges, root \in spaces \cup {kernel_pml4} :
       /\ (root = kernel_pml4) = (r[1] >= UpperStart)
       /\ vmm_map_page_in(root, r[1]) \/ vmm_unmap_page_in(root, r[1])
  \/ \E r \in Ranges, root \in spaces :
       /\ r[1] < UpperStart
       /\ vmm_map_pages_in(root, r[1], r[2]) \/ vmm_unmap_pages_in(root, r[1], r[2])
  \/ MapNext \/ ClearLeaves \/ Prune \/ tlb_shootdown \/ release_tables \/ Fails
  \/ vmm_create_address_space
  \/ \E root \in spaces : vmm_destroy_address_space(root)
  \/ \E c \in Cpus, root \in spaces \cup {kernel_pml4} : vmm_switch_pml4(c, root)

Spec == Init /\ [][Next]_vars

(***************************************************************************)
(* Properties                                                              *)
(***************************************************************************)
(* Frames hold tables, roots are tables, and CPUs run on roots. *)
TypeOK ==
  /\ \A f \in Frames : mem[f] = Free \/ \A i \in 0 .. RootFan - 1 : mem[f][i].to \in 0 .. FrameCount
  /\ spaces \subseteq {f \in Frames : mem[f] # Free}
  /\ \A c \in Cpus : cr3[c] \in spaces \cup {kernel_pml4} /\ cached[c] \subseteq Frames
  /\ op.pc \in {"idle", "map", "unmap", "prune", "flush", "free", "failed"}

(* "No table frame is recycled before remote walkers flush": a frame that  *)
(* was given back is used by no CPU's walker, through roll-backs, ranges   *)
(* with more tables than the retirement buffer holds, address spaces that  *)
(* are destroyed without a shootdown and CPUs that switch meanwhile.       *)
NoWalkInFree == \A c \in Cpus : \A f \in cached[c] : mem[f] # Free

(* The slots of processes and kernel, the copied kernel half counted once. *)
Slots == {p \in {f \in Frames : mem[f] # Free} \X (0 .. RootFan - 1) :
            IsTable(mem[p[1]][p[2]]) /\ ~(p[1] \in spaces /\ p[2] >= RootFan \div 2)}

(* The tables a call has taken out and not given back yet. *)
Retired == IF op.pc \in {"prune", "flush", "free"} THEN Range(op.retired) ELSE {}

(* Every table that is not a root hangs in exactly one slot, or waits to be *)
(* freed: none leaks, none is freed while it hangs somewhere, and no two    *)
(* processes share one.                                                     *)
OneParent ==
  \A f \in Frames \ (spaces \cup {kernel_pml4}) :
    Cardinality({p \in Slots : mem[p[1]][p[2]].to = f}) =
      (IF mem[f] = Free \/ f \in Retired THEN 0 ELSE 1)

(* A process has of the kernel half what the kernel has, or nothing where  *)
(* the kernel added a table later: its copied entries never dangle.        *)
KernelHalfShared ==
  \A root \in spaces : \A i \in RootFan \div 2 .. RootFan - 1 :
    mem[root][i] \in {NoEntry, mem[kernel_pml4][i]}

(* Between calls no table of a user half is empty: an address space has no *)
(* more tables than its mappings need.                                     *)
Pruned == op = Idle => \A root \in spaces : \A f \in OwnTables(mem, root) \ {root} : mem[f] # Empty

(* A call that fails leaves every table of every address space as it found *)
(* it, whatever was in the way and wherever the memory ran out.            *)
FailureRestores == op.pc = "failed" => mem = op.before

(* The safety invariants together: the tables form trees that only hold    *)
(* what is mapped, and no CPU walks a freed one.                           *)
Safety ==
  /\ TypeOK
  /\ NoWalkInFree
  /\ OneParent
  /\ KernelHalfShared
  /\ Pruned
  /\ FailureRestores
=============================================================================
