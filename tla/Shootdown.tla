----------------------------- MODULE Shootdown -----------------------------
(***************************************************************************)
(* The kernel's locks and the TLB shootdown that runs under them:          *)
(*   cpu/preempt.c      the global mutation lock, nested per CPU           *)
(*   cpu/local_lock.h   device locks, which also pin the running task      *)
(*   cpu/irq_lock.h     leaf locks, held with interrupts off               *)
(*   cpu/tlb.c          mailboxes: request, invalidate, acknowledge        *)
(* together with the page-table editors that start a shootdown (mm/vmm.c,  *)
(* mm/cow.c) and the reference counts of the frames they drop (mm/pmm.c).  *)
(*                                                                         *)
(* One user address space is modelled; the rest of the system shows as the *)
(* references that other address spaces hold on its frames after fork.     *)
(* Broadcast makes every other root behave in the same way.                *)
(*                                                                         *)
(* A leaf page-table entry is a frame and a permission.  Page-table frames *)
(* that an unmapping retires are freed at the same point as the leaf       *)
(* frames and are left out, as are the SHM mappings, whose permission      *)
(* fork does not change.                                                   *)
(*                                                                         *)
(* tlb_shootdown traps a caller that does not hold "the VMM lock".  No     *)
(* file of the tree has that lock or defines vmm_lock_held, and every      *)
(* caller holds the mutation guard alone, so what the check answers is a   *)
(* constant here: a sender that is answered no stops its CPU for good,     *)
(* one that is answered yes goes on under the guard.                       *)
(***************************************************************************)
EXTENDS Naturals, FiniteSets

CONSTANTS
  N,          \* smp_get_cpu_count()
  Vas,        \* user virtual pages
  Frames,     \* physical frames
  None,       \* no translation
  VmmLockHeld, \* what vmm_lock_held may answer to a caller with the guard
  MaxRefs,    \* UINT32_MAX - 1: the largest count pmm_ref_page allows
  MaxDepth,   \* bound: nesting of preemption guards
  MaxSeq,     \* bound: shootdowns in one behaviour
  Drivers     \* bound: the CPUs that run device code and take device IRQs

ASSUME NAssumption == N \in Nat /\ N > 0
ASSUME NoneAssumption == None \notin [frame : Frames, perm : {"ro", "cow", "rw"}]
ASSUME HeldAssumption == VmmLockHeld \in (SUBSET BOOLEAN) \ {{}}
ASSUME BoundAssumption == MaxRefs \in Nat \ {0} /\ MaxDepth \in Nat \ {0} /\ MaxSeq \in Nat
ASSUME DriversAssumption == Drivers \subseteq 0 .. N - 1

Cpus == 0 .. N - 1
Bsp == 0
All == "all"                     \* va == UINT64_MAX: flush everything

(* "ro" has neither PTE_WRITE nor PTE_COW, "cow" PTE_COW, "rw" PTE_WRITE.  *)
Entries == [frame : Frames, perm : {"ro", "cow", "rw"}]
Empty == [v \in Vas |-> None]

(***************************************************************************)
(* Where the code of a CPU is, device and leaf locks aside:                *)
(*   out      no guard held: user code, idle loop, kernel task             *)
(*   spin     in preempt_disable, waiting for the mutation lock            *)
(*   in       holding the mutation lock                                    *)
(*   sched    in schedule(), from the timer interrupt                      *)
(*   commit   in the commit loop of cow_clone_address_space                *)
(*   post     tlb_shootdown, first loop                                    *)
(*   self     tlb_shootdown, about to invalidate its own TLB               *)
(*   await    tlb_shootdown, second loop                                   *)
(*   release  back in the caller, about to drop the retired frames         *)
(*   trap     stopped by the check of tlb_shootdown, inside the call and   *)
(*            with the mutation lock held                                  *)
(***************************************************************************)
InShootdown == {"post", "self", "await", "release", "trap"}
Guarded == {"in", "sched", "commit"} \cup InShootdown
Places == {"out", "spin"} \cup Guarded
Phases == {"none", "spin", "held"}

VARIABLES
  mutation_lock,  \* the three spinlock words: 1 when taken
  device_lock,
  leaf_lock,
  preempt_count,  \* percpu.preempt_count
  iflag,          \* RFLAGS.IF
  pc,
  dev,            \* how far the CPU is with a device lock
  leaf,           \* how far the CPU is with a leaf lock
  leafFlags,      \* guard.flags: IF before the leaf lock
  online,         \* CPUs whose scheduler_online is set
  ap_go,          \* the AP gate
  sequence,       \* tlb.c: sequence
  address,        \* tlb.c: address
  tlb_request,    \* percpu.tlb_request
  tlb_ack,        \* percpu.tlb_ack
  poll,           \* request being served by tlb_poll, 0 when outside it
  op,             \* locals of the shootdown and of its caller
  pte,            \* the leaf entries of the address space
  tlb,            \* translations each CPU has cached
  refcounts       \* pmm.c: refcounts

locks == <<mutation_lock, device_lock, leaf_lock, preempt_count, iflag, pc,
           dev, leaf, leafFlags>>
mailbox == <<sequence, address, tlb_request, tlb_ack, poll>>
memory == <<pte, tlb, refcounts>>
vars == <<locks, online, ap_go, mailbox, op, memory>>

(***************************************************************************)
(* Locals: loop index, own sequence number, page to invalidate, CPUs       *)
(* posted to, frames to drop once the shootdown is over, pages of a fork   *)
(* that still have to be made copy-on-write.                               *)
(***************************************************************************)
Ops == [i : Cpus, seq : 0 .. MaxSeq, va : Vas \cup {All},
        targets : SUBSET Cpus, retired : SUBSET Frames, todo : SUBSET Vas]
NoOp == [i |-> 0, seq |-> 0, va |-> All, targets |-> {}, retired |-> {},
         todo |-> {}]

TypeOK ==
  /\ mutation_lock \in {0, 1} /\ device_lock \in {0, 1} /\ leaf_lock \in {0, 1}
  /\ preempt_count \in [Cpus -> 0 .. MaxDepth]
  /\ iflag \in [Cpus -> BOOLEAN]
  /\ pc \in [Cpus -> Places]
  /\ dev \in [Cpus -> Phases] /\ leaf \in [Cpus -> Phases]
  /\ leafFlags \in [Cpus -> BOOLEAN]
  /\ online \in SUBSET Cpus /\ ap_go \in BOOLEAN
  /\ sequence \in 0 .. MaxSeq /\ address \in Vas \cup {All}
  /\ tlb_request \in [Cpus -> 0 .. MaxSeq]
  /\ tlb_ack \in [Cpus -> 0 .. MaxSeq]
  /\ poll \in [Cpus -> 0 .. MaxSeq]
  /\ op \in [Cpus -> Ops]
  /\ pte \in [Vas -> Entries \cup {None}]
  /\ tlb \in [Cpus -> [Vas -> Entries \cup {None}]]
  /\ refcounts \in [Frames -> 0 .. MaxRefs]

Init ==
  /\ mutation_lock = 0 /\ device_lock = 0 /\ leaf_lock = 0
  /\ preempt_count = [c \in Cpus |-> 0]
  /\ iflag = [c \in Cpus |-> TRUE]
  /\ pc = [c \in Cpus |-> "out"]
  /\ dev = [c \in Cpus |-> "none"] /\ leaf = [c \in Cpus |-> "none"]
  /\ leafFlags = [c \in Cpus |-> TRUE]
  /\ online = {} /\ ap_go = FALSE
  /\ sequence = 0 /\ address = All
  /\ tlb_request = [c \in Cpus |-> 0]
  /\ tlb_ack = [c \in Cpus |-> 0]
  /\ poll = [c \in Cpus |-> 0]
  /\ op = [c \in Cpus |-> NoOp]
  /\ pte = Empty
  /\ tlb = [c \in Cpus |-> Empty]
  /\ refcounts = [f \in Frames |-> 0]

-----------------------------------------------------------------------------
(***************************************************************************)
(* Bring-up.  An AP runs nothing but its gate until it is online.          *)
(***************************************************************************)
Active == online \cup {Bsp}

(* smp_start_timers: the boot processor goes online, then opens the gate.  *)
smp_start_timers ==
  /\ ~ap_go /\ ap_go' = TRUE
  /\ online' = online \cup {Bsp}
  /\ UNCHANGED <<locks, mailbox, op, memory>>

smp_ap_main(c) ==
  /\ ap_go /\ c \notin online
  /\ online' = online \cup {c}
  /\ UNCHANGED <<locks, ap_go, mailbox, op, memory>>

-----------------------------------------------------------------------------
(***************************************************************************)
(* The locks.  tlb_poll and a leaf lock run to their end before the code   *)
(* they interrupt goes on.                                                 *)
(***************************************************************************)
local_preempt_count(c) == IF dev[c] = "none" THEN 0 ELSE 1
Awake(c) == c \in Active /\ poll[c] = 0 /\ leaf[c] = "none"
Runs(c) == Awake(c) /\ dev[c] = "none"

(* mutant: the trap on local_preempt_count is dropped *)
preempt_disable_NoTrap(c, flag) ==
  /\ Awake(c) /\ dev[c] # "spin" /\ preempt_count[c] < MaxDepth
  /\ preempt_count' = [preempt_count EXCEPT ![c] = @ + 1]
  /\ \/ pc[c] = "out" /\ pc' = [pc EXCEPT ![c] = "spin"]
        /\ iflag' = [iflag EXCEPT ![c] = flag]
     \/ pc[c] = "in" /\ flag = iflag[c] /\ UNCHANGED <<pc, iflag>>
  /\ UNCHANGED <<mutation_lock, device_lock, leaf_lock, dev, leaf, leafFlags,
                 online, ap_go, mailbox, op, memory>>

(***************************************************************************)
(* preempt_disable: the count goes up before the lock is taken; a nested   *)
(* call takes no lock.  System calls and faults arrive with IF clear,      *)
(* kernel tasks with IF set.  With a device lock held the call traps.      *)
(***************************************************************************)
preempt_disable(c, flag) ==
  /\ Awake(c) /\ local_preempt_count(c) = 0 /\ preempt_count[c] < MaxDepth
  /\ preempt_count' = [preempt_count EXCEPT ![c] = @ + 1]
  /\ \/ pc[c] = "out" /\ pc' = [pc EXCEPT ![c] = "spin"]
        /\ iflag' = [iflag EXCEPT ![c] = flag]
     \/ pc[c] = "in" /\ flag = iflag[c] /\ UNCHANGED <<pc, iflag>>
  /\ UNCHANGED <<mutation_lock, device_lock, leaf_lock, dev, leaf, leafFlags,
                 online, ap_go, mailbox, op, memory>>

(* The spin of preempt_disable ends: spin_trylock succeeds. *)
MutationAcquire(c) ==
  /\ Awake(c) /\ pc[c] = "spin" /\ mutation_lock = 0
  /\ mutation_lock' = 1
  /\ pc' = [pc EXCEPT ![c] = "in"]
  /\ UNCHANGED <<device_lock, leaf_lock, preempt_count, iflag, dev, leaf,
                 leafFlags, online, ap_go, mailbox, op, memory>>

(* mutant: every preempt_enable unlocks, nested or not *)
preempt_enable_Unlocks(c) ==
  /\ Runs(c) /\ pc[c] = "in"
  /\ preempt_count' = [preempt_count EXCEPT ![c] = @ - 1]
  /\ mutation_lock' = 0
  /\ \/ preempt_count[c] = 1 /\ pc' = [pc EXCEPT ![c] = "out"]
        /\ iflag' = [iflag EXCEPT ![c] = TRUE]
     \/ preempt_count[c] > 1 /\ UNCHANGED <<pc, iflag>>
  /\ UNCHANGED <<device_lock, leaf_lock, dev, leaf, leafFlags, online, ap_go,
                 mailbox, op, memory>>

(* preempt_enable, and the return to user code when it was the outermost.  *)
preempt_enable(c) ==
  /\ Runs(c) /\ pc[c] = "in"
  /\ preempt_count' = [preempt_count EXCEPT ![c] = @ - 1]
  /\ \/ /\ preempt_count[c] = 1
        /\ mutation_lock' = 0
        /\ pc' = [pc EXCEPT ![c] = "out"]
        /\ iflag' = [iflag EXCEPT ![c] = TRUE]
     \/ preempt_count[c] > 1 /\ UNCHANGED <<mutation_lock, pc, iflag>>
  /\ UNCHANGED <<device_lock, leaf_lock, dev, leaf, leafFlags, online, ap_go,
                 mailbox, op, memory>>

(* syscall_handler turns interrupts on once it holds the lock. *)
SyscallSti(c) ==
  /\ Runs(c) /\ pc[c] = "in" /\ ~iflag[c]
  /\ iflag' = [iflag EXCEPT ![c] = TRUE]
  /\ UNCHANGED <<mutation_lock, device_lock, leaf_lock, preempt_count, pc, dev,
                 leaf, leafFlags, online, ap_go, mailbox, op, memory>>

(* A timer interrupt whose preempt_try_disable succeeds enters schedule(). *)
preempt_try_disable(c) ==
  /\ Awake(c) /\ c \in online /\ iflag[c]
  /\ preempt_count[c] = 0 /\ local_preempt_count(c) = 0 /\ mutation_lock = 0
  /\ mutation_lock' = 1
  /\ preempt_count' = [preempt_count EXCEPT ![c] = 1]
  /\ pc' = [pc EXCEPT ![c] = "sched"]
  /\ iflag' = [iflag EXCEPT ![c] = FALSE]
  /\ UNCHANGED <<device_lock, leaf_lock, dev, leaf, leafFlags, online, ap_go,
                 mailbox, op, memory>>

(***************************************************************************)
(* The end of schedule(): vmm_switch_pml4 reloads CR3, which empties the   *)
(* TLB, when the next task has another root; preempt_enable; IRET.         *)
(***************************************************************************)
schedule(c) ==
  /\ Runs(c) /\ pc[c] = "sched"
  /\ \/ tlb' = [tlb EXCEPT ![c] = Empty]
     \/ UNCHANGED tlb
  /\ preempt_count' = [preempt_count EXCEPT ![c] = @ - 1]
  /\ mutation_lock' = 0
  /\ pc' = [pc EXCEPT ![c] = "out"]
  /\ iflag' = [iflag EXCEPT ![c] = TRUE]
  /\ UNCHANGED <<device_lock, leaf_lock, dev, leaf, leafFlags, online, ap_go,
                 mailbox, op, pte, refcounts>>

(* local_lock_enter, with or without the mutation guard. *)
local_lock_enter(c) ==
  /\ c \in Drivers /\ Awake(c) /\ pc[c] \in {"out", "in"}
  /\ local_preempt_count(c) = 0
  /\ dev' = [dev EXCEPT ![c] = "spin"]
  /\ UNCHANGED <<mutation_lock, device_lock, leaf_lock, preempt_count, iflag,
                 pc, leaf, leafFlags, online, ap_go, mailbox, op, memory>>

(***************************************************************************)
(* Its spin ends.  A try_only caller that finds the lock taken leaves no   *)
(* trace, so it is no step; one that finds it free does both steps.        *)
(***************************************************************************)
LocalAcquire(c) ==
  /\ Awake(c) /\ dev[c] = "spin" /\ device_lock = 0
  /\ device_lock' = 1
  /\ dev' = [dev EXCEPT ![c] = "held"]
  /\ UNCHANGED <<mutation_lock, leaf_lock, preempt_count, iflag, pc, leaf,
                 leafFlags, online, ap_go, mailbox, op, memory>>

local_lock_leave(c) ==
  /\ Awake(c) /\ dev[c] = "held" /\ pc[c] # "spin"
  /\ device_lock' = 0
  /\ dev' = [dev EXCEPT ![c] = "none"]
  /\ UNCHANGED <<mutation_lock, leaf_lock, preempt_count, iflag, pc, leaf,
                 leafFlags, online, ap_go, mailbox, op, memory>>

(***************************************************************************)
(* irq_lock_enter, by an interrupt handler (IF was set; any place) or by   *)
(* task code, and its release, which restores IF.                          *)
(***************************************************************************)
irq_lock_enter(c) ==
  /\ c \in Drivers /\ Awake(c)
  /\ iflag[c] \/ (pc[c] \in {"out", "in"} /\ dev[c] # "spin")
  /\ leaf' = [leaf EXCEPT ![c] = "spin"]
  /\ leafFlags' = [leafFlags EXCEPT ![c] = iflag[c]]
  /\ iflag' = [iflag EXCEPT ![c] = FALSE]
  /\ UNCHANGED <<mutation_lock, device_lock, leaf_lock, preempt_count, pc, dev,
                 online, ap_go, mailbox, op, memory>>

IrqAcquire(c) ==
  /\ poll[c] = 0 /\ leaf[c] = "spin" /\ leaf_lock = 0
  /\ leaf_lock' = 1
  /\ leaf' = [leaf EXCEPT ![c] = "held"]
  /\ UNCHANGED <<mutation_lock, device_lock, preempt_count, iflag, pc, dev,
                 leafFlags, online, ap_go, mailbox, op, memory>>

irq_lock_leave(c) ==
  /\ poll[c] = 0 /\ leaf[c] = "held"
  /\ leaf_lock' = 0
  /\ leaf' = [leaf EXCEPT ![c] = "none"]
  /\ iflag' = [iflag EXCEPT ![c] = leafFlags[c]]
  /\ leafFlags' = [leafFlags EXCEPT ![c] = TRUE]
  /\ UNCHANGED <<mutation_lock, device_lock, preempt_count, pc, dev, online,
                 ap_go, mailbox, op, memory>>

-----------------------------------------------------------------------------
(***************************************************************************)
(* Mailboxes.  invalidate(va) drops one page or everything.                *)
(***************************************************************************)
invalidate(t, va) ==
  [v \in Vas |-> IF va \in {v, All} THEN None ELSE t[v]]

(* mutant: preempt_disable spins without calling tlb_poll *)
SpinPolls_NotMutation(c) ==
  \/ leaf[c] = "spin"
  \/ leaf[c] = "none" /\ dev[c] = "spin"
  \/ leaf[c] = "none" /\ dev[c] = "none" /\ pc[c] = "await"

(* The loops that call tlb_poll: the three lock spins and the ack loop. *)
SpinPolls(c) ==
  \/ leaf[c] = "spin"
  \/ leaf[c] = "none" /\ dev[c] = "spin"
  \/ leaf[c] = "none" /\ dev[c] = "none" /\ pc[c] \in {"spin", "await"}

(***************************************************************************)
(* tlb_poll finds a request and invalidates: in a spin loop, or in the     *)
(* handler of vector 49 when IF is set.  The IPI follows the request       *)
(* immediately and stays pending in the LAPIC, so a request that is not    *)
(* acknowledged yet always has its IPI pending or in service.              *)
(***************************************************************************)
PollInvalidate(c) ==
  /\ c \in Active /\ poll[c] = 0
  /\ SpinPolls(c) \/ iflag[c]
  /\ tlb_request[c] # tlb_ack[c]
  /\ tlb' = [tlb EXCEPT ![c] = invalidate(@, address)]
  /\ poll' = [poll EXCEPT ![c] = tlb_request[c]]
  /\ UNCHANGED <<locks, online, ap_go, sequence, address, tlb_request, tlb_ack,
                 op, pte, refcounts>>

PollAck(c) ==
  /\ poll[c] # 0
  /\ tlb_ack' = [tlb_ack EXCEPT ![c] = poll[c]]
  /\ poll' = [poll EXCEPT ![c] = 0]
  /\ UNCHANGED <<locks, online, ap_go, sequence, address, tlb_request, op, memory>>

(* External: defined in no file, so any answer its users allow for. *)
vmm_lock_held(answer) == answer \in VmmLockHeld

(***************************************************************************)
(* The check fails: __builtin_trap, and the exception handler halts the    *)
(* CPU with interrupts off.  Nothing was posted; the edit stays.           *)
(***************************************************************************)
SenderTraps(c, va, retired, todo) ==
  /\ vmm_lock_held(FALSE)
  /\ op' = [op EXCEPT ![c] = [i |-> 0, seq |-> 0, va |-> va, targets |-> {},
              retired |-> retired, todo |-> todo]]
  /\ pc' = [pc EXCEPT ![c] = "trap"]
  /\ iflag' = [iflag EXCEPT ![c] = FALSE]
  /\ UNCHANGED <<mutation_lock, device_lock, leaf_lock, preempt_count, dev,
                 leaf, leafFlags, online, ap_go, mailbox, tlb>>

(* It succeeds: a new sequence number and the page to flush. *)
SenderStarts(c, va, retired, todo) ==
  /\ vmm_lock_held(TRUE)
  /\ sequence' = sequence + 1
  /\ address' = va
  /\ op' = [op EXCEPT ![c] = [i |-> 0, seq |-> sequence + 1, va |-> va,
              targets |-> {}, retired |-> retired, todo |-> todo]]
  /\ pc' = [pc EXCEPT ![c] = "post"]
  /\ UNCHANGED <<mutation_lock, device_lock, leaf_lock, preempt_count, iflag,
                 dev, leaf, leafFlags, online, ap_go, tlb_request, tlb_ack,
                 poll, tlb>>

tlb_shootdown(c, va, retired, todo) ==
  /\ sequence < MaxSeq
  /\ SenderTraps(c, va, retired, todo) \/ SenderStarts(c, va, retired, todo)

(* The hlt loop a trapped CPU ends in. *)
Halted(c) == pc[c] = "trap" /\ UNCHANGED vars

(* Both loops run over the CPUs in order and leave the index at 0. *)
NextCpu(i) == IF i = N - 1 THEN 0 ELSE i + 1

(* First loop: post to every other CPU that is online now. *)
ShootdownPost(c) ==
  /\ Runs(c) /\ pc[c] = "post"
  /\ LET i == op[c].i IN
       /\ \/ /\ i # c /\ i \in online
             /\ tlb_request' = [tlb_request EXCEPT ![i] = op[c].seq]
             /\ op' = [op EXCEPT ![c].i = NextCpu(i), ![c].targets = @ \cup {i}]
          \/ /\ i = c \/ i \notin online
             /\ op' = [op EXCEPT ![c].i = NextCpu(i)]
             /\ UNCHANGED tlb_request
       /\ pc' = [pc EXCEPT ![c] = IF i = N - 1 THEN "self" ELSE "post"]
  /\ UNCHANGED <<mutation_lock, device_lock, leaf_lock, preempt_count, iflag,
                 dev, leaf, leafFlags, online, ap_go, sequence, address,
                 tlb_ack, poll, memory>>

ShootdownSelf(c) ==
  /\ Runs(c) /\ pc[c] = "self"
  /\ tlb' = [tlb EXCEPT ![c] = invalidate(@, op[c].va)]
  /\ pc' = [pc EXCEPT ![c] = "await"]
  /\ UNCHANGED <<mutation_lock, device_lock, leaf_lock, preempt_count, iflag,
                 dev, leaf, leafFlags, online, ap_go, mailbox, op, pte,
                 refcounts>>

(* mutant: a posted request counts as an acknowledged one *)
Acknowledged_Posted(c, i) == i \in op[c].targets => tlb_request[i] = op[c].seq

Acknowledged(c, i) == i \in op[c].targets => tlb_ack[i] = op[c].seq

(* Second loop: wait for the targets in CPU order. *)
ShootdownAwait(c) ==
  /\ Runs(c) /\ pc[c] = "await"
  /\ LET i == op[c].i IN
       /\ Acknowledged(c, i)
       /\ op' = [op EXCEPT ![c].i = NextCpu(i)]
       /\ pc' = [pc EXCEPT ![c] = IF i = N - 1 THEN "release" ELSE "await"]
  /\ UNCHANGED <<mutation_lock, device_lock, leaf_lock, preempt_count, iflag,
                 dev, leaf, leafFlags, online, ap_go, mailbox, memory>>

(***************************************************************************)
(* The caller drops the frames it unmapped (pmm_free_page), and a fork     *)
(* turns to its next page.                                                 *)
(***************************************************************************)
Release(c) ==
  /\ Runs(c) /\ pc[c] = "release"
  /\ refcounts' = [f \in Frames |-> IF f \in op[c].retired
                                    THEN refcounts[f] - 1 ELSE refcounts[f]]
  /\ pc' = [pc EXCEPT ![c] = IF op[c].todo = {} THEN "in" ELSE "commit"]
  /\ op' = [op EXCEPT ![c] = [NoOp EXCEPT !.todo = op[c].todo]]
  /\ UNCHANGED <<mutation_lock, device_lock, leaf_lock, preempt_count, iflag,
                 dev, leaf, leafFlags, online, ap_go, mailbox, pte, tlb>>

-----------------------------------------------------------------------------
(***************************************************************************)
(* Page-table editors.  Each runs under the guard and trusts it: a device  *)
(* lock held here would have trapped in preempt_disable.                   *)
(***************************************************************************)
Editing(c) == Runs(c) /\ pc[c] = "in"
Mapped(v) == pte[v] # None
FreeFrames == {f \in Frames : refcounts[f] = 0}

(* A fresh frame mapped at v: pmm_alloc_page, then map_page with a flush. *)
vmm_map_page_in(c, v, f, perm) ==
  /\ Editing(c) /\ ~Mapped(v) /\ f \in FreeFrames
  /\ refcounts' = [refcounts EXCEPT ![f] = 1]
  /\ pte' = [pte EXCEPT ![v] = [frame |-> f, perm |-> perm]]
  /\ tlb_shootdown(c, v, {}, {})

(* mutant: the frame goes back to the allocator before the shootdown *)
vmm_unmap_page_in_FreeFirst(c, v, va) ==
  /\ Editing(c) /\ Mapped(v) /\ va \in {v, All}
  /\ pte' = [pte EXCEPT ![v] = None]
  /\ refcounts' = [refcounts EXCEPT ![pte[v].frame] = @ - 1]
  /\ tlb_shootdown(c, va, {}, {})

(***************************************************************************)
(* vmm_unmap_page_in flushes everything when a page table became empty,    *)
(* the page alone otherwise.  Its caller drops the frame it returns.       *)
(***************************************************************************)
vmm_unmap_page_in(c, v, va) ==
  /\ Editing(c) /\ Mapped(v) /\ va \in {v, All}
  /\ pte' = [pte EXCEPT ![v] = None]
  /\ UNCHANGED refcounts
  /\ tlb_shootdown(c, va, {pte[v].frame}, {})

(* user_free: unmap a range, one full flush, then drop all its frames. *)
user_free(c, range) ==
  /\ Editing(c) /\ range # {} /\ \A v \in range : Mapped(v)
  /\ pte' = [v \in Vas |-> IF v \in range THEN None ELSE pte[v]]
  /\ UNCHANGED refcounts
  /\ tlb_shootdown(c, All, {pte[v].frame : v \in range}, {})

(* mutant: pmm_ref_page does not saturate *)
pmm_ref_page_NoLimit(f) == refcounts[f] > 0

(* pmm_ref_page succeeds: an allocated frame whose count is not at its end. *)
pmm_ref_page(f) == refcounts[f] > 0 /\ refcounts[f] < MaxRefs

(***************************************************************************)
(* cow_clone_address_space: the child takes a reference on every private   *)
(* frame, then the pages that can be written become copy-on-write one at a *)
(* time, each with its own shootdown.  When pmm_ref_page refuses a frame,  *)
(* the child is discarded and nothing has changed.                         *)
(***************************************************************************)
cow_clone_address_space(c) ==
  /\ Editing(c)
  /\ LET frames == {pte[v].frame : v \in {w \in Vas : Mapped(w)}} IN
       /\ \A f \in frames : pmm_ref_page(f)
       /\ refcounts' = [f \in Frames |-> IF f \in frames
                                         THEN refcounts[f] + 1 ELSE refcounts[f]]
  /\ LET pages == {v \in Vas : Mapped(v) /\ pte[v].perm # "ro"} IN
       /\ sequence + Cardinality(pages) <= MaxSeq
       /\ op' = [op EXCEPT ![c].todo = pages]
       /\ pc' = [pc EXCEPT ![c] = IF pages = {} THEN "in" ELSE "commit"]
  /\ UNCHANGED <<mutation_lock, device_lock, leaf_lock, preempt_count, iflag,
                 dev, leaf, leafFlags, online, ap_go, mailbox, pte, tlb>>

(* mutant: the commit loop does not flush the page it protects *)
CowCommit_NoFlush(c, v) ==
  /\ Runs(c) /\ pc[c] = "commit" /\ v \in op[c].todo
  /\ pte' = [pte EXCEPT ![v].perm = "cow"]
  /\ op' = [op EXCEPT ![c].todo = @ \ {v}]
  /\ pc' = [pc EXCEPT ![c] = IF op[c].todo = {v} THEN "in" ELSE "commit"]
  /\ UNCHANGED <<mutation_lock, device_lock, leaf_lock, preempt_count, iflag,
                 dev, leaf, leafFlags, online, ap_go, mailbox, tlb, refcounts>>

CowCommit(c, v) ==
  /\ Runs(c) /\ pc[c] = "commit" /\ v \in op[c].todo
  /\ pte' = [pte EXCEPT ![v].perm = "cow"]
  /\ UNCHANGED refcounts
  /\ tlb_shootdown(c, v, {}, op[c].todo \ {v})

(* cow_resolve when a sibling resolved the fault first: flush and retry. *)
CowRetry(c, v) ==
  /\ Editing(c) /\ Mapped(v) /\ pte[v].perm = "rw"
  /\ UNCHANGED <<pte, refcounts>>
  /\ tlb_shootdown(c, v, {}, {})

(* cow_resolve of the last reference: the frame becomes writable in place. *)
CowReuse(c, v) ==
  /\ Editing(c) /\ Mapped(v) /\ pte[v].perm = "cow"
  /\ refcounts[pte[v].frame] = 1
  /\ pte' = [pte EXCEPT ![v].perm = "rw"]
  /\ UNCHANGED refcounts
  /\ tlb_shootdown(c, v, {}, {})

(* cow_resolve of a shared frame: copy, remap, flush, drop the old frame. *)
CowCopy(c, v, f) ==
  /\ Editing(c) /\ Mapped(v) /\ pte[v].perm = "cow"
  /\ refcounts[pte[v].frame] > 1 /\ f \in FreeFrames
  /\ refcounts' = [refcounts EXCEPT ![f] = 1]
  /\ pte' = [pte EXCEPT ![v] = [frame |-> f, perm |-> "rw"]]
  /\ tlb_shootdown(c, v, {pte[v].frame}, {})

(* Another address space drops its reference (exit, or its own copy). *)
pmm_free_page(c, f) ==
  /\ Editing(c)
  /\ refcounts[f] > IF \E v \in Vas : Mapped(v) /\ pte[v].frame = f THEN 1 ELSE 0
  /\ refcounts' = [refcounts EXCEPT ![f] = @ - 1]
  /\ UNCHANGED <<locks, online, ap_go, mailbox, op, pte, tlb>>

(* The page walker of any running CPU caches a translation at any time. *)
Fill(c, v) ==
  /\ c \in Active /\ tlb[c][v] = None /\ Mapped(v)
  /\ tlb' = [tlb EXCEPT ![c][v] = pte[v]]
  /\ UNCHANGED <<locks, online, ap_go, mailbox, op, pte, refcounts>>

-----------------------------------------------------------------------------
LockStep(c) ==
  \/ \E flag \in BOOLEAN : preempt_disable(c, flag)
  \/ MutationAcquire(c) \/ preempt_enable(c) \/ SyscallSti(c)
  \/ preempt_try_disable(c) \/ schedule(c)
  \/ local_lock_enter(c) \/ LocalAcquire(c) \/ local_lock_leave(c)
  \/ irq_lock_enter(c) \/ IrqAcquire(c) \/ irq_lock_leave(c)

ShootdownStep(c) ==
  \/ PollInvalidate(c) \/ PollAck(c)
  \/ ShootdownPost(c) \/ ShootdownSelf(c) \/ ShootdownAwait(c) \/ Release(c)
  \/ Halted(c)

MemoryStep(c) ==
  \/ \E v \in Vas :
       \/ \E f \in Frames, perm \in {"ro", "rw"} : vmm_map_page_in(c, v, f, perm)
       \/ \E va \in {v, All} : vmm_unmap_page_in(c, v, va)
       \/ CowCommit(c, v) \/ CowRetry(c, v) \/ CowReuse(c, v)
       \/ \E f \in Frames : CowCopy(c, v, f)
       \/ Fill(c, v)
  \/ \E range \in SUBSET Vas : user_free(c, range)
  \/ cow_clone_address_space(c)
  \/ \E f \in Frames : pmm_free_page(c, f)

Next ==
  \/ smp_start_timers
  \/ \E c \in Cpus : smp_ap_main(c) \/ LockStep(c) \/ ShootdownStep(c)
                     \/ MemoryStep(c)

Spec == Init /\ [][Next]_vars

(***************************************************************************)
(* Fairness.  A pending IPI stays in the LAPIC and a spinning CPU polls in *)
(* every round, so a CPU that can serve a request again and again does     *)
(* serve it, however often device interrupts come first.  Once in, a poll  *)
(* and a leaf section run straight to their end.  Nothing is assumed of    *)
(* the spinlocks: test-and-set promises no CPU its turn.                   *)
(***************************************************************************)
Fairness ==
  \A c \in Cpus : /\ SF_vars(PollInvalidate(c))
                  /\ WF_vars(PollAck(c))
                  /\ WF_vars(irq_lock_leave(c))

LiveSpec == Spec /\ Fairness

-----------------------------------------------------------------------------
(***************************************************************************)
(* Each lock protects one CPU at a time: the mutation lock through nested  *)
(* guards, timer interrupts that only try, and shootdowns that spin with   *)
(* it held; device and leaf locks on their own.                            *)
(***************************************************************************)
MutualExclusion ==
  \A c, d \in Cpus :
    \/ pc[c] \in Guarded /\ pc[d] \in Guarded
    \/ dev[c] = "held" /\ dev[d] = "held"
    \/ leaf[c] = "held" /\ leaf[d] = "held"
    => c = d

(***************************************************************************)
(* No CPU, not even one that came online in the middle, keeps a cached     *)
(* translation that the page table no longer has, except for the page a    *)
(* shootdown in progress is about: when tlb_shootdown returns, frames can  *)
(* be reused and permissions relied on.  A sender that trapped is still    *)
(* inside the call, and nobody is let into the guard after it.             *)
(***************************************************************************)
NoStaleTranslation ==
  \A c \in Cpus, v \in Vas :
    tlb[c][v] \notin {None, pte[v]} =>
      \E d \in Cpus : /\ pc[d] \in {"post", "self", "await", "trap"}
                     /\ op[d].va \in {v, All}

(***************************************************************************)
(* No TLB anywhere reaches a frame the allocator considers free, at any    *)
(* point of unmapping, range release, copy-on-write or fork.               *)
(***************************************************************************)
FrameOwned ==
  \A c \in Cpus, v \in Vas :
    tlb[c][v] # None => refcounts[tlb[c][v].frame] > 0

(***************************************************************************)
(* After fork no thread of the parent, on any CPU, can still write to a    *)
(* frame the child shares: a writable translation of a shared frame exists *)
(* only while the commit loop of the fork has that page ahead of it.       *)
(***************************************************************************)
CowIsolation ==
  \A c \in Cpus, v \in Vas :
    /\ tlb[c][v] # None
    /\ tlb[c][v].perm = "rw"
    /\ refcounts[tlb[c][v].frame] > 1
    => \E d \in Cpus :
         \/ pc[d] \in {"commit"} \cup InShootdown /\ v \in op[d].todo
         \/ pc[d] \in {"post", "self", "await", "trap"} /\ op[d].va = v

(***************************************************************************)
(* c cannot go on before d does something: it spins for a lock d holds, or *)
(* waits for an acknowledgement that d is in no position to give.          *)
(***************************************************************************)
Waits(c, d) ==
  \/ leaf[c] = "spin" /\ leaf[d] = "held"
  \/ leaf[c] = "none" /\ dev[c] = "spin" /\ dev[d] = "held"
  \/ leaf[c] = "none" /\ pc[c] = "spin" /\ pc[d] \in Guarded
  \/ /\ leaf[c] = "none" /\ pc[c] = "await"
     /\ d = op[c].i /\ ~Acknowledged(c, d)
     /\ poll[d] = 0 /\ ~SpinPolls(d) /\ ~iflag[d]

(***************************************************************************)
(* No set of CPUs waits only for each other, whatever mix they wait for of *)
(* the three kinds of lock the tree has and of shootdown acknowledgements. *)
(* A CPU that trapped waits for nobody; those that spin for its lock do so *)
(* for ever, which is no circle.                                           *)
(***************************************************************************)
NoWaitCycle ==
  \A S \in (SUBSET Cpus) \ {{}} : \E c \in S : \A d \in S : ~Waits(c, d)

(***************************************************************************)
(* Every CPU acknowledges every request, whether it spins for a lock with  *)
(* interrupts off, runs user code or sits in a device section: a sender    *)
(* that got past its check is not left waiting with the lock held.         *)
(***************************************************************************)
Acked ==
  \A c \in Cpus : tlb_request[c] # tlb_ack[c] ~> tlb_request[c] = tlb_ack[c]

(***************************************************************************)
(* "caller holds the VMM lock, never just PREEMPT_GUARD" (cpu/tlb.h:3): no *)
(* CPU fails the check of tlb_shootdown.  Every caller of the tree enters  *)
(* with the guard alone, so it takes a vmm_lock_held that says yes to it.  *)
(***************************************************************************)
SenderHoldsLock == \A c \in Cpus : pc[c] # "trap"

=============================================================================
