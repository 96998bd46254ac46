-------------------------- MODULE ShootdownProofs --------------------------
(***************************************************************************)
(* Proofs about the kernel's locks and the TLB shootdown for any number of *)
(* CPUs, pages and frames.  First the locks: exclusion, and the absence of *)
(* circular waiting between locks and shootdowns.  Then memory: no stale   *)
(* translation outlives a shootdown, no TLB reaches a free frame, and fork *)
(* isolates parent and child.                                              *)
(*                                                                         *)
(* All of it holds for every VmmLockHeld, that is whatever the check at    *)
(* the start of tlb_shootdown answers its callers, which hold the mutation *)
(* guard and no other lock: a sender that is answered no stops inside the  *)
(* call with the guard held, so what is proved of the mailboxes rests on   *)
(* the guard alone.  That no sender is ever stopped is not proved, and is  *)
(* false unless VmmLockHeld is {TRUE}.                                     *)
(***************************************************************************)
EXTENDS Shootdown, TLAPS

(* The functions the lock argument reads. *)
LockType ==
  /\ pc \in [Cpus -> Places]
  /\ dev \in [Cpus -> Phases]
  /\ leaf \in [Cpus -> Phases]
  /\ iflag \in [Cpus -> BOOLEAN]
  /\ leafFlags \in [Cpus -> BOOLEAN]

(* A free lock word means that no CPU is in the section it protects. *)
Excluded(word, inside) ==
  /\ word = 0 => inside = {}
  /\ \A c, d \in inside : c = d

Inside == {c \in Cpus : pc[c] \in Guarded}
DevHolders == {c \in Cpus : dev[c] = "held"}
LeafHolders == {c \in Cpus : leaf[c] = "held"}

(* A device lock is entered from unguarded code or directly under the guard. *)
DevicePlace == \A c \in Cpus : dev[c] # "none" => pc[c] \in {"out", "in"}

(* Unguarded code runs with interrupts on, leaf sections aside. *)
OutInterruptible ==
  \A c \in Cpus : pc[c] = "out" =>
    IF leaf[c] = "none" THEN iflag[c] ELSE leafFlags[c]

LockInv ==
  /\ LockType
  /\ Excluded(mutation_lock, Inside)
  /\ Excluded(device_lock, DevHolders)
  /\ Excluded(leaf_lock, LeafHolders)
  /\ DevicePlace
  /\ OutInterruptible

USE NAssumption, NoneAssumption, BoundAssumption, DriversAssumption

LEMMA LockInit == Init => LockInv
BY DEF Init, LockInv, LockType, Excluded, Inside, DevHolders, LeafHolders,
       DevicePlace, OutInterruptible, Places, Phases, Guarded, InShootdown

(***************************************************************************)
(* A step that moves one CPU from a guarded place to another, and touches  *)
(* none of the locks, keeps the invariant; it may turn interrupts off.     *)
(***************************************************************************)
LEMMA GuardedMove ==
  ASSUME LockInv, NEW c \in Cpus, NEW p \in Guarded,
         pc[c] \in Guarded, dev[c] = "none", pc' = [pc EXCEPT ![c] = p],
         iflag' = iflag \/ iflag' = [iflag EXCEPT ![c] = FALSE],
         UNCHANGED <<mutation_lock, device_lock, leaf_lock, dev, leaf, leafFlags>>
  PROVE  LockInv'
<1>1. p \in Places /\ p # "out"
  BY DEF Places, Guarded, InShootdown
<1>2. LockType'
  BY <1>1 DEF LockInv, LockType
<1>3. Inside' = Inside
  BY <1>1 DEF LockInv, LockType, Inside
<1>4. DevicePlace' /\ OutInterruptible'
  BY <1>1 DEF LockInv, LockType, DevicePlace, OutInterruptible
<1>. QED BY <1>2, <1>3, <1>4 DEF LockInv, Excluded, DevHolders, LeafHolders

LEMMA LockStepInv ==
  ASSUME LockInv, NEW c \in Cpus, LockStep(c)
  PROVE  LockInv'
<1>. USE DEF LockInv, LockType, Excluded, Inside, DevHolders, LeafHolders,
             DevicePlace, OutInterruptible, Places, Phases, Guarded, InShootdown
<1>1. ASSUME NEW flag \in BOOLEAN, preempt_disable(c, flag) PROVE LockInv'
  BY <1>1 DEF preempt_disable, Awake, local_preempt_count
<1>2. ASSUME MutationAcquire(c) PROVE LockInv'
  BY <1>2 DEF MutationAcquire, Awake
<1>3. ASSUME preempt_enable(c) PROVE LockInv'
  <2>1. CASE preempt_count[c] = 1 /\ mutation_lock' = 0
             /\ pc' = [pc EXCEPT ![c] = "out"]
             /\ iflag' = [iflag EXCEPT ![c] = TRUE]
    BY <1>3, <2>1 DEF preempt_enable, Runs, Awake
  <2>2. CASE UNCHANGED <<mutation_lock, pc, iflag>>
    BY <1>3, <2>2 DEF preempt_enable
  <2>. QED BY <1>3, <2>1, <2>2 DEF preempt_enable
<1>4. ASSUME SyscallSti(c) PROVE LockInv'
  BY <1>4 DEF SyscallSti, Runs, Awake
<1>5. ASSUME preempt_try_disable(c) PROVE LockInv'
  BY <1>5 DEF preempt_try_disable, Awake, local_preempt_count
<1>6. ASSUME schedule(c) PROVE LockInv'
  BY <1>6 DEF schedule, Runs, Awake
<1>7. ASSUME local_lock_enter(c) PROVE LockInv'
  BY <1>7 DEF local_lock_enter, Awake, local_preempt_count
<1>8. ASSUME LocalAcquire(c) PROVE LockInv'
  BY <1>8 DEF LocalAcquire, Awake
<1>9. ASSUME local_lock_leave(c) PROVE LockInv'
  BY <1>9 DEF local_lock_leave, Awake
<1>10. ASSUME irq_lock_enter(c) PROVE LockInv'
  BY <1>10 DEF irq_lock_enter, Awake
<1>11. ASSUME IrqAcquire(c) PROVE LockInv'
  BY <1>11 DEF IrqAcquire
<1>12. ASSUME irq_lock_leave(c) PROVE LockInv'
  BY <1>12 DEF irq_lock_leave
<1>. QED BY <1>1, <1>2, <1>3, <1>4, <1>5, <1>6, <1>7, <1>8, <1>9, <1>10, <1>11,
            <1>12 DEF LockStep

(* No step outside the locks changes a lock or lets a CPU out of its guard. *)
LEMMA LocksUntouched ==
  ASSUME LockInv, UNCHANGED locks
  PROVE  LockInv'
BY DEF locks, LockInv, LockType, Excluded, Inside, DevHolders, LeafHolders,
       DevicePlace, OutInterruptible

LEMMA ShootdownStepInv ==
  ASSUME LockInv, NEW c \in Cpus, ShootdownStep(c)
  PROVE  LockInv'
<1>1. ASSUME PollInvalidate(c) \/ PollAck(c) PROVE LockInv'
  BY <1>1, LocksUntouched DEF PollInvalidate, PollAck
<1>2. ASSUME ShootdownPost(c) PROVE LockInv'
  <2>1. PICK p \in {"self", "post"} : pc' = [pc EXCEPT ![c] = p]
    BY <1>2 DEF ShootdownPost
  <2>2. /\ pc[c] \in Guarded /\ dev[c] = "none"
        /\ UNCHANGED <<mutation_lock, device_lock, leaf_lock, iflag, dev, leaf,
                       leafFlags>>
    BY <1>2 DEF ShootdownPost, Runs, Guarded, InShootdown
  <2>3. p \in Guarded
    BY DEF Guarded, InShootdown
  <2>. QED BY <2>1, <2>2, <2>3, GuardedMove
<1>3. ASSUME ShootdownSelf(c) PROVE LockInv'
  <2>1. /\ pc' = [pc EXCEPT ![c] = "await"] /\ "await" \in Guarded
        /\ pc[c] \in Guarded /\ dev[c] = "none"
        /\ UNCHANGED <<mutation_lock, device_lock, leaf_lock, iflag, dev, leaf,
                       leafFlags>>
    BY <1>3 DEF ShootdownSelf, Runs, Guarded, InShootdown
  <2>. QED BY <2>1, GuardedMove
<1>4. ASSUME ShootdownAwait(c) PROVE LockInv'
  <2>1. PICK p \in {"await", "release"} : pc' = [pc EXCEPT ![c] = p]
    BY <1>4 DEF ShootdownAwait
  <2>2. /\ pc[c] \in Guarded /\ dev[c] = "none"
        /\ UNCHANGED <<mutation_lock, device_lock, leaf_lock, iflag, dev, leaf,
                       leafFlags>>
    BY <1>4 DEF ShootdownAwait, Runs, Guarded, InShootdown
  <2>3. p \in Guarded
    BY DEF Guarded, InShootdown
  <2>. QED BY <2>1, <2>2, <2>3, GuardedMove
<1>5. ASSUME Release(c) PROVE LockInv'
  <2>1. PICK p \in {"in", "commit"} : pc' = [pc EXCEPT ![c] = p]
    BY <1>5 DEF Release
  <2>2. /\ pc[c] \in Guarded /\ dev[c] = "none"
        /\ UNCHANGED <<mutation_lock, device_lock, leaf_lock, iflag, dev, leaf,
                       leafFlags>>
    BY <1>5 DEF Release, Runs, Guarded, InShootdown
  <2>3. p \in Guarded
    BY DEF Guarded, InShootdown
  <2>. QED BY <2>1, <2>2, <2>3, GuardedMove
<1>6. ASSUME Halted(c) PROVE LockInv'
  BY <1>6, LocksUntouched DEF Halted, vars
<1>. QED BY <1>1, <1>2, <1>3, <1>4, <1>5, <1>6 DEF ShootdownStep

(* The entry of tlb_shootdown moves its caller to "post" or stops it. *)
LEMMA ShootdownEntry ==
  ASSUME LockInv, NEW c \in Cpus, NEW va, NEW retired, NEW todo,
         Runs(c), pc[c] \in {"in", "commit"}, tlb_shootdown(c, va, retired, todo)
  PROVE  LockInv'
<1>1. PICK p \in {"post", "trap"} : pc' = [pc EXCEPT ![c] = p]
  BY DEF tlb_shootdown, SenderTraps, SenderStarts
<1>2. /\ p \in Guarded /\ pc[c] \in Guarded /\ dev[c] = "none"
      /\ iflag' = iflag \/ iflag' = [iflag EXCEPT ![c] = FALSE]
      /\ UNCHANGED <<mutation_lock, device_lock, leaf_lock, dev, leaf, leafFlags>>
  BY DEF tlb_shootdown, SenderTraps, SenderStarts, Runs, Guarded, InShootdown
<1>. QED BY <1>1, <1>2, GuardedMove

LEMMA MemoryStepInv ==
  ASSUME LockInv, NEW c \in Cpus, MemoryStep(c)
  PROVE  LockInv'
<1>1. ASSUME NEW v \in Vas, NEW f \in Frames, NEW perm \in {"ro", "rw"},
             vmm_map_page_in(c, v, f, perm)
      PROVE  LockInv'
  BY <1>1, ShootdownEntry DEF vmm_map_page_in, Editing
<1>2. ASSUME NEW v \in Vas, NEW va \in {v, All}, vmm_unmap_page_in(c, v, va)
      PROVE  LockInv'
  BY <1>2, ShootdownEntry DEF vmm_unmap_page_in, Editing
<1>3. ASSUME NEW v \in Vas, CowCommit(c, v) PROVE LockInv'
  BY <1>3, ShootdownEntry DEF CowCommit
<1>4. ASSUME NEW v \in Vas, CowRetry(c, v) PROVE LockInv'
  BY <1>4, ShootdownEntry DEF CowRetry, Editing
<1>5. ASSUME NEW v \in Vas, CowReuse(c, v) PROVE LockInv'
  BY <1>5, ShootdownEntry DEF CowReuse, Editing
<1>6. ASSUME NEW v \in Vas, NEW f \in Frames, CowCopy(c, v, f) PROVE LockInv'
  BY <1>6, ShootdownEntry DEF CowCopy, Editing
<1>7. ASSUME NEW v \in Vas, Fill(c, v) PROVE LockInv'
  BY <1>7, LocksUntouched DEF Fill
<1>8. ASSUME NEW range \in SUBSET Vas, user_free(c, range) PROVE LockInv'
  BY <1>8, ShootdownEntry DEF user_free, Editing
<1>9. ASSUME cow_clone_address_space(c) PROVE LockInv'
  <2>1. PICK p \in {"in", "commit"} : pc' = [pc EXCEPT ![c] = p]
    BY <1>9 DEF cow_clone_address_space
  <2>2. /\ pc[c] \in Guarded /\ dev[c] = "none"
        /\ UNCHANGED <<mutation_lock, device_lock, leaf_lock, iflag, dev, leaf,
                       leafFlags>>
    BY <1>9 DEF cow_clone_address_space, Editing, Runs, Guarded, InShootdown
  <2>3. p \in Guarded
    BY DEF Guarded, InShootdown
  <2>. QED BY <2>1, <2>2, <2>3, GuardedMove
<1>10. ASSUME NEW f \in Frames, pmm_free_page(c, f) PROVE LockInv'
  BY <1>10, LocksUntouched DEF pmm_free_page
<1>. QED BY <1>1, <1>2, <1>3, <1>4, <1>5, <1>6, <1>7, <1>8, <1>9, <1>10
         DEF MemoryStep

LEMMA LockNext == LockInv /\ [Next]_vars => LockInv'
<1>. SUFFICES ASSUME LockInv, [Next]_vars PROVE LockInv'
  OBVIOUS
<1>1. CASE smp_start_timers
  BY <1>1, LocksUntouched DEF smp_start_timers
<1>2. ASSUME NEW c \in Cpus, smp_ap_main(c) PROVE LockInv'
  BY <1>2, LocksUntouched DEF smp_ap_main
<1>3. CASE UNCHANGED vars
  BY <1>3, LocksUntouched DEF vars
<1>. QED BY <1>1, <1>2, <1>3, LockStepInv, ShootdownStepInv, MemoryStepInv DEF Next

LEMMA LockInvariance == Spec => []LockInv
BY LockInit, LockNext, PTL DEF Spec

-----------------------------------------------------------------------------
(***************************************************************************)
(* For any number of CPUs: at most one is inside the guard of the mutation *)
(* lock (nested guards, schedule() and shootdowns included), at most one   *)
(* holds the device lock and at most one the leaf lock.                    *)
(***************************************************************************)
THEOREM KernelExclusion == Spec => []MutualExclusion
<1>1. LockInv => MutualExclusion
  BY DEF LockInv, Excluded, Inside, DevHolders, LeafHolders, MutualExclusion
<1>. QED BY <1>1, LockInvariance, PTL

(***************************************************************************)
(* The order mutation lock, device lock, leaf lock is respected, so the    *)
(* CPU furthest down in it waits for nobody in the set; a shootdown waits  *)
(* only for CPUs in a leaf section, since every other place either polls   *)
(* or runs with interrupts on.                                             *)
(***************************************************************************)
LEMMA SomeoneMoves ==
  ASSUME LockInv, NEW S \in SUBSET Cpus, S # {}
  PROVE  \E c \in S : \A d \in S : ~Waits(c, d)
<1>. USE DEF Waits
<1>1. CASE \E c \in S : leaf[c] = "held"
  BY <1>1
<1>2. CASE (\A d \in S : leaf[d] # "held") /\ \E c \in S : leaf[c] = "spin"
  BY <1>2
<1>3. CASE \A d \in S : leaf[d] = "none"
  <2>1. CASE \E c \in S : dev[c] = "held"
    BY <1>3, <2>1 DEF LockInv, DevicePlace
  <2>2. CASE (\A d \in S : dev[d] # "held") /\ \E c \in S : dev[c] = "spin"
    BY <1>3, <2>2 DEF LockInv, DevicePlace
  <2>3. CASE \A d \in S : dev[d] = "none"
    <3>1. CASE \E c \in S : pc[c] \in Guarded
      <4>1. PICK c \in S : pc[c] \in Guarded
        BY <3>1
      <4>2. ASSUME NEW d \in S, Waits(c, d) PROVE FALSE
        <5>1. pc[c] = "await" /\ ~SpinPolls(d) /\ ~iflag[d]
          BY <1>3, <2>3, <4>1, <4>2 DEF Guarded, InShootdown
        <5>2. pc[d] \notin {"spin", "await"}
          BY <1>3, <2>3, <5>1 DEF SpinPolls
        <5>3. d # c
          BY <5>1, <5>2
        <5>4. pc[d] = "out"
          BY <4>1, <5>2, <5>3
             DEF LockInv, LockType, Excluded, Inside, Places
        <5>. QED BY <1>3, <5>1, <5>4 DEF LockInv, OutInterruptible
      <4>. QED BY <4>2
    <3>2. CASE \A c \in S : pc[c] \notin Guarded
      BY <1>3, <2>3, <3>2 DEF Guarded, InShootdown
    <3>. QED BY <3>1, <3>2
  <2>. QED BY <2>1, <2>2, <2>3 DEF LockInv, LockType, Phases
<1>. QED BY <1>1, <1>2, <1>3 DEF LockInv, LockType, Phases

(***************************************************************************)
(* For any number of CPUs, no set of them waits only for each other, for   *)
(* the mutation, device and leaf locks and for acknowledgements: those are *)
(* all the locks the tree has, the VMM lock of its documents not being     *)
(* among them.                                                             *)
(***************************************************************************)
THEOREM NoCircularWait == Spec => []NoWaitCycle
<1>1. LockInv => NoWaitCycle
  BY SomeoneMoves DEF NoWaitCycle
<1>. QED BY <1>1, LockInvariance, PTL

-----------------------------------------------------------------------------
USE NAssumption, NoneAssumption, BoundAssumption, DriversAssumption

(* The two loops and the local flush of tlb_shootdown. *)
Flushing == {"post", "self", "await"}
(* Inside the call: those, or stopped by its check. *)
Called == Flushing \cup {"trap"}
Forking == {"commit"} \cup InShootdown

(* The preemption count is zero in unguarded code only; schedule() is not nested. *)
Counted ==
  \A c \in Cpus : /\ pc[c] = "out" => preempt_count[c] = 0
                  /\ pc[c] # "out" => preempt_count[c] > 0
                  /\ pc[c] = "sched" => preempt_count[c] = 1

(* The locals of a CPU that is not in a shootdown or a fork are clear. *)
IdleOps ==
  \A c \in Cpus :
    /\ pc[c] \notin Forking => op[c] = NoOp
    /\ pc[c] = "commit" => op[c].retired = {}
    /\ pc[c] = "self" => op[c].i = 0
    /\ \A v \in op[c].todo : pte[v] # None /\ pte[v].perm # "ro"

(* A CPU that is not online has run nothing and cached nothing. *)
Offline ==
  /\ IF ap_go THEN Bsp \in online ELSE online = {}
  /\ \A c \in Cpus \ Active : pc[c] = "out" /\ tlb[c] = Empty

(* Mailboxes never run ahead, and are empty between shootdowns. *)
Mail ==
  \A c \in Cpus :
    /\ tlb_ack[c] <= tlb_request[c] /\ tlb_request[c] <= sequence
    /\ poll[c] # 0 => poll[c] = tlb_request[c] /\ tlb_request[c] # tlb_ack[c]
    /\ (\A d \in Cpus : pc[d] \notin Flushing) => tlb_request[c] = tlb_ack[c]

(* What the CPU d in tlb_shootdown knows of the mailboxes. *)
Round(d) ==
  /\ op[d].seq = sequence /\ address = op[d].va
  /\ \A c \in op[d].targets :
       c \in online /\ c # d /\ tlb_request[c] = sequence
  /\ \A c \in Cpus \ op[d].targets :
       tlb_request[c] = tlb_ack[c] /\ tlb_request[c] < sequence
  /\ pc[d] = "await" =>
       \A c \in op[d].targets : c < op[d].i => tlb_ack[c] = sequence

Rounds == \A d \in Cpus : pc[d] \in Flushing => Round(d)

(* The shootdown of d has not reached the TLB of c yet, or never will. *)
NotYet(c, d) ==
  \/ pc[d] = "trap"
  \/ c = d /\ pc[d] \in {"post", "self"}
  \/ c \in op[d].targets /\ tlb_ack[c] # sequence /\ poll[c] = 0
  \/ /\ c # d /\ c \in online /\ c \notin op[d].targets
     /\ pc[d] = "post" /\ c >= op[d].i

(* The stale entry e of page v in c is one the shootdown of d is to remove. *)
Covered(c, d, v, e) ==
  /\ pc[d] \in Called /\ op[d].va \in {v, All} /\ NotYet(c, d)
  /\ e.frame \in op[d].retired \/ (pte[v] # None /\ e.frame = pte[v].frame)
  /\ e.perm = "rw" /\ refcounts[e.frame] > 1 => op[d].va = v

StaleCovered ==
  \A c \in Cpus, v \in Vas :
    tlb[c][v] \notin {None, pte[v]} => \E d \in Cpus : Covered(c, d, v, tlb[c][v])

(* Mapped and retired frames are referenced; no frame is mapped twice. *)
Owned ==
  /\ \A v \in Vas : pte[v] # None => refcounts[pte[v].frame] > 0
  /\ \A v, w \in Vas :
       pte[v] # None /\ pte[w] # None /\ pte[v].frame = pte[w].frame => v = w
  /\ \A d \in Cpus : \A f \in op[d].retired :
       refcounts[f] > 0 /\ \A v \in Vas : pte[v] # None => pte[v].frame # f

(* A shared frame is mapped writable only ahead of a fork's commit loop. *)
Shared ==
  \A v \in Vas :
    pte[v] # None /\ pte[v].perm = "rw" /\ refcounts[pte[v].frame] > 1 =>
      \E d \in Cpus : pc[d] \in Forking /\ v \in op[d].todo

MemInv ==
  /\ TypeOK /\ Counted /\ IdleOps /\ Offline /\ Mail /\ Rounds
  /\ StaleCovered /\ Owned /\ Shared

LEMMA MemInit == Init => MemInv
<1>. SUFFICES ASSUME Init PROVE MemInv
  OBVIOUS
<1>1. TypeOK
  <2>1. NoOp \in Ops
    BY DEF NoOp, Ops, Cpus
  <2>2. /\ pc \in [Cpus -> Places] /\ dev \in [Cpus -> Phases]
        /\ leaf \in [Cpus -> Phases] /\ op \in [Cpus -> Ops]
    BY <2>1 DEF Init, Places, Phases
  <2>3. pte \in [Vas -> Entries \cup {None}]
        /\ tlb \in [Cpus -> [Vas -> Entries \cup {None}]]
    BY DEF Init, Empty
  <2>4. /\ iflag \in [Cpus -> BOOLEAN] /\ leafFlags \in [Cpus -> BOOLEAN]
        /\ preempt_count \in [Cpus -> 0 .. MaxDepth]
        /\ refcounts \in [Frames -> 0 .. MaxRefs]
        /\ tlb_request \in [Cpus -> 0 .. MaxSeq]
        /\ tlb_ack \in [Cpus -> 0 .. MaxSeq]
        /\ poll \in [Cpus -> 0 .. MaxSeq] /\ sequence \in 0 .. MaxSeq
    BY DEF Init
  <2>. QED BY <2>2, <2>3, <2>4 DEF Init, TypeOK
<1>2. Counted /\ Offline /\ Mail /\ Rounds /\ StaleCovered /\ Shared
  BY DEF Init, Counted, Offline, Mail, Rounds, Flushing, StaleCovered, Shared,
         Empty, Active, Cpus
<1>3. IdleOps /\ Owned
  BY DEF Init, IdleOps, Owned, NoOp, Empty, Forking, InShootdown
<1>. QED BY <1>1, <1>2, <1>3 DEF MemInv

(* Only one CPU is inside the guard. *)
LEMMA OnlyOne ==
  ASSUME LockInv, NEW c \in Cpus, NEW d \in Cpus,
         pc[c] \in Guarded, pc[d] \in Guarded
  PROVE  c = d
BY DEF LockInv, Excluded, Inside

-----------------------------------------------------------------------------
(***************************************************************************)
(* Steps outside fork and shootdown: the lock steps, and the reload of CR3 *)
(* in schedule().                                                          *)
(***************************************************************************)
LEMMA QuietStep ==
  ASSUME MemInv, NEW c \in Cpus, NEW p \in Places,
         c \in Active \/ p = pc[c], pc' = [pc EXCEPT ![c] = p],
         p = pc[c] \/ (p \notin Forking /\ pc[c] \notin Forking),
         tlb' = tlb \/ tlb' = [tlb EXCEPT ![c] = Empty],
         UNCHANGED <<online, ap_go, mailbox, op, pte, refcounts>>,
         TypeOK', Counted'
  PROVE  MemInv'
<1>. USE DEF MemInv, TypeOK, mailbox
<1>1. \A d \in Cpus : \A X \in SUBSET Forking : pc'[d] \in X <=> pc[d] \in X
  OBVIOUS
<1>2. Flushing \subseteq Forking /\ InShootdown \subseteq Forking
      /\ Called \subseteq Forking /\ {"trap"} \subseteq Forking
      /\ {"commit"} \subseteq Forking /\ {"self"} \subseteq Forking
      /\ {"post", "self"} \subseteq Forking /\ {"await"} \subseteq Forking
      /\ {"post"} \subseteq Forking
  BY DEF Flushing, Called, Forking, InShootdown
<1>3. \A d \in Cpus : /\ pc'[d] \in Forking <=> pc[d] \in Forking
                      /\ pc'[d] \in Flushing <=> pc[d] \in Flushing
                      /\ pc[d] \in Forking => pc'[d] = pc[d]
  BY <1>1, <1>2
<1>4. IdleOps'
  BY <1>1, <1>2, <1>3 DEF IdleOps
<1>5. Offline'
  BY DEF Offline, Active
<1>6. Mail'
  BY <1>3 DEF Mail
<1>7. Rounds'
  BY <1>2, <1>3 DEF Rounds, Round
<1>8. StaleCovered'
  <2>. SUFFICES ASSUME NEW x \in Cpus, NEW v \in Vas,
                       tlb'[x][v] \notin {None, pte[v]}
                PROVE  \E d \in Cpus : Covered(x, d, v, tlb[x][v])' /\ tlb'[x] = tlb[x]
    BY DEF StaleCovered
  <2>1. tlb'[x] = tlb[x]
    BY DEF Empty
  <2>2. PICK d \in Cpus : Covered(x, d, v, tlb[x][v])
    BY <2>1 DEF StaleCovered
  <2>3. pc'[d] = pc[d]
    BY <1>2, <1>3, <2>2 DEF Covered
  <2>4. Covered(x, d, v, tlb[x][v])'
    BY <2>1, <2>2, <2>3 DEF Covered, NotYet
  <2>. QED BY <2>1, <2>4
<1>9. Owned'
  BY DEF Owned
<1>10. Shared'
  BY <1>3 DEF Shared
<1>. QED BY <1>4, <1>5, <1>6, <1>7, <1>8, <1>9, <1>10

LEMMA LockStepMem ==
  ASSUME MemInv, NEW c \in Cpus, LockStep(c)
  PROVE  MemInv'
<1>. USE DEF MemInv, Counted
<1>. DEFINE Quiet == UNCHANGED <<online, ap_go, mailbox, op, pte, refcounts>>
<1>1. ASSUME NEW flag \in BOOLEAN, preempt_disable(c, flag) PROVE MemInv'
  <2>1. PICK p \in {"spin", "in"} :
          /\ pc' = [pc EXCEPT ![c] = p]
          /\ p = pc[c] \/ pc[c] = "out"
          /\ c \in Active /\ tlb' = tlb /\ Quiet
    BY <1>1 DEF preempt_disable, Awake, memory, TypeOK
  <2>2. TypeOK' /\ Counted'
    <3>1. preempt_count' \in [Cpus -> 0 .. MaxDepth] /\ iflag' \in [Cpus -> BOOLEAN]
          /\ pc' \in [Cpus -> Places]
      BY <1>1, <2>1 DEF preempt_disable, TypeOK, Places, Guarded
    <3>2. TypeOK'
      BY <1>1, <3>1 DEF preempt_disable, TypeOK, mailbox, memory
    <3>3. Counted'
      BY <1>1 DEF preempt_disable, TypeOK
    <3>. QED BY <3>2, <3>3
  <2>. QED BY <2>1, <2>2, QuietStep DEF Places, Forking, InShootdown, Guarded
<1>2. ASSUME MutationAcquire(c) PROVE MemInv'
  <2>1. /\ pc' = [pc EXCEPT ![c] = "in"] /\ pc[c] = "spin"
        /\ c \in Active /\ tlb' = tlb /\ Quiet
    BY <1>2 DEF MutationAcquire, Awake, memory
  <2>2. TypeOK' /\ Counted'
    BY <1>2 DEF MutationAcquire, TypeOK, Places, Guarded, mailbox, memory
  <2>. QED BY <2>1, <2>2, QuietStep DEF Places, Forking, InShootdown, Guarded
<1>3. ASSUME preempt_enable(c) PROVE MemInv'
  <2>1. PICK p \in {"in", "out"} :
          /\ pc' = [pc EXCEPT ![c] = p] /\ pc[c] = "in"
          /\ c \in Active /\ tlb' = tlb /\ Quiet
    BY <1>3 DEF preempt_enable, Runs, Awake, memory, TypeOK
  <2>2. TypeOK' /\ Counted'
    <3>1. preempt_count[c] \in 1 .. MaxDepth
      <4>1. preempt_count[c] > 0
        BY <2>1
      <4>2. preempt_count[c] \in 0 .. MaxDepth
        BY DEF TypeOK
      <4>. QED BY <4>1, <4>2
    <3>2. preempt_count' \in [Cpus -> 0 .. MaxDepth]
      <4>1. preempt_count[c] - 1 \in 0 .. MaxDepth
        BY <3>1
      <4>2. preempt_count' = [preempt_count EXCEPT ![c] = preempt_count[c] - 1]
        BY <1>3 DEF preempt_enable
      <4>. QED BY <4>1, <4>2 DEF TypeOK
    <3>3. iflag' \in [Cpus -> BOOLEAN] /\ mutation_lock' \in {0, 1}
      BY <1>3 DEF preempt_enable, TypeOK
    <3>4. pc' \in [Cpus -> Places]
      BY <2>1 DEF TypeOK, Places, Guarded
    <3>5. TypeOK'
      BY <1>3, <3>2, <3>3, <3>4 DEF preempt_enable, TypeOK, mailbox, memory
    <3>6. Counted'
      BY <1>3 DEF preempt_enable, TypeOK
    <3>. QED BY <3>5, <3>6
  <2>. QED BY <2>1, <2>2, QuietStep DEF Places, Forking, InShootdown, Guarded
<1>4. ASSUME SyscallSti(c) PROVE MemInv'
  <2>1. pc' = [pc EXCEPT ![c] = pc[c]] /\ pc[c] \in Places /\ tlb' = tlb /\ Quiet
    BY <1>4 DEF SyscallSti, memory, TypeOK
  <2>2. TypeOK' /\ Counted'
    BY <1>4 DEF SyscallSti, TypeOK, mailbox, memory
  <2>. QED BY <2>1, <2>2, QuietStep
<1>5. ASSUME preempt_try_disable(c) PROVE MemInv'
  <2>1. /\ pc' = [pc EXCEPT ![c] = "sched"] /\ pc[c] = "out"
        /\ c \in Active /\ tlb' = tlb /\ Quiet
    BY <1>5 DEF preempt_try_disable, Awake, memory, TypeOK
  <2>2. TypeOK' /\ Counted'
    BY <1>5 DEF preempt_try_disable, TypeOK, Places, Guarded, mailbox, memory
  <2>. QED BY <2>1, <2>2, QuietStep DEF Places, Forking, InShootdown, Guarded
<1>6. ASSUME schedule(c) PROVE MemInv'
  <2>1. /\ pc' = [pc EXCEPT ![c] = "out"] /\ pc[c] = "sched"
        /\ c \in Active /\ Quiet
        /\ tlb' = tlb \/ tlb' = [tlb EXCEPT ![c] = Empty]
    BY <1>6 DEF schedule, Runs, Awake
  <2>2. TypeOK' /\ Counted'
    <3>1. Empty \in [Vas -> Entries \cup {None}]
      BY DEF Empty
    <3>2. preempt_count' \in [Cpus -> 0 .. MaxDepth]
      BY <1>6, <2>1 DEF schedule, TypeOK
    <3>5. tlb' \in [Cpus -> [Vas -> Entries \cup {None}]]
      BY <2>1, <3>1 DEF TypeOK
    <3>6. iflag' \in [Cpus -> BOOLEAN] /\ pc' \in [Cpus -> Places]
      BY <1>6 DEF schedule, TypeOK, Places
    <3>3. TypeOK'
      BY <1>6, <3>2, <3>5, <3>6 DEF schedule, TypeOK, mailbox
    <3>4. Counted'
      BY <1>6 DEF schedule, TypeOK
    <3>. QED BY <3>3, <3>4
  <2>. QED BY <2>1, <2>2, QuietStep DEF Places, Forking, InShootdown, Guarded
<1>7. ASSUME local_lock_enter(c) \/ LocalAcquire(c) \/ local_lock_leave(c)
      PROVE  MemInv'
  <2>1. pc' = [pc EXCEPT ![c] = pc[c]] /\ pc[c] \in Places /\ tlb' = tlb /\ Quiet
    BY <1>7 DEF local_lock_enter, LocalAcquire, local_lock_leave, memory, TypeOK
  <2>2. dev' \in [Cpus -> Phases] /\ device_lock' \in {0, 1}
    BY <1>7 DEF local_lock_enter, LocalAcquire, local_lock_leave, TypeOK, Phases
  <2>3. UNCHANGED <<mutation_lock, leaf_lock, preempt_count, iflag, leaf, leafFlags>>
    BY <1>7 DEF local_lock_enter, LocalAcquire, local_lock_leave
  <2>4. TypeOK' /\ Counted'
    BY <2>1, <2>2, <2>3 DEF TypeOK, mailbox
  <2>. QED BY <2>1, <2>4, QuietStep
<1>8. ASSUME irq_lock_enter(c) \/ IrqAcquire(c) \/ irq_lock_leave(c)
      PROVE  MemInv'
  <2>1. pc' = [pc EXCEPT ![c] = pc[c]] /\ pc[c] \in Places /\ tlb' = tlb /\ Quiet
    BY <1>8 DEF irq_lock_enter, IrqAcquire, irq_lock_leave, memory, TypeOK
  <2>2. /\ leaf' \in [Cpus -> Phases] /\ leaf_lock' \in {0, 1}
        /\ iflag' \in [Cpus -> BOOLEAN] /\ leafFlags' \in [Cpus -> BOOLEAN]
    <3>1. leaf' \in [Cpus -> Phases] /\ leaf_lock' \in {0, 1}
      BY <1>8 DEF irq_lock_enter, IrqAcquire, irq_lock_leave, TypeOK, Phases
    <3>2. iflag[c] \in BOOLEAN /\ leafFlags[c] \in BOOLEAN
      BY DEF TypeOK
    <3>3. \/ iflag' = iflag /\ leafFlags' = leafFlags
          \/ \E old \in BOOLEAN, new \in BOOLEAN :
               /\ iflag' = [iflag EXCEPT ![c] = new]
               /\ leafFlags' = [leafFlags EXCEPT ![c] = old]
      BY <1>8, <3>2 DEF irq_lock_enter, IrqAcquire, irq_lock_leave
    <3>4. iflag' \in [Cpus -> BOOLEAN]
      BY <3>3 DEF TypeOK
    <3>5. leafFlags' \in [Cpus -> BOOLEAN]
      BY <3>3 DEF TypeOK
    <3>. QED BY <3>1, <3>4, <3>5
  <2>3. UNCHANGED <<mutation_lock, device_lock, preempt_count, dev>>
    BY <1>8 DEF irq_lock_enter, IrqAcquire, irq_lock_leave
  <2>4. TypeOK' /\ Counted'
    BY <2>1, <2>2, <2>3 DEF TypeOK, mailbox
  <2>. QED BY <2>1, <2>4, QuietStep
<1>. QED BY <1>1, <1>2, <1>3, <1>4, <1>5, <1>6, <1>7, <1>8 DEF LockStep

-----------------------------------------------------------------------------
(* More CPUs online: nothing that was promised about a CPU is lost. *)
LEMMA BringUpMem ==
  ASSUME MemInv, NEW c \in Cpus, smp_start_timers \/ smp_ap_main(c)
  PROVE  MemInv'
<1>. USE DEF MemInv, locks, mailbox, memory
<1>1. /\ UNCHANGED <<locks, mailbox, op, memory>>
      /\ online \subseteq online' /\ online' \in SUBSET Cpus
      /\ Bsp \in online' /\ ap_go' \in BOOLEAN /\ ap_go'
  <2>1. Bsp \in Cpus
    BY DEF Bsp, Cpus
  <2>2. CASE smp_start_timers
    BY <2>1, <2>2 DEF smp_start_timers, TypeOK
  <2>3. CASE smp_ap_main(c)
    BY <2>1, <2>3 DEF smp_ap_main, TypeOK, Offline
  <2>. QED BY <2>2, <2>3
<1>2. TypeOK' /\ Counted'
  BY <1>1 DEF TypeOK, Counted
<1>3. Offline'
  BY <1>1 DEF Offline, Active
<1>4. IdleOps' /\ Mail' /\ Owned' /\ Shared'
  BY <1>1 DEF IdleOps, Mail, Owned, Shared
<1>5. Rounds'
  BY <1>1 DEF Rounds, Round
<1>6. StaleCovered'
  BY <1>1 DEF StaleCovered, Covered, NotYet
<1>. QED BY <1>2, <1>3, <1>4, <1>5, <1>6

(* The walker caches what the page table says now. *)
LEMMA FillMem ==
  ASSUME MemInv, NEW c \in Cpus, NEW v \in Vas, Fill(c, v)
  PROVE  MemInv'
<1>. USE DEF MemInv, locks, mailbox, memory
<1>1. /\ UNCHANGED <<locks, online, ap_go, mailbox, op, pte, refcounts>>
      /\ c \in Active /\ tlb' = [tlb EXCEPT ![c][v] = pte[v]]
  BY DEF Fill
<1>2. TypeOK'
  BY <1>1 DEF TypeOK
<1>3. Offline'
  BY <1>1 DEF Offline, Active
<1>4. Counted' /\ IdleOps' /\ Mail' /\ Owned' /\ Shared' /\ Rounds'
  BY <1>1 DEF Counted, IdleOps, Mail, Owned, Shared, Rounds, Round
<1>5. StaleCovered'
  <2>. SUFFICES ASSUME NEW x \in Cpus, NEW w \in Vas,
                       tlb'[x][w] \notin {None, pte[w]}
                PROVE  \E d \in Cpus : Covered(x, d, w, tlb[x][w])'
    BY <1>1 DEF StaleCovered
  <2>1. tlb'[x][w] = tlb[x][w]
    BY <1>1 DEF TypeOK
  <2>2. PICK d \in Cpus : Covered(x, d, w, tlb[x][w])
    BY <2>1 DEF StaleCovered
  <2>. QED BY <1>1, <2>1, <2>2 DEF Covered, NotYet
<1>. QED BY <1>2, <1>3, <1>4, <1>5

(***************************************************************************)
(* tlb_poll.  A request that is pending belongs to the shootdown in        *)
(* progress, so the shared address is the page that shootdown is about.    *)
(***************************************************************************)
LEMMA PendingRound ==
  ASSUME MemInv, NEW c \in Cpus, tlb_request[c] # tlb_ack[c]
  PROVE  \E d \in Cpus : pc[d] \in Flushing /\ Round(d) /\ c \in op[d].targets
<1>1. PICK d \in Cpus : pc[d] \in Flushing
  BY DEF MemInv, Mail
<1>. QED BY <1>1 DEF MemInv, Rounds, Round

LEMMA FlushingGuarded ==
  Called \subseteq Guarded /\ Flushing \subseteq Called /\ Forking \subseteq Guarded
BY DEF Flushing, Called, Forking, Guarded, InShootdown

LEMMA PollInvalidateMem ==
  ASSUME MemInv, LockInv, NEW c \in Cpus, PollInvalidate(c)
  PROVE  MemInv'
<1>. USE DEF MemInv, locks
<1>1. /\ UNCHANGED <<locks, online, ap_go, sequence, address, tlb_request,
                     tlb_ack, op, pte, refcounts>>
      /\ c \in Active /\ poll[c] = 0 /\ tlb_request[c] # tlb_ack[c]
      /\ tlb' = [tlb EXCEPT ![c] = invalidate(tlb[c], address)]
      /\ poll' = [poll EXCEPT ![c] = tlb_request[c]]
  BY DEF PollInvalidate
<1>2. TypeOK'
  <2>1. invalidate(tlb[c], address) \in [Vas -> Entries \cup {None}]
    BY DEF TypeOK, invalidate
  <2>. QED BY <1>1, <2>1 DEF TypeOK
<1>3. Offline'
  BY <1>1 DEF Offline, Active
<1>4. Counted' /\ IdleOps' /\ Owned' /\ Shared' /\ Rounds'
  BY <1>1 DEF Counted, IdleOps, Owned, Shared, Rounds, Round
<1>5. Mail'
  BY <1>1 DEF Mail, TypeOK
<1>6. StaleCovered'
  <2>. SUFFICES ASSUME NEW x \in Cpus, NEW w \in Vas,
                       tlb'[x][w] \notin {None, pte[w]}
                PROVE  \E d \in Cpus : Covered(x, d, w, tlb[x][w])'
    BY <1>1 DEF StaleCovered
  <2>1. tlb'[x][w] = tlb[x][w]
    BY <1>1 DEF TypeOK, invalidate
  <2>2. PICK d \in Cpus : Covered(x, d, w, tlb[x][w])
    BY <2>1 DEF StaleCovered
  <2>3. x # c
    <3>1. PICK e \in Cpus : pc[e] \in Flushing /\ Round(e) /\ c \in op[e].targets
      BY <1>1, PendingRound
    <3>2. e = d
      BY <2>2, <3>1, FlushingGuarded, OnlyOne DEF Covered
    <3>3. address \in {w, All}
      BY <2>2, <3>1, <3>2 DEF Covered, Round
    <3>. QED BY <1>1, <3>3 DEF TypeOK, invalidate
  <2>4. poll'[x] = poll[x]
    BY <1>1, <2>3 DEF TypeOK
  <2>. QED BY <1>1, <2>1, <2>2, <2>4 DEF Covered, NotYet
<1>. QED BY <1>2, <1>3, <1>4, <1>5, <1>6

LEMMA PollAckMem ==
  ASSUME MemInv, LockInv, NEW c \in Cpus, PollAck(c)
  PROVE  MemInv'
<1>. USE DEF MemInv, locks, memory
<1>1. /\ UNCHANGED <<locks, online, ap_go, sequence, address, tlb_request, op,
                     memory>>
      /\ poll[c] # 0
      /\ tlb_ack' = [tlb_ack EXCEPT ![c] = poll[c]]
      /\ poll' = [poll EXCEPT ![c] = 0]
  BY DEF PollAck
<1>2. poll[c] = tlb_request[c] /\ tlb_request[c] # tlb_ack[c]
  BY <1>1 DEF Mail
<1>3. TypeOK'
  BY <1>1 DEF TypeOK
<1>4. Offline' /\ Counted' /\ IdleOps' /\ Owned' /\ Shared'
  BY <1>1 DEF Offline, Active, Counted, IdleOps, Owned, Shared
<1>5. Mail'
  BY <1>1, <1>2 DEF Mail, TypeOK
<1>6. Rounds'
  <2>. SUFFICES ASSUME NEW d \in Cpus, pc[d] \in Flushing PROVE Round(d)'
    BY <1>1 DEF Rounds
  <2>1. Round(d)
    BY DEF Rounds
  <2>2. c \in op[d].targets
    BY <1>2, <2>1 DEF Round
  <2>3. tlb_ack'[c] = sequence
    BY <1>1, <1>2, <2>1, <2>2 DEF Round, TypeOK
  <2>. QED BY <1>1, <2>1, <2>2, <2>3 DEF Round, TypeOK
<1>7. StaleCovered'
  <2>. SUFFICES ASSUME NEW x \in Cpus, NEW w \in Vas,
                       tlb[x][w] \notin {None, pte[w]}
                PROVE  \E d \in Cpus : Covered(x, d, w, tlb[x][w])'
    BY <1>1 DEF StaleCovered
  <2>1. PICK d \in Cpus : Covered(x, d, w, tlb[x][w])
    BY DEF StaleCovered
  <2>2. pc[d] \in Flushing /\ Round(d)
    <3>1. PICK e \in Cpus : pc[e] \in Flushing /\ Round(e)
      BY <1>2, PendingRound
    <3>2. e = d
      BY <2>1, <3>1, FlushingGuarded, OnlyOne DEF Covered
    <3>. QED BY <3>1, <3>2
  <2>3. c \in op[d].targets /\ c # d
    BY <1>2, <2>2 DEF Round
  <2>4. x # c
    BY <1>1, <2>1, <2>2, <2>3 DEF Covered, NotYet, Flushing
  <2>5. tlb_ack'[x] = tlb_ack[x] /\ poll'[x] = poll[x]
    BY <1>1, <2>4 DEF TypeOK
  <2>. QED BY <1>1, <2>1, <2>5 DEF Covered, NotYet
<1>. QED BY <1>3, <1>4, <1>5, <1>6, <1>7

-----------------------------------------------------------------------------
(* The loops of tlb_shootdown. *)

LEMMA OneRound ==
  ASSUME MemInv, LockInv, NEW c \in Cpus, pc[c] \in Guarded,
         NEW x \in Cpus, NEW v \in Vas, tlb[x][v] \notin {None, pte[v]}
  PROVE  Covered(x, c, v, tlb[x][v])
<1>1. PICK d \in Cpus : Covered(x, d, v, tlb[x][v])
  BY DEF MemInv, StaleCovered
<1>2. d = c
  BY <1>1, FlushingGuarded, OnlyOne DEF Covered
<1>. QED BY <1>1, <1>2

LEMMA NextCpuType == ASSUME NEW i \in Cpus PROVE NextCpu(i) \in Cpus
BY DEF Cpus, NextCpu

LEMMA PostMem ==
  ASSUME MemInv, LockInv, NEW c \in Cpus, ShootdownPost(c)
  PROVE  MemInv'
<1>. DEFINE i == op[c].i
            posted == i # c /\ i \in online
<1>. USE DEF MemInv
<1>1. /\ UNCHANGED <<mutation_lock, device_lock, leaf_lock, preempt_count, iflag,
                     dev, leaf, leafFlags, online, ap_go, sequence, address,
                     tlb_ack, poll, memory>>
      /\ pc[c] = "post" /\ pc[c] \in Guarded
  BY DEF ShootdownPost, Guarded, InShootdown
<1>2. PICK p \in {"self", "post"} :
        /\ pc' = [pc EXCEPT ![c] = p]
        /\ p = "self" <=> i = N - 1
  BY DEF ShootdownPost
<1>3. i \in Cpus /\ op[c] \in Ops /\ NextCpu(i) \in Cpus
  <2>1. op[c] \in Ops
    BY DEF TypeOK
  <2>. QED BY <2>1, NextCpuType DEF Ops
<1>4. /\ op' = [op EXCEPT ![c] = op'[c]]
      /\ op'[c] \in Ops
      /\ op'[c].i = NextCpu(i) /\ op'[c].seq = op[c].seq /\ op'[c].va = op[c].va
      /\ op'[c].targets = IF posted THEN op[c].targets \cup {i} ELSE op[c].targets
      /\ op'[c].retired = op[c].retired /\ op'[c].todo = op[c].todo
  <2>0. op \in [Cpus -> Ops] /\ op[c].targets \in SUBSET Cpus
    BY <1>3 DEF TypeOK, Ops
  <2>1. CASE posted
    <3>1. op' = [op EXCEPT ![c].i = NextCpu(i), ![c].targets = @ \cup {i}]
      BY <2>1 DEF ShootdownPost
    <3>. QED BY ONLY <1>3, <2>0, <2>1, <3>1 DEF Ops
  <2>2. CASE ~posted
    <3>1. op' = [op EXCEPT ![c].i = NextCpu(i)]
      BY <2>2 DEF ShootdownPost
    <3>. QED BY ONLY <1>3, <2>0, <2>2, <3>1 DEF Ops
  <2>. QED BY <2>1, <2>2
<1>5. tlb_request' = IF posted THEN [tlb_request EXCEPT ![i] = op[c].seq]
                               ELSE tlb_request
  BY DEF ShootdownPost
<1>6. Round(c)
  BY <1>1 DEF Rounds, Flushing
<1>7. TypeOK'
  <2>1. tlb_request' \in [Cpus -> 0 .. MaxSeq]
    BY <1>3, <1>5 DEF TypeOK, Ops
  <2>2. op' \in [Cpus -> Ops] /\ pc' \in [Cpus -> Places]
    BY <1>2, <1>4 DEF TypeOK, Places, Guarded, InShootdown
  <2>. QED BY <1>1, <2>1, <2>2 DEF TypeOK, memory
<1>8. \A d \in Cpus : d # c => op'[d] = op[d] /\ pc'[d] = pc[d]
  BY <1>2, <1>4 DEF TypeOK
<1>9. pc'[c] = p /\ p \in Flushing /\ p \in Called /\ p \in Forking
      /\ p \notin {"out", "sched", "commit", "await", "trap"}
  BY <1>2 DEF TypeOK, Flushing, Called, Forking, InShootdown
<1>10. Counted'
  BY <1>1, <1>8, <1>9 DEF Counted
<1>11. IdleOps'
  BY <1>1, <1>2, <1>4, <1>8, <1>9 DEF IdleOps, Forking, InShootdown, NextCpu, memory
<1>12. Offline'
  BY <1>1, <1>8 DEF Offline, Active, memory
<1>13. \A d \in Cpus : pc[d] \in Flushing => d = c
  BY <1>1, FlushingGuarded, OnlyOne
<1>14. ~posted \/ i \in op[c].targets \/
         (tlb_request[i] = tlb_ack[i] /\ tlb_request[i] < sequence /\ poll[i] = 0)
  BY <1>3, <1>6 DEF Round, Mail
<1>15. Mail'
  <2>1. \A x \in Cpus : x # i => tlb_request'[x] = tlb_request[x]
    BY <1>5 DEF TypeOK
  <2>2. posted => tlb_request'[i] = sequence
    BY <1>3, <1>5, <1>6 DEF TypeOK, Round
  <2>3. ~posted => tlb_request' = tlb_request
    BY <1>5
  <2>4. i \in op[c].targets => tlb_request[i] = sequence
    BY <1>6 DEF Round
  <2>. QED BY <1>1, <1>3, <1>9, <1>14, <2>1, <2>2, <2>3, <2>4 DEF Mail, TypeOK
<1>16. Rounds'
  <2>1. Round(c)'
    BY <1>1, <1>3, <1>4, <1>5, <1>6, <1>9 DEF Round, TypeOK
  <2>. QED BY <1>8, <1>13, <2>1 DEF Rounds
<1>17. StaleCovered'
  <2>. SUFFICES ASSUME NEW x \in Cpus, NEW w \in Vas,
                       tlb[x][w] \notin {None, pte[w]}
                PROVE  Covered(x, c, w, tlb[x][w])'
    BY <1>1 DEF StaleCovered, memory
  <2>1. Covered(x, c, w, tlb[x][w])
    BY <1>1, OneRound
  <2>2. NotYet(x, c)'
    <3>1. CASE x = c
      BY <1>2, <1>9, <3>1 DEF NotYet
    <3>2. CASE x # c /\ x \in op[c].targets
      <4>1. tlb_ack[x] # sequence /\ poll[x] = 0
        BY <1>1, <2>1, <3>2 DEF Covered, NotYet
      <4>. QED BY <1>1, <1>4, <3>2, <4>1 DEF NotYet
    <3>3. CASE x # c /\ x \notin op[c].targets
      <4>1. x \in online /\ x >= i
        BY <1>1, <2>1, <3>3 DEF Covered, NotYet
      <4>2. CASE x = i
        <5>1. tlb_ack[x] # sequence /\ poll[x] = 0 /\ x \in op'[c].targets
          BY <1>4, <1>14, <3>3, <4>1, <4>2 DEF Mail, TypeOK
        <5>. QED BY <1>1, <5>1 DEF NotYet
      <4>3. CASE x > i
        <5>1. i # N - 1 /\ NextCpu(i) = i + 1 /\ x >= i + 1
          BY <1>3, <4>3 DEF Cpus, NextCpu
        <5>2. p = "post" /\ x \notin op'[c].targets
          BY <1>2, <1>3, <1>4, <3>3, <4>3, <5>1 DEF Cpus
        <5>. QED BY <1>1, <1>4, <1>9, <3>3, <4>1, <5>1, <5>2 DEF NotYet
      <4>. QED BY <1>3, <4>1, <4>2, <4>3 DEF Cpus
    <3>. QED BY <3>1, <3>2, <3>3
  <2>. QED BY <1>1, <1>4, <1>9, <2>1, <2>2 DEF Covered, memory
<1>18. Owned' /\ Shared'
  <2>1. Owned'
    BY <1>1, <1>4, <1>8 DEF Owned, memory
  <2>2. Shared'
    BY <1>1, <1>4, <1>8, <1>9 DEF Shared, memory
  <2>. QED BY <2>1, <2>2
<1>. QED BY <1>7, <1>10, <1>11, <1>12, <1>15, <1>16, <1>17, <1>18

LEMMA SelfMem ==
  ASSUME MemInv, LockInv, NEW c \in Cpus, ShootdownSelf(c)
  PROVE  MemInv'
<1>. USE DEF MemInv
<1>1. /\ UNCHANGED <<mutation_lock, device_lock, leaf_lock, preempt_count, iflag,
                     dev, leaf, leafFlags, online, ap_go, mailbox, op, pte,
                     refcounts>>
      /\ pc[c] = "self" /\ pc[c] \in Guarded /\ c \in Active
      /\ pc' = [pc EXCEPT ![c] = "await"]
      /\ tlb' = [tlb EXCEPT ![c] = invalidate(tlb[c], op[c].va)]
  BY DEF ShootdownSelf, Guarded, InShootdown, Runs, Awake
<1>2. Round(c)
  BY <1>1 DEF Rounds, Flushing
<1>3. TypeOK'
  <2>1. invalidate(tlb[c], op[c].va) \in [Vas -> Entries \cup {None}]
    BY DEF TypeOK, invalidate
  <2>2. tlb' \in [Cpus -> [Vas -> Entries \cup {None}]]
    BY <1>1, <2>1 DEF TypeOK
  <2>3. pc' \in [Cpus -> Places]
    BY <1>1 DEF TypeOK, Places, Guarded, InShootdown
  <2>. QED BY <1>1, <2>2, <2>3 DEF TypeOK, mailbox
<1>4. /\ \A d \in Cpus : d # c => pc'[d] = pc[d]
      /\ pc'[c] = "await"
      /\ "await" \in Flushing /\ "await" \in Called /\ "await" \in Forking
  BY <1>1 DEF TypeOK, Flushing, Called, Forking, InShootdown
<1>5. Counted'
  BY <1>1, <1>4 DEF Counted
<1>6. IdleOps'
  BY <1>1, <1>4 DEF IdleOps
<1>7. Offline'
  BY <1>1, <1>4 DEF Offline, Active, TypeOK
<1>8. Mail'
  BY <1>1, <1>4 DEF Mail, mailbox
<1>9. Rounds'
  <2>1. op[c].i = 0 /\ op[c].targets \subseteq Cpus
    BY <1>1 DEF IdleOps, TypeOK, Ops
  <2>2. Round(c)'
    BY <1>1, <1>2, <2>1 DEF Round, mailbox, Cpus
  <2>3. \A d \in Cpus : pc[d] \in Flushing => d = c
    BY <1>1, FlushingGuarded, OnlyOne
  <2>. QED BY <1>4, <2>2, <2>3 DEF Rounds
<1>10. StaleCovered'
  <2>. SUFFICES ASSUME NEW x \in Cpus, NEW w \in Vas,
                       tlb'[x][w] \notin {None, pte[w]}
                PROVE  Covered(x, c, w, tlb[x][w])'
    BY <1>1 DEF StaleCovered
  <2>1. tlb'[x][w] = tlb[x][w]
    BY <1>1 DEF TypeOK, invalidate
  <2>2. Covered(x, c, w, tlb[x][w])
    BY <1>1, <2>1, OneRound
  <2>3. x # c
    BY <1>1, <2>2 DEF Covered, TypeOK, invalidate
  <2>4. NotYet(x, c)'
    BY <1>1, <2>2, <2>3 DEF Covered, NotYet, mailbox
  <2>. QED BY <1>1, <1>4, <2>1, <2>2, <2>4 DEF Covered
<1>11. Owned'
  BY <1>1 DEF Owned
<1>12. Shared'
  BY <1>1, <1>4 DEF Shared
<1>. QED BY <1>3, <1>5, <1>6, <1>7, <1>8, <1>9, <1>10, <1>11, <1>12

LEMMA AwaitMem ==
  ASSUME MemInv, LockInv, NEW c \in Cpus, ShootdownAwait(c)
  PROVE  MemInv'
<1>. DEFINE i == op[c].i
<1>. USE DEF MemInv
<1>1. /\ UNCHANGED <<mutation_lock, device_lock, leaf_lock, preempt_count, iflag,
                     dev, leaf, leafFlags, online, ap_go, mailbox, memory>>
      /\ pc[c] = "await" /\ pc[c] \in Guarded /\ Acknowledged(c, i)
      /\ op' = [op EXCEPT ![c].i = NextCpu(i)]
  BY DEF ShootdownAwait, Guarded, InShootdown
<1>2. PICK p \in {"await", "release"} :
        /\ pc' = [pc EXCEPT ![c] = p]
        /\ p = "release" <=> i = N - 1
  BY DEF ShootdownAwait
<1>3. i \in Cpus /\ op[c] \in Ops /\ NextCpu(i) \in Cpus
  <2>1. op[c] \in Ops
    BY DEF TypeOK
  <2>. QED BY <2>1, NextCpuType DEF Ops
<1>4. /\ op'[c] \in Ops /\ op'[c].i = NextCpu(i)
      /\ op'[c].seq = op[c].seq /\ op'[c].va = op[c].va
      /\ op'[c].targets = op[c].targets
      /\ op'[c].retired = op[c].retired /\ op'[c].todo = op[c].todo
  BY <1>1, <1>3 DEF Ops, TypeOK
<1>5. Round(c)
  BY <1>1 DEF Rounds, Flushing
<1>6. TypeOK'
  <2>1. op' \in [Cpus -> Ops] /\ pc' \in [Cpus -> Places]
    BY <1>1, <1>2, <1>4 DEF TypeOK, Places, Guarded, InShootdown
  <2>. QED BY <1>1, <2>1 DEF TypeOK, mailbox, memory
<1>7. \A d \in Cpus : d # c => op'[d] = op[d] /\ pc'[d] = pc[d]
  BY <1>1, <1>2 DEF TypeOK
<1>8. pc'[c] = p /\ p \in Forking /\ p \notin {"out", "sched", "commit", "self", "post"}
  BY <1>2 DEF TypeOK, Forking, InShootdown
<1>9. Counted'
  BY <1>1, <1>7, <1>8 DEF Counted
<1>10. IdleOps'
  BY <1>1, <1>4, <1>7, <1>8 DEF IdleOps, memory
<1>11. Offline'
  BY <1>1, <1>7 DEF Offline, Active, memory
<1>12. \A d \in Cpus : pc[d] \in Flushing => d = c
  BY <1>1, FlushingGuarded, OnlyOne
<1>13. \A x \in op[c].targets : x <= i => tlb_ack[x] = sequence
  <2>1. \A x \in op[c].targets : x \in Cpus
    BY <1>3 DEF Ops
  <2>. QED BY <1>1, <1>3, <1>5, <2>1 DEF Round, Acknowledged, Cpus
<1>14. p = "release" => \A x \in op[c].targets : tlb_ack[x] = sequence
  BY <1>2, <1>3, <1>13 DEF Ops, Cpus
<1>15. Mail'
  <2>1. p = "release" => \A x \in Cpus : tlb_request[x] = tlb_ack[x]
    BY <1>5, <1>14 DEF Round
  <2>2. p = "await" => p \in Flushing
    BY DEF Flushing
  <2>. QED BY <1>1, <1>8, <2>1, <2>2 DEF Mail, mailbox
<1>16. Rounds'
  <2>1. p = "await" => \A x \in op[c].targets : x < NextCpu(i) => tlb_ack[x] = sequence
    BY <1>2, <1>3, <1>13 DEF NextCpu, Ops, Cpus
  <2>2. p = "await" => Round(c)'
    BY <1>1, <1>4, <1>5, <2>1 DEF Round, mailbox
  <2>3. p = "release" => p \notin Flushing
    BY DEF Flushing
  <2>. QED BY <1>7, <1>8, <1>12, <2>2, <2>3 DEF Rounds
<1>17. StaleCovered'
  <2>. SUFFICES ASSUME NEW x \in Cpus, NEW w \in Vas,
                       tlb[x][w] \notin {None, pte[w]}
                PROVE  Covered(x, c, w, tlb[x][w])'
    BY <1>1 DEF StaleCovered, memory
  <2>1. Covered(x, c, w, tlb[x][w])
    BY <1>1, OneRound
  <2>2. x \in op[c].targets /\ tlb_ack[x] # sequence /\ poll[x] = 0
    BY <1>1, <2>1 DEF Covered, NotYet
  <2>3. p = "await"
    BY <1>14, <2>2
  <2>4. NotYet(x, c)'
    BY <1>1, <1>4, <2>2 DEF NotYet, mailbox
  <2>. QED BY <1>1, <1>4, <1>8, <2>1, <2>3, <2>4 DEF Covered, Called, Flushing, memory
<1>18. Owned'
  BY <1>1, <1>4, <1>7 DEF Owned, memory
<1>19. Shared'
  BY <1>1, <1>4, <1>7, <1>8 DEF Shared, memory
<1>. QED BY <1>6, <1>9, <1>10, <1>11, <1>15, <1>16, <1>17, <1>18, <1>19

(* While the guarded CPU is not in tlb_shootdown, TLBs agree with the page table. *)
LEMMA Coherent ==
  ASSUME MemInv, LockInv, NEW c \in Cpus, pc[c] \in Guarded, pc[c] \notin Called
  PROVE  /\ \A x \in Cpus, v \in Vas : tlb[x][v] \in {None, pte[v]}
         /\ \A d \in Cpus : pc[d] \notin Flushing
         /\ \A x \in Cpus : tlb_request[x] = tlb_ack[x] /\ poll[x] = 0
<1>1. \A d \in Cpus : pc[d] \notin Flushing
  BY FlushingGuarded, OnlyOne
<1>2. \A x \in Cpus : tlb_request[x] = tlb_ack[x] /\ poll[x] = 0
  BY <1>1 DEF MemInv, Mail
<1>3. ASSUME NEW x \in Cpus, NEW v \in Vas, tlb[x][v] \notin {None, pte[v]}
      PROVE  FALSE
  BY <1>3, OneRound DEF Covered
<1>. QED BY <1>1, <1>2, <1>3

(* The locals of every CPU but the guarded one are clear. *)
LEMMA OthersIdle ==
  ASSUME MemInv, LockInv, NEW c \in Cpus, pc[c] \in Guarded,
         NEW d \in Cpus, d # c
  PROVE  op[d] = NoOp /\ pc[d] \notin Forking
BY FlushingGuarded, OnlyOne DEF MemInv, IdleOps

LEMMA ReleaseMem ==
  ASSUME MemInv, LockInv, NEW c \in Cpus, Release(c)
  PROVE  MemInv'
<1>. USE DEF MemInv
<1>1. /\ UNCHANGED <<mutation_lock, device_lock, leaf_lock, preempt_count, iflag,
                     dev, leaf, leafFlags, online, ap_go, mailbox, pte, tlb>>
      /\ pc[c] = "release" /\ pc[c] \in Guarded /\ pc[c] \notin Called
      /\ op' = [op EXCEPT ![c] = [NoOp EXCEPT !.todo = op[c].todo]]
      /\ refcounts' = [f \in Frames |-> IF f \in op[c].retired
                                        THEN refcounts[f] - 1 ELSE refcounts[f]]
  BY DEF Release, Guarded, InShootdown, Called, Flushing
<1>2. PICK p \in {"in", "commit"} :
        /\ pc' = [pc EXCEPT ![c] = p]
        /\ p = "in" <=> op[c].todo = {}
  BY DEF Release
<1>3. op[c] \in Ops /\ NoOp \in Ops
  <2>1. NoOp \in Ops
    BY DEF NoOp, Ops, Cpus
  <2>2. op[c] \in Ops
    BY DEF TypeOK
  <2>. QED BY <2>1, <2>2
<1>4. /\ op'[c] \in Ops /\ op'[c].retired = {} /\ op'[c].todo = op[c].todo
      /\ op[c].todo = {} => op'[c] = NoOp
  BY <1>1, <1>3 DEF TypeOK, Ops, NoOp
<1>5. \A d \in Cpus : d # c => op'[d] = op[d] /\ pc'[d] = pc[d]
  BY <1>1, <1>2 DEF TypeOK
<1>6. pc'[c] = p /\ p \notin Flushing
  BY <1>2 DEF TypeOK, Flushing
<1>7. TypeOK'
  <2>1. op' \in [Cpus -> Ops] /\ pc' \in [Cpus -> Places]
    BY <1>1, <1>2, <1>4 DEF TypeOK, Places, Guarded, InShootdown
  <2>2. \A f \in op[c].retired : f \in Frames /\ refcounts[f] \in 1 .. MaxRefs
    <3>1. op[c].retired \in SUBSET Frames
      BY <1>3 DEF Ops
    <3>2. \A f \in op[c].retired : refcounts[f] > 0
      BY DEF Owned
    <3>3. \A f \in Frames : refcounts[f] \in 0 .. MaxRefs
      BY DEF TypeOK
    <3>. QED BY <3>1, <3>2, <3>3
  <2>3. refcounts' \in [Frames -> 0 .. MaxRefs]
    BY <1>1, <2>2 DEF TypeOK
  <2>. QED BY <1>1, <2>1, <2>3 DEF TypeOK, mailbox
<1>8. Counted'
  BY <1>1, <1>5, <1>6 DEF Counted
<1>9. IdleOps'
  BY <1>1, <1>2, <1>4, <1>5, <1>6 DEF IdleOps, Forking, InShootdown
<1>10. Offline'
  BY <1>1, <1>5 DEF Offline, Active
<1>11. \A d \in Cpus : pc'[d] \notin Flushing
  BY <1>1, <1>5, <1>6, Coherent
<1>12. Mail' /\ Rounds' /\ StaleCovered'
  <2>1. Mail'
    BY <1>1, Coherent DEF Mail, mailbox
  <2>2. Rounds' /\ StaleCovered'
    BY <1>1, <1>11, Coherent DEF Rounds, StaleCovered
  <2>. QED BY <2>1, <2>2
<1>13. Owned'
  <2>1. \A v \in Vas : pte[v] # None =>
          pte[v].frame \in Frames /\ refcounts'[pte[v].frame] = refcounts[pte[v].frame]
    BY <1>1 DEF Owned, TypeOK, Entries
  <2>2. \A d \in Cpus : op'[d].retired = {}
    BY <1>1, <1>4, <1>5, OthersIdle DEF NoOp
  <2>. QED BY <1>1, <2>1, <2>2 DEF Owned
<1>14. Shared'
  <2>. SUFFICES ASSUME NEW v \in Vas, pte[v] # None, pte[v].perm = "rw",
                       refcounts'[pte[v].frame] > 1
                PROVE  \E d \in Cpus : pc'[d] \in Forking /\ v \in op'[d].todo
    BY <1>1 DEF Shared
  <2>1. refcounts'[pte[v].frame] = refcounts[pte[v].frame]
    BY <1>1 DEF Owned, TypeOK, Entries
  <2>2. PICK d \in Cpus : pc[d] \in Forking /\ v \in op[d].todo
    BY <2>1 DEF Shared
  <2>3. d = c
    BY <1>1, <2>2, FlushingGuarded, OnlyOne
  <2>. QED BY <1>2, <1>4, <1>6, <2>2, <2>3 DEF Forking
<1>. QED BY <1>7, <1>8, <1>9, <1>10, <1>12, <1>13, <1>14

(* Another address space drops a reference; ours keeps its own. *)
LEMMA FreePageMem ==
  ASSUME MemInv, LockInv, NEW c \in Cpus, NEW f \in Frames, pmm_free_page(c, f)
  PROVE  MemInv'
<1>. USE DEF MemInv
<1>1. /\ UNCHANGED <<locks, online, ap_go, mailbox, op, pte, tlb>>
      /\ pc[c] \in Guarded /\ pc[c] \notin Called /\ pc[c] \notin Forking
      /\ refcounts' = [refcounts EXCEPT ![f] = @ - 1]
  BY DEF pmm_free_page, Editing, Guarded, Called, Flushing, Forking, InShootdown
<1>2. refcounts[f] > 0 /\ \A v \in Vas : pte[v] # None /\ pte[v].frame = f
                            => refcounts[f] > 1
  BY DEF pmm_free_page, Mapped, TypeOK
<1>3. refcounts' \in [Frames -> 0 .. MaxRefs]
  BY <1>1, <1>2 DEF TypeOK
<1>4. TypeOK' /\ Counted'
  BY <1>1, <1>3 DEF TypeOK, Counted, locks, mailbox
<1>5. IdleOps' /\ Offline' /\ Mail' /\ Rounds'
  BY <1>1 DEF IdleOps, Offline, Active, Mail, Rounds, Round, locks, mailbox
<1>6. StaleCovered'
  BY <1>1, Coherent DEF StaleCovered
<1>7. \A d \in Cpus : op[d].retired = {}
  <2>1. \A d \in Cpus : op[d] = NoOp
    BY <1>1, OthersIdle DEF IdleOps
  <2>2. NoOp.retired = {}
    BY DEF NoOp
  <2>. QED BY <2>1, <2>2
<1>8. Owned'
  BY <1>1, <1>2, <1>7 DEF Owned, TypeOK, Entries
<1>9. Shared'
  <2>1. \A v \in Vas : pte[v] # None =>
           pte[v].frame \in Frames /\ refcounts'[pte[v].frame] <= refcounts[pte[v].frame]
    BY <1>1 DEF TypeOK, Entries
  <2>. QED BY <1>1, <1>3, <2>1 DEF Shared, TypeOK, locks
<1>. QED BY <1>4, <1>5, <1>6, <1>8, <1>9

-----------------------------------------------------------------------------
(***************************************************************************)
(* The start of a shootdown, for any edit of the page table that is about  *)
(* the flushed page only, keeps or retires the frames it unmaps, and never *)
(* takes write access from a shared frame unless it flushes that page.     *)
(***************************************************************************)
SafeEdit(va, retired, todo) ==
  /\ pte' \in [Vas -> Entries \cup {None}]
  /\ refcounts' \in [Frames -> 0 .. MaxRefs]
  /\ \A v \in Vas : pte'[v] # pte[v] => va \in {v, All}
  /\ \A v \in Vas : pte[v] # None /\ pte'[v] # pte[v] =>
       /\ pte[v].frame \in retired \/
            (pte'[v] # None /\ pte'[v].frame = pte[v].frame)
       /\ pte[v].perm = "rw" /\ refcounts'[pte[v].frame] > 1 => va = v
  /\ \A v \in todo : pte'[v] # None /\ pte'[v].perm # "ro"
  /\ \A v \in Vas : pte'[v] # None => refcounts'[pte'[v].frame] > 0
  /\ \A v, w \in Vas : pte'[v] # None /\ pte'[w] # None /\
                       pte'[v].frame = pte'[w].frame => v = w
  /\ \A f \in retired : refcounts'[f] > 0 /\
                        \A v \in Vas : pte'[v] # None => pte'[v].frame # f
  /\ \A v \in Vas : pte'[v] # None /\ pte'[v].perm = "rw" /\
                    refcounts'[pte'[v].frame] > 1 => v \in todo

(* Posting the flush right after such an edit keeps the invariant. *)
LEMMA SenderStartsMem ==
  ASSUME MemInv, LockInv, NEW c \in Cpus,
         NEW va \in Vas \cup {All}, NEW retired \in SUBSET Frames,
         NEW todo \in SUBSET Vas,
         Runs(c), pc[c] \in {"in", "commit"}, sequence < MaxSeq,
         SenderStarts(c, va, retired, todo), SafeEdit(va, retired, todo)
  PROVE  MemInv'
<1>. DEFINE o == [i |-> 0, seq |-> sequence + 1, va |-> va, targets |-> {},
                  retired |-> retired, todo |-> todo]
<1>. USE DEF MemInv, SafeEdit
<1>1. /\ UNCHANGED <<mutation_lock, device_lock, leaf_lock, preempt_count, iflag,
                     dev, leaf, leafFlags, online, ap_go, tlb_request, tlb_ack,
                     poll, tlb>>
      /\ sequence < MaxSeq /\ sequence' = sequence + 1 /\ address' = va
      /\ op' = [op EXCEPT ![c] = o] /\ pc' = [pc EXCEPT ![c] = "post"]
      /\ pc[c] \in Guarded /\ pc[c] \notin Called /\ c \in Active
  BY DEF SenderStarts, Runs, Awake, Guarded, Called, Flushing, InShootdown
<1>2. sequence + 1 \in 0 .. MaxSeq
  BY <1>1 DEF TypeOK
<1>3. o \in Ops
  BY <1>2 DEF Ops, Cpus
<1>4. /\ op'[c] = o /\ pc'[c] = "post"
      /\ \A d \in Cpus : d # c => op'[d] = op[d] /\ pc'[d] = pc[d]
  BY <1>1 DEF TypeOK
<1>5. "post" \in Places /\ "post" \in Flushing /\ "post" \in Called
      /\ "post" \in Forking
  BY DEF Places, Guarded, Flushing, Called, Forking, InShootdown
<1>6. TypeOK'
  <2>1. op' \in [Cpus -> Ops] /\ pc' \in [Cpus -> Places]
    BY <1>1, <1>3, <1>5 DEF TypeOK
  <2>2. /\ tlb_request' \in [Cpus -> 0 .. MaxSeq]
        /\ tlb_ack' \in [Cpus -> 0 .. MaxSeq] /\ poll' \in [Cpus -> 0 .. MaxSeq]
        /\ sequence' \in 0 .. MaxSeq /\ address' \in Vas \cup {All}
    BY <1>1, <1>2 DEF TypeOK
  <2>. QED BY <1>1, <2>1, <2>2 DEF TypeOK
<1>7. Counted'
  BY <1>1, <1>4 DEF Counted
<1>8. \A d \in Cpus : d # c => op[d] = NoOp /\ pc[d] \notin Forking
  BY <1>1, OthersIdle
<1>9. NoOp.todo = {} /\ NoOp.retired = {}
  BY DEF NoOp
<1>10. IdleOps'
  BY <1>4, <1>5, <1>8, <1>9 DEF IdleOps
<1>11. Offline'
  BY <1>1, <1>4 DEF Offline, Active
<1>12. Mail'
  <2>1. \E d \in Cpus : pc'[d] \in Flushing
    BY <1>4, <1>5
  <2>. QED BY <1>1, <2>1 DEF Mail, TypeOK
<1>13. Rounds'
  <2>1. Round(c)'
    BY <1>1, <1>4, Coherent DEF Round, Mail, TypeOK
  <2>2. \A d \in Cpus : d # c => pc'[d] \notin Flushing
    BY <1>1, <1>4, Coherent
  <2>. QED BY <2>1, <2>2 DEF Rounds
<1>14. StaleCovered'
  <2>. SUFFICES ASSUME NEW x \in Cpus, NEW w \in Vas,
                       tlb[x][w] \notin {None, pte'[w]}
                PROVE  Covered(x, c, w, tlb[x][w])'
    BY <1>1 DEF StaleCovered
  <2>1. tlb[x][w] = pte[w] /\ pte[w] # None /\ pte'[w] # pte[w]
    BY <1>1, Coherent
  <2>2. NotYet(x, c)'
    <3>1. CASE x = c
      BY <1>4, <3>1 DEF NotYet
    <3>2. CASE x # c
      <4>1. x \in Active
        BY <2>1 DEF Offline, Empty
      <4>2. x \in online
        BY <1>1, <3>2, <4>1 DEF Offline, Active
      <4>. QED BY <1>1, <1>4, <3>2, <4>2 DEF NotYet, Cpus
    <3>. QED BY <3>1, <3>2
  <2>. QED BY <1>1, <1>4, <1>5, <2>1, <2>2 DEF Covered
<1>15. Owned'
  BY <1>4, <1>8, <1>9 DEF Owned
<1>16. Shared'
  BY <1>4, <1>5 DEF Shared
<1>. QED BY <1>6, <1>7, <1>10, <1>11, <1>12, <1>13, <1>14, <1>15, <1>16

(***************************************************************************)
(* A sender stopped by the check after such an edit: the mailboxes stay    *)
(* settled, and what the TLBs still hold is what it was called to flush.   *)
(***************************************************************************)
LEMMA SenderTrapsMem ==
  ASSUME MemInv, LockInv, NEW c \in Cpus,
         NEW va \in Vas \cup {All}, NEW retired \in SUBSET Frames,
         NEW todo \in SUBSET Vas,
         Runs(c), pc[c] \in {"in", "commit"},
         SenderTraps(c, va, retired, todo), SafeEdit(va, retired, todo)
  PROVE  MemInv'
<1>. DEFINE o == [i |-> 0, seq |-> 0, va |-> va, targets |-> {},
                  retired |-> retired, todo |-> todo]
<1>. USE DEF MemInv, SafeEdit
<1>1. /\ UNCHANGED <<mutation_lock, device_lock, leaf_lock, preempt_count, dev,
                     leaf, leafFlags, online, ap_go, mailbox, tlb>>
      /\ op' = [op EXCEPT ![c] = o] /\ pc' = [pc EXCEPT ![c] = "trap"]
      /\ iflag' = [iflag EXCEPT ![c] = FALSE]
      /\ pc[c] \in Guarded /\ pc[c] \notin Called /\ c \in Active
  BY DEF SenderTraps, Runs, Awake, Guarded, Called, Flushing, InShootdown
<1>2. o \in Ops /\ o.va = va /\ o.retired = retired /\ o.todo = todo
  BY DEF Ops, Cpus
<1>3. /\ op'[c] = o /\ pc'[c] = "trap"
      /\ \A d \in Cpus : d # c => op'[d] = op[d] /\ pc'[d] = pc[d]
  BY <1>1 DEF TypeOK
<1>4. "trap" \in Places /\ "trap" \notin Flushing /\ "trap" \in Called
      /\ "trap" \in Forking
  BY DEF Places, Guarded, Flushing, Called, Forking, InShootdown
<1>5. TypeOK'
  <2>1. op' \in [Cpus -> Ops] /\ pc' \in [Cpus -> Places]
        /\ iflag' \in [Cpus -> BOOLEAN]
    BY <1>1, <1>2, <1>4 DEF TypeOK
  <2>. QED BY <1>1, <2>1 DEF TypeOK, mailbox
<1>. HIDE DEF o
<1>6. Counted'
  BY <1>1, <1>3 DEF Counted
<1>7. \A d \in Cpus : d # c => op[d] = NoOp /\ pc[d] \notin Forking
  BY <1>1, OthersIdle
<1>8. NoOp.todo = {} /\ NoOp.retired = {}
  BY DEF NoOp
<1>9. IdleOps'
  BY <1>2, <1>3, <1>4, <1>7, <1>8 DEF IdleOps
<1>10. Offline'
  BY <1>1, <1>3 DEF Offline, Active
<1>11. \A d \in Cpus : pc'[d] \notin Flushing
  BY <1>1, <1>3, <1>4, Coherent
<1>12. Mail' /\ Rounds'
  <2>1. Mail'
    BY <1>1, Coherent DEF Mail, mailbox
  <2>2. Rounds'
    BY <1>11 DEF Rounds
  <2>. QED BY <2>1, <2>2
<1>13. StaleCovered'
  <2>. SUFFICES ASSUME NEW x \in Cpus, NEW w \in Vas,
                       tlb[x][w] \notin {None, pte'[w]}
                PROVE  Covered(x, c, w, tlb[x][w])'
    BY <1>1 DEF StaleCovered
  <2>1. tlb[x][w] = pte[w] /\ pte[w] # None /\ pte'[w] # pte[w]
    BY <1>1, Coherent
  <2>2. NotYet(x, c)'
    BY <1>3 DEF NotYet
  <2>. QED BY <1>1, <1>2, <1>3, <1>4, <2>1, <2>2 DEF Covered
<1>14. Owned'
  BY <1>2, <1>3, <1>7, <1>8 DEF Owned
<1>15. Shared'
  BY <1>2, <1>3, <1>4 DEF Shared
<1>. QED BY <1>5, <1>6, <1>9, <1>10, <1>12, <1>13, <1>14, <1>15

(* Calling tlb_shootdown after such an edit, whatever its check answers. *)
LEMMA StartFlush ==
  ASSUME MemInv, LockInv, NEW c \in Cpus,
         NEW va \in Vas \cup {All}, NEW retired \in SUBSET Frames,
         NEW todo \in SUBSET Vas,
         Runs(c), pc[c] \in {"in", "commit"}, tlb_shootdown(c, va, retired, todo),
         SafeEdit(va, retired, todo)
  PROVE  MemInv'
BY SenderStartsMem, SenderTrapsMem DEF tlb_shootdown

(* What every editor finds: a typed page table, and no fork in progress. *)
LEMMA EditorView ==
  ASSUME MemInv, LockInv, NEW c \in Cpus, Editing(c)
  PROVE  /\ Runs(c) /\ pc[c] = "in"
         /\ \A v \in Vas : pte[v] # None =>
              /\ pte[v] \in Entries /\ pte[v].frame \in Frames
              /\ refcounts[pte[v].frame] \in 1 .. MaxRefs
              /\ pte[v].perm = "rw" => refcounts[pte[v].frame] = 1
<1>1. Runs(c) /\ pc[c] = "in" /\ pc[c] \in Guarded /\ pc[c] \notin Forking
  BY DEF Editing, Guarded, Forking, InShootdown
<1>2. \A v \in Vas : pte[v] # None => pte[v] \in Entries
  BY DEF MemInv, TypeOK
<1>3. \A v \in Vas : pte[v] # None =>
        pte[v].frame \in Frames /\ refcounts[pte[v].frame] \in 1 .. MaxRefs
  BY <1>2 DEF MemInv, TypeOK, Owned, Entries
<1>4. \A d \in Cpus : pc[d] \notin Forking
  BY <1>1, OthersIdle
<1>5. \A v \in Vas : pte[v] # None /\ pte[v].perm = "rw" =>
        refcounts[pte[v].frame] = 1
  BY <1>3, <1>4 DEF MemInv, Shared
<1>. QED BY <1>1, <1>2, <1>3, <1>5

LEMMA MapMem ==
  ASSUME MemInv, LockInv, NEW c \in Cpus, NEW v \in Vas, NEW f \in Frames,
         NEW perm \in {"ro", "rw"}, vmm_map_page_in(c, v, f, perm)
  PROVE  MemInv'
<1>1. /\ Editing(c) /\ pte[v] = None /\ refcounts[f] = 0
      /\ refcounts' = [refcounts EXCEPT ![f] = 1]
      /\ pte' = [pte EXCEPT ![v] = [frame |-> f, perm |-> perm]]
      /\ tlb_shootdown(c, v, {}, {})
  BY DEF vmm_map_page_in, Mapped, FreeFrames
<1>2. [frame |-> f, perm |-> perm] \in Entries
  BY DEF Entries
<1>3. [frame |-> f, perm |-> perm] # None
  BY <1>2 DEF Entries
<1>4. pte' \in [Vas -> Entries \cup {None}] /\ refcounts' \in [Frames -> 0 .. MaxRefs]
  BY <1>1, <1>2 DEF MemInv, TypeOK
<1>5. /\ pte'[v] = [frame |-> f, perm |-> perm]
      /\ \A w \in Vas : w # v => pte'[w] = pte[w]
  BY <1>1 DEF MemInv, TypeOK
<1>6. /\ refcounts'[f] = 1
      /\ \A g \in Frames : g # f => refcounts'[g] = refcounts[g]
  BY <1>1 DEF MemInv, TypeOK
<1>7. \A w \in Vas : pte[w] # None => pte[w].frame # f
  BY <1>1, EditorView
<1>8. \A w \in Vas : pte'[w] # None => refcounts'[pte'[w].frame] > 0
  BY <1>1, <1>5, <1>6, <1>7, EditorView
<1>9. \A u, w \in Vas : pte'[u] # None /\ pte'[w] # None /\
                        pte'[u].frame = pte'[w].frame => u = w
  BY <1>5, <1>7 DEF MemInv, Owned
<1>10. \A w \in Vas : pte'[w] # None /\ pte'[w].perm = "rw" /\
                      refcounts'[pte'[w].frame] > 1 => FALSE
  BY <1>1, <1>5, <1>6, <1>7, EditorView
<1>11. SafeEdit(v, {}, {})
  BY <1>1, <1>4, <1>5, <1>8, <1>9, <1>10, EditorView DEF SafeEdit
<1>. QED BY <1>1, <1>11, EditorView, StartFlush

(* Unmapping a set of pages: vmm_unmap_page_in and user_free. *)
LEMMA UnmapMem ==
  ASSUME MemInv, LockInv, NEW c \in Cpus, NEW range \in SUBSET Vas,
         NEW va \in Vas \cup {All}, Editing(c),
         \A v \in range : pte[v] # None /\ va \in {v, All},
         pte' = [v \in Vas |-> IF v \in range THEN None ELSE pte[v]],
         refcounts' = refcounts,
         tlb_shootdown(c, va, {pte[v].frame : v \in range}, {})
  PROVE  MemInv'
<1>. DEFINE retired == {pte[v].frame : v \in range}
<1>1. retired \in SUBSET Frames
  BY EditorView
<1>2. pte' \in [Vas -> Entries \cup {None}] /\ refcounts' \in [Frames -> 0 .. MaxRefs]
  BY DEF MemInv, TypeOK
<1>3. \A v \in Vas : pte'[v] # None => v \notin range /\ pte'[v] = pte[v]
  OBVIOUS
<1>4. \A v \in Vas : pte'[v] # pte[v] => v \in range
  BY DEF MemInv, TypeOK
<1>5. \A f \in retired : refcounts'[f] > 0 /\
                         \A v \in Vas : pte'[v] # None => pte'[v].frame # f
  BY <1>3, EditorView DEF MemInv, Owned
<1>6. \A v \in Vas : pte'[v] # None => refcounts'[pte'[v].frame] > 0
  BY <1>3, EditorView
<1>7. \A u, w \in Vas : pte'[u] # None /\ pte'[w] # None /\
                        pte'[u].frame = pte'[w].frame => u = w
  BY <1>3 DEF MemInv, Owned
<1>8. \A w \in Vas : pte'[w] # None /\ pte'[w].perm = "rw" /\
                     refcounts'[pte'[w].frame] > 1 => FALSE
  BY <1>3, EditorView
<1>9. \A v \in Vas : pte[v] # None /\ pte'[v] # pte[v] =>
        /\ pte[v].frame \in retired
        /\ ~(pte[v].perm = "rw" /\ refcounts'[pte[v].frame] > 1)
  BY <1>4, EditorView
<1>10. tlb_shootdown(c, va, retired, {})
  OBVIOUS
<1>11. Runs(c) /\ pc[c] \in {"in", "commit"}
  BY EditorView
<1>. HIDE DEF retired
<1>12. \A v \in Vas : pte'[v] # pte[v] => va \in {v, All}
  BY <1>4
<1>13. \A v \in Vas : pte[v] # None /\ pte'[v] # pte[v] =>
         /\ pte[v].frame \in retired \/
              (pte'[v] # None /\ pte'[v].frame = pte[v].frame)
         /\ pte[v].perm = "rw" /\ refcounts'[pte[v].frame] > 1 => va = v
  BY <1>9
<1>14. \A v \in {} : pte'[v] # None /\ pte'[v].perm # "ro"
  OBVIOUS
<1>15. \A w \in Vas : pte'[w] # None /\ pte'[w].perm = "rw" /\
                      refcounts'[pte'[w].frame] > 1 => w \in {}
  BY <1>8
<1>16. SafeEdit(va, retired, {})
  BY <1>2, <1>5, <1>6, <1>7, <1>12, <1>13, <1>14, <1>15 DEF SafeEdit
<1>. QED BY <1>1, <1>10, <1>11, <1>16, StartFlush

LEMMA UnmapPageMem ==
  ASSUME MemInv, LockInv, NEW c \in Cpus, NEW v \in Vas, NEW va \in {v, All},
         vmm_unmap_page_in(c, v, va)
  PROVE  MemInv'
<1>1. /\ Editing(c) /\ pte[v] # None /\ refcounts' = refcounts
      /\ pte' = [pte EXCEPT ![v] = None]
      /\ tlb_shootdown(c, va, {pte[v].frame}, {})
  BY DEF vmm_unmap_page_in, Mapped
<1>2. pte' = [w \in Vas |-> IF w \in {v} THEN None ELSE pte[w]]
  BY <1>1 DEF MemInv, TypeOK
<1>3. {pte[v].frame} = {pte[w].frame : w \in {v}}
  OBVIOUS
<1>4. tlb_shootdown(c, va, {pte[w].frame : w \in {v}}, {})
  BY <1>1, <1>3
<1>5. {v} \in SUBSET Vas /\ va \in Vas \cup {All}
  OBVIOUS
<1>6. \A w \in {v} : pte[w] # None /\ va \in {w, All}
  BY <1>1
<1>. QED BY <1>1, <1>2, <1>4, <1>5, <1>6, UnmapMem

LEMMA UserFreeMem ==
  ASSUME MemInv, LockInv, NEW c \in Cpus, NEW range \in SUBSET Vas,
         user_free(c, range)
  PROVE  MemInv'
<1>1. /\ Editing(c) /\ refcounts' = refcounts
      /\ \A v \in range : pte[v] # None /\ All \in {v, All}
      /\ pte' = [v \in Vas |-> IF v \in range THEN None ELSE pte[v]]
      /\ tlb_shootdown(c, All, {pte[v].frame : v \in range}, {})
  BY DEF user_free, Mapped
<1>. QED BY <1>1, UnmapMem

(***************************************************************************)
(* A change of permission on one page, its frame kept: CowCommit, CowRetry *)
(* and CowReuse.                                                           *)
(***************************************************************************)
LEMMA ProtectMem ==
  ASSUME MemInv, LockInv, NEW c \in Cpus, NEW v \in Vas, NEW todo \in SUBSET Vas,
         NEW perm \in {"cow", "rw"},
         Runs(c), pc[c] \in {"in", "commit"}, pte[v] # None,
         pte' = [pte EXCEPT ![v].perm = perm], refcounts' = refcounts,
         tlb_shootdown(c, v, {}, todo),
         \A w \in todo : pte[w] # None /\ pte[w].perm # "ro",
         perm = "rw" => refcounts[pte[v].frame] = 1,
         \A w \in Vas : w # v /\ pte[w] # None /\ pte[w].perm = "rw" /\
                        refcounts[pte[w].frame] > 1 => w \in todo
  PROVE  MemInv'
<1>1. pte[v] \in Entries
  BY DEF MemInv, TypeOK
<1>2. /\ pte'[v] \in Entries /\ pte'[v] # None
      /\ pte'[v].frame = pte[v].frame /\ pte'[v].perm = perm
      /\ \A w \in Vas : w # v => pte'[w] = pte[w]
  BY <1>1 DEF MemInv, TypeOK, Entries
<1>3. pte' \in [Vas -> Entries \cup {None}] /\ refcounts' \in [Frames -> 0 .. MaxRefs]
  BY <1>2 DEF MemInv, TypeOK
<1>4. \A w \in Vas : (pte'[w] # None <=> pte[w] # None)
                     /\ (pte'[w] # None => pte'[w].frame = pte[w].frame)
  BY <1>2
<1>5. \A w \in todo : pte'[w] # None /\ pte'[w].perm # "ro"
  BY <1>2
<1>6. \A w \in Vas : pte'[w] # None => refcounts'[pte'[w].frame] > 0
  BY <1>4 DEF MemInv, Owned
<1>7. \A u, w \in Vas : pte'[u] # None /\ pte'[w] # None /\
                        pte'[u].frame = pte'[w].frame => u = w
  BY <1>4 DEF MemInv, Owned
<1>8. \A w \in Vas : pte'[w] # None /\ pte'[w].perm = "rw" /\
                     refcounts'[pte'[w].frame] > 1 => w \in todo
  BY <1>2
<1>9. \A w \in Vas : pte'[w] # pte[w] => v \in {w, All}
  BY <1>2
<1>10. \A w \in Vas : pte[w] # None /\ pte'[w] # pte[w] =>
         /\ pte[w].frame \in {} \/
              (pte'[w] # None /\ pte'[w].frame = pte[w].frame)
         /\ pte[w].perm = "rw" /\ refcounts'[pte[w].frame] > 1 => v = w
  BY <1>2
<1>11. \A f \in {} : refcounts'[f] > 0 /\
                     \A w \in Vas : pte'[w] # None => pte'[w].frame # f
  OBVIOUS
<1>12. {} \in SUBSET Frames /\ v \in Vas \cup {All}
  OBVIOUS
<1>13. SafeEdit(v, {}, todo)
  BY <1>3, <1>5, <1>6, <1>7, <1>8, <1>9, <1>10, <1>11 DEF SafeEdit
<1>. QED BY <1>12, <1>13, StartFlush

LEMMA CowCommitMem ==
  ASSUME MemInv, LockInv, NEW c \in Cpus, NEW v \in Vas, CowCommit(c, v)
  PROVE  MemInv'
<1>1. /\ Runs(c) /\ pc[c] = "commit" /\ v \in op[c].todo /\ refcounts' = refcounts
      /\ pte' = [pte EXCEPT ![v].perm = "cow"]
      /\ tlb_shootdown(c, v, {}, op[c].todo \ {v})
  BY DEF CowCommit
<1>2. \A w \in op[c].todo : pte[w] # None /\ pte[w].perm # "ro"
  BY DEF MemInv, IdleOps
<1>3. op[c].todo \ {v} \in SUBSET Vas
  BY DEF MemInv, TypeOK, Ops
<1>4. pc[c] \in Guarded
  BY <1>1 DEF Guarded
<1>5. \A w \in Vas : w # v /\ pte[w] # None /\ pte[w].perm = "rw" /\
                     refcounts[pte[w].frame] > 1 => w \in op[c].todo \ {v}
  BY <1>4, FlushingGuarded, OnlyOne DEF MemInv, Shared
<1>6. pc[c] \in {"in", "commit"} /\ "cow" \in {"cow", "rw"} /\ pte[v] # None
  BY <1>1, <1>2
<1>7. \A w \in op[c].todo \ {v} : pte[w] # None /\ pte[w].perm # "ro"
  BY <1>2
<1>8. "cow" = "rw" => refcounts[pte[v].frame] = 1
  OBVIOUS
<1>. QED BY <1>1, <1>3, <1>5, <1>6, <1>7, <1>8, ProtectMem

LEMMA CowInPlaceMem ==
  ASSUME MemInv, LockInv, NEW c \in Cpus, NEW v \in Vas,
         CowRetry(c, v) \/ CowReuse(c, v)
  PROVE  MemInv'
<1>1. /\ Editing(c) /\ pte[v] # None /\ refcounts' = refcounts
      /\ tlb_shootdown(c, v, {}, {})
  BY DEF CowRetry, CowReuse, Mapped
<1>2. pte[v] \in [frame : Frames, perm : {"ro", "cow", "rw"}]
  BY <1>1, EditorView DEF Entries
<1>3. pte' = [pte EXCEPT ![v].perm = "rw"]
  <2>1. CASE CowReuse(c, v)
    BY <2>1 DEF CowReuse
  <2>2. CASE CowRetry(c, v)
    <3>1. pte' = pte /\ pte[v].perm = "rw"
      BY <2>2 DEF CowRetry
    <3>2. [pte[v] EXCEPT !.perm = "rw"] = pte[v]
      BY <1>2, <3>1
    <3>. QED BY <3>1, <3>2 DEF MemInv, TypeOK
  <2>. QED BY <2>1, <2>2
<1>4. refcounts[pte[v].frame] = 1
  BY <1>1, EditorView DEF CowRetry, CowReuse
<1>5. \A w \in Vas : w # v /\ pte[w] # None /\ pte[w].perm = "rw" /\
                     refcounts[pte[w].frame] > 1 => FALSE
  BY <1>1, EditorView
<1>6. Runs(c) /\ pc[c] \in {"in", "commit"}
  BY <1>1, EditorView
<1>7. {} \in SUBSET Vas /\ "rw" \in {"cow", "rw"}
  OBVIOUS
<1>8. \A w \in {} : pte[w] # None /\ pte[w].perm # "ro"
  OBVIOUS
<1>9. \A w \in Vas : w # v /\ pte[w] # None /\ pte[w].perm = "rw" /\
                     refcounts[pte[w].frame] > 1 => w \in {}
  BY <1>5
<1>10. "rw" = "rw" => refcounts[pte[v].frame] = 1
  BY <1>4
<1>. QED BY <1>1, <1>3, <1>6, <1>7, <1>8, <1>9, <1>10, ProtectMem

LEMMA CowCopyMem ==
  ASSUME MemInv, LockInv, NEW c \in Cpus, NEW v \in Vas, NEW f \in Frames,
         CowCopy(c, v, f)
  PROVE  MemInv'
<1>. DEFINE old == pte[v].frame
            new == [frame |-> f, perm |-> "rw"]
<1>1. /\ Editing(c) /\ pte[v] # None /\ pte[v].perm = "cow"
      /\ refcounts[old] > 1 /\ refcounts[f] = 0
      /\ refcounts' = [refcounts EXCEPT ![f] = 1]
      /\ pte' = [pte EXCEPT ![v] = new]
      /\ tlb_shootdown(c, v, {old}, {})
  BY DEF CowCopy, Mapped, FreeFrames
<1>2. new \in Entries /\ new # None
  BY DEF Entries
<1>3. pte' \in [Vas -> Entries \cup {None}] /\ refcounts' \in [Frames -> 0 .. MaxRefs]
  BY <1>1, <1>2 DEF MemInv, TypeOK
<1>4. pte'[v] = new /\ \A w \in Vas : w # v => pte'[w] = pte[w]
  BY <1>1 DEF MemInv, TypeOK
<1>5. refcounts'[f] = 1 /\ \A g \in Frames : g # f => refcounts'[g] = refcounts[g]
  BY <1>1 DEF MemInv, TypeOK
<1>6. \A w \in Vas : pte[w] # None => pte[w].frame # f
  BY <1>1, EditorView
<1>7. old \in Frames /\ old # f
  BY <1>1, <1>6, EditorView
<1>8. refcounts'[old] > 0 /\ \A w \in Vas : pte'[w] # None => pte'[w].frame # old
  BY <1>1, <1>4, <1>5, <1>7 DEF MemInv, Owned
<1>9. \A w \in Vas : pte'[w] # None => refcounts'[pte'[w].frame] > 0
  BY <1>1, <1>4, <1>5, <1>6, EditorView
<1>10. \A u, w \in Vas : pte'[u] # None /\ pte'[w] # None /\
                         pte'[u].frame = pte'[w].frame => u = w
  BY <1>4, <1>6 DEF MemInv, Owned
<1>11. \A w \in Vas : pte'[w] # None /\ pte'[w].perm = "rw" /\
                      refcounts'[pte'[w].frame] > 1 => FALSE
  BY <1>1, <1>4, <1>5, <1>6, EditorView
<1>12. {old} \in SUBSET Frames
  BY <1>7
<1>13. \A w \in Vas : pte'[w] # pte[w] => w = v
  BY <1>4
<1>14. SafeEdit(v, {old}, {})
  BY <1>1, <1>3, <1>8, <1>9, <1>10, <1>11, <1>13, EditorView DEF SafeEdit
<1>. QED BY <1>1, <1>12, <1>14, EditorView, StartFlush

(* fork: references for the child, before any page is protected. *)
LEMMA CloneMem ==
  ASSUME MemInv, LockInv, NEW c \in Cpus, cow_clone_address_space(c)
  PROVE  MemInv'
<1>. DEFINE frames == {pte[v].frame : v \in {w \in Vas : pte[w] # None}}
            pages == {v \in Vas : pte[v] # None /\ pte[v].perm # "ro"}
<1>1. /\ Editing(c)
      /\ \A f \in frames : refcounts[f] < MaxRefs
      /\ refcounts' = [f \in Frames |-> IF f \in frames
                                        THEN refcounts[f] + 1 ELSE refcounts[f]]
      /\ op' = [op EXCEPT ![c].todo = pages]
      /\ UNCHANGED <<mutation_lock, device_lock, leaf_lock, preempt_count, iflag,
                     dev, leaf, leafFlags, online, ap_go, mailbox, pte, tlb>>
  BY DEF cow_clone_address_space, Mapped, pmm_ref_page
<1>2. PICK p \in {"in", "commit"} : pc' = [pc EXCEPT ![c] = p]
                                   /\ (p = "in" <=> pages = {})
  BY DEF cow_clone_address_space, Mapped
<1>. USE DEF MemInv
<1>3. /\ Runs(c) /\ pc[c] = "in" /\ pc[c] \in Guarded /\ pc[c] \notin Called
      /\ pc[c] \notin Forking /\ c \in Active
  BY <1>1 DEF Editing, Runs, Awake, Guarded, Called, Flushing, Forking, InShootdown
<1>4. op[c] = NoOp
  BY <1>3 DEF IdleOps
<1>5. /\ op'[c] \in Ops /\ op'[c].retired = {} /\ op'[c].todo = pages
      /\ pages = {} => op'[c] = NoOp
  <2>1. op[c] \in Ops
    BY DEF TypeOK
  <2>2. op'[c] = [op[c] EXCEPT !.todo = pages]
    BY <1>1 DEF TypeOK
  <2>3. pages \in SUBSET Vas
    OBVIOUS
  <2>4. op'[c] \in Ops
    BY <2>1, <2>2, <2>3 DEF Ops
  <2>. HIDE DEF pages
  <2>5. op'[c].todo = pages /\ op'[c].retired = {}
    BY <1>4, <2>2 DEF NoOp
  <2>6. pages = {} => op'[c] = NoOp
    <3>1. [NoOp EXCEPT !.todo = {}] = NoOp
      BY ONLY TRUE DEF NoOp
    <3>. QED BY <1>4, <2>2, <3>1
  <2>. QED BY <2>4, <2>5, <2>6
<1>6. /\ pc'[c] = p /\ p \notin Flushing
      /\ \A d \in Cpus : d # c => op'[d] = op[d] /\ pc'[d] = pc[d]
  BY <1>1, <1>2 DEF TypeOK, Flushing
<1>7. TypeOK'
  <2>1. op' \in [Cpus -> Ops] /\ pc' \in [Cpus -> Places]
    BY <1>1, <1>2, <1>5 DEF TypeOK, Places, Guarded
  <2>2. refcounts' \in [Frames -> 0 .. MaxRefs]
    BY <1>1 DEF TypeOK
  <2>. QED BY <1>1, <2>1, <2>2 DEF TypeOK, mailbox
<1>8. Counted'
  BY <1>1, <1>3, <1>6 DEF Counted
<1>9. IdleOps'
  <2>1. NoOp.todo = {}
    BY DEF NoOp
  <2>. QED BY <1>1, <1>2, <1>5, <1>6, <2>1 DEF IdleOps, Forking, InShootdown
<1>10. Offline'
  BY <1>1, <1>3, <1>6 DEF Offline, Active
<1>11. \A d \in Cpus : pc'[d] \notin Flushing
  BY <1>3, <1>6, Coherent
<1>12. Mail'
  BY <1>1, <1>3, Coherent DEF Mail, mailbox
<1>13. Rounds' /\ StaleCovered'
  BY <1>1, <1>3, <1>11, Coherent DEF Rounds, StaleCovered
<1>14. \A v \in Vas : pte[v] # None =>
         pte[v].frame \in Frames /\ refcounts'[pte[v].frame] > 0
  BY <1>1, EditorView
<1>15. \A d \in Cpus : op'[d].retired = {}
  BY <1>3, <1>5, <1>6, OthersIdle DEF NoOp
<1>16. Owned'
  BY <1>1, <1>14, <1>15 DEF Owned
<1>17. Shared'
  BY <1>1, <1>2, <1>5, <1>6 DEF Shared, Forking
<1>. QED BY <1>7, <1>8, <1>9, <1>10, <1>12, <1>13, <1>16, <1>17

-----------------------------------------------------------------------------
LEMMA MemNext == MemInv /\ LockInv /\ [Next]_vars => MemInv'
<1>. SUFFICES ASSUME MemInv, LockInv, [Next]_vars PROVE MemInv'
  OBVIOUS
<1>1. CASE smp_start_timers
  BY <1>1, BringUpMem DEF Bsp, Cpus
<1>2. ASSUME NEW c \in Cpus, smp_ap_main(c) PROVE MemInv'
  BY <1>2, BringUpMem
<1>3. ASSUME NEW c \in Cpus, ShootdownStep(c), ~Halted(c) PROVE MemInv'
  BY <1>3, PollInvalidateMem, PollAckMem, PostMem, SelfMem, AwaitMem, ReleaseMem
     DEF ShootdownStep
<1>4. ASSUME NEW c \in Cpus, MemoryStep(c) PROVE MemInv'
  BY <1>4, MapMem, UnmapPageMem, UserFreeMem, CowCommitMem, CowInPlaceMem,
     CowCopyMem, FillMem, CloneMem, FreePageMem DEF MemoryStep
<1>5. CASE UNCHANGED vars
  BY <1>5 DEF vars, locks, mailbox, memory, MemInv, TypeOK, Counted, IdleOps,
              Offline, Active, Mail, Rounds, Round, StaleCovered, Covered, NotYet,
              Owned, Shared
<1>. QED BY <1>1, <1>2, <1>3, <1>4, <1>5, LockStepMem DEF Next, Halted

LEMMA MemInvariance == Spec => []MemInv
<1>1. Spec => []LockInv
  BY LockInvariance
<1>. QED BY <1>1, MemInit, MemNext, PTL DEF Spec

(***************************************************************************)
(* Every variable keeps its type for any number of CPUs, pages and frames; *)
(* no reference count leaves 0 .. MaxRefs.                                 *)
(***************************************************************************)
THEOREM ShootdownTypeCorrect == Spec => []TypeOK
<1>1. MemInv => TypeOK
  BY DEF MemInv
<1>. QED BY <1>1, MemInvariance, PTL

(***************************************************************************)
(* For any number of CPUs, a translation that the page table no longer has *)
(* survives in a TLB only while the shootdown of its page is running, or   *)
(* when its sender was stopped by the check at its start.                  *)
(***************************************************************************)
THEOREM ShootdownComplete == Spec => []NoStaleTranslation
<1>1. MemInv => NoStaleTranslation
  BY DEF MemInv, StaleCovered, Covered, Called, Flushing, NoStaleTranslation
<1>. QED BY <1>1, MemInvariance, PTL

(***************************************************************************)
(* For any number of CPUs, pages and frames, no TLB reaches a frame whose  *)
(* reference count is zero: nothing is reused under a live translation,    *)
(* not even after a sender was stopped between its edit and its flush.     *)
(***************************************************************************)
THEOREM NoUseAfterFree == Spec => []FrameOwned
<1>1. MemInv => FrameOwned
  <2>. SUFFICES ASSUME MemInv, NEW c \in Cpus, NEW v \in Vas, tlb[c][v] # None
                PROVE  refcounts[tlb[c][v].frame] > 0
    BY DEF FrameOwned
  <2>1. CASE tlb[c][v] = pte[v]
    BY <2>1 DEF MemInv, Owned
  <2>2. CASE tlb[c][v] # pte[v]
    BY <2>2 DEF MemInv, StaleCovered, Covered, Owned
  <2>. QED BY <2>1, <2>2
<1>. QED BY <1>1, MemInvariance, PTL

(***************************************************************************)
(* For any number of CPUs and pages, once the commit loop of fork has      *)
(* passed a page, no CPU holds a writable translation of its shared frame, *)
(* or the fork was stopped by the check before it could go on.             *)
(***************************************************************************)
THEOREM ForkIsolates == Spec => []CowIsolation
<1>1. MemInv => CowIsolation
  <2>. SUFFICES ASSUME MemInv, NEW c \in Cpus, NEW v \in Vas, tlb[c][v] # None,
                       tlb[c][v].perm = "rw", refcounts[tlb[c][v].frame] > 1
                PROVE  \E d \in Cpus :
                         \/ pc[d] \in Forking /\ v \in op[d].todo
                         \/ pc[d] \in Called /\ op[d].va = v
    BY DEF CowIsolation, Forking, Called, Flushing
  <2>1. CASE tlb[c][v] = pte[v]
    BY <2>1 DEF MemInv, Shared
  <2>2. CASE tlb[c][v] # pte[v]
    BY <2>2 DEF MemInv, StaleCovered, Covered
  <2>. QED BY <2>1, <2>2
<1>. QED BY <1>1, MemInvariance, PTL

=============================================================================
