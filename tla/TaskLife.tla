------------------------------ MODULE TaskLife ------------------------------
(***************************************************************************)
(* The life of a task in kernel/task.c: publication on the task list, the  *)
(* per-CPU context switch, blocking, death, and reclamation by the reaper, *)
(* on any number of CPUs.                                                  *)
(*                                                                         *)
(* Every section under PREEMPT_GUARD (the global mutation lock) is one     *)
(* action.  What happens without the lock is a step of its own: the IRET   *)
(* that leaves the outgoing kernel stack, the acknowledgement of that IRET *)
(* by the next kernel entry (task_context_enter), and the point between    *)
(* two guarded sections of exit, abort, blocking and reaping.              *)
(*                                                                         *)
(* Pids are handed out in increasing order and never reused, and the list  *)
(* only grows at its tail, so the list is the set "listed" in pid order.   *)
(* Which READY task a CPU picks, when a quantum ends, when a sleeper is    *)
(* due and which CPU a new task is placed on are left open here; module    *)
(* Scheduler models those choices.                                         *)
(***************************************************************************)
EXTENDS Naturals, FiniteSets

CONSTANTS
  Cpus,    \* CPUs with an idle task (percpu_get(i)->idle_task)
  Bsp,     \* the boot processor, where the reaper runs
  MaxPid,  \* bound: pids handed out in one behaviour
  MaxKernel, \* bound: kernel tasks on the list, the reaper included
  Targets  \* bound: the pids programs pass to wait_pid

ASSUME BspAssumption == Bsp \in Cpus
ASSUME MaxPidAssumption == MaxPid \in Nat /\ MaxPid >= 2
ASSUME MaxKernelAssumption == MaxKernel \in Nat
ASSUME TargetsAssumption == Targets \subseteq 0 .. MaxPid

Pids == 1 .. MaxPid
Idle == 0        \* a CPU's own idle task: pid 0, never freed
Reaper == 1      \* reaper_task, the first task created
Shell == 2       \* the first user task
NoSpace == 0     \* pml4 == NULL: a kernel task

RUNNING == "RUNNING"
READY == "READY"
SLEEPING == "SLEEPING"
WAITING == "WAITING"
DEAD == "DEAD"
States == {RUNNING, READY, SLEEPING, WAITING, DEAD}

(***************************************************************************)
(* Where a task's own control flow is:                                     *)
(*   run    in user mode, or in the body of a kernel task                  *)
(*   block  at the end of a system call, in task_wait_current              *)
(*   exit   about to run exit_current_task, interrupts enabled             *)
(*   fault  about to run exit_current_task, interrupts disabled            *)
(*   halt   in the final hlt loop of exit_current_task                     *)
(*   reap   the reaper, about to scan the list                             *)
(*   park   the reaper, about to mark itself WAITING                       *)
(***************************************************************************)
Places == {"run", "block", "exit", "fault", "halt", "reap", "park"}

VARIABLES
  nextPid,      \* next_pid
  listed,       \* tasks on the task list (the idle task is implicit)
  state,        \* t->state
  cpu,          \* t->cpu_id
  pml4,         \* t->pml4, named by the pid of the process that created it
  threadCount,  \* t->thread_count
  waitTarget,   \* t->wait_target_pid
  pc,           \* where the task is, see Places
  current,      \* percpu->current
  retiring,     \* percpu->retiring
  onStack       \* the task whose kernel stack the CPU is on

vars == <<nextPid, listed, state, cpu, pml4, threadCount, waitTarget, pc,
          current, retiring, onStack>>
taskVars == <<nextPid, listed, cpu, pml4, threadCount>>
cpuVars == <<current, onStack>>

TypeOK ==
  /\ nextPid \in 1 .. (MaxPid + 1)
  /\ listed \subseteq Pids
  /\ state \in [Pids -> States]
  /\ cpu \in [Pids -> Cpus]
  /\ pml4 \in [Pids -> Pids \cup {NoSpace}]
  /\ threadCount \in [Pids -> Nat]
  /\ waitTarget \in [Pids -> Pids \cup {Idle}]
  /\ pc \in [Pids -> Places]
  /\ current \in [Cpus -> Pids \cup {Idle}]
  /\ retiring \in [Cpus -> Pids \cup {Idle}]
  /\ onStack \in [Cpus -> Pids \cup {Idle}]

\* task_init has created the reaper, kernel.c the shell; CPUs are idle and
\* the timers are about to start.
Init ==
  /\ nextPid = 3
  /\ listed = {Reaper, Shell}
  /\ state = [t \in Pids |-> IF t = Reaper THEN WAITING
                             ELSE IF t = Shell THEN READY ELSE DEAD]
  /\ cpu = [t \in Pids |-> Bsp]
  /\ pml4 = [t \in Pids |-> IF t = Shell THEN Shell ELSE NoSpace]
  /\ threadCount = [t \in Pids |-> 1]
  /\ waitTarget = [t \in Pids |-> Idle]
  /\ pc = [t \in Pids |-> IF t = Reaper THEN "reap" ELSE "run"]
  /\ current = [c \in Cpus |-> Idle]
  /\ retiring = [c \in Cpus |-> Idle]
  /\ onStack = [c \in Cpus |-> Idle]
-----------------------------------------------------------------------------
(***************************************************************************)
(* Helpers of task.c.                                                      *)
(***************************************************************************)

is_thread(t) == pml4[t] \notin {NoSpace, t}

\* Mutant: a stack that a CPU has not left yet no longer pins its task.
task_active_NoRetiring(ret, t) == \E c \in Cpus : current[c] = t

\* task_active: t runs on some CPU or some CPU is still leaving its stack.
\* "ret" is the retiring slots as the caller sees them.
task_active(ret, t) == \E c \in Cpus : current[c] = t \/ ret[c] = t

\* task_context_enter: the first thing every kernel entry does.  Being on any
\* other stack proves that the IRET away from the retiring one has happened.
task_context_enter(c) ==
  IF onStack[c] = retiring[c] THEN retiring
                              ELSE [retiring EXCEPT ![c] = Idle]

\* task_is_dead: a pid that is not on the list counts as dead; pid 0 is the
\* idle task at the head of the list.
task_is_dead(st, t) == t # Idle /\ (t \in listed => st[t] = DEAD)

\* Mutants: the waiters are not woken, or every waiter is.
WakeWaitersOn_Never(st, gone) == st
WakeWaitersOn_All(st, gone) ==
  [t \in Pids |-> IF t \in listed /\ t # Reaper /\ st[t] = WAITING
                  THEN READY ELSE st[t]]

\* The loops that make READY every WAITING task whose target is in "gone".
WakeWaitersOn(st, gone) ==
  [t \in Pids |-> IF t \in listed /\ st[t] = WAITING /\ waitTarget[t] \in gone
                  THEN READY ELSE st[t]]

\* A task that is in kernel or user code of its own on CPU c: it is current
\* there and the CPU has left the stack of the task before it.
At(c, place) ==
  /\ current[c] # Idle
  /\ onStack[c] = current[c]
  /\ pc[current[c]] = place

\* task_publish, with the constructor's other fields: t becomes visible.
task_publish(t, space, p) ==
  /\ nextPid <= MaxPid
  /\ t = nextPid
  /\ nextPid' = nextPid + 1
  /\ listed' = listed \cup {t}
  /\ cpu' = [cpu EXCEPT ![t] = p]
  /\ pml4' = [pml4 EXCEPT ![t] = space]
  /\ waitTarget' = [waitTarget EXCEPT ![t] = Idle]
  /\ UNCHANGED cpuVars
-----------------------------------------------------------------------------
(***************************************************************************)
(* System calls.  syscall_handler enters through task_context_enter, then  *)
(* holds the mutation lock from its DEAD check to its end; it continues in *)
(* task_wait_current with the lock released.                               *)
(***************************************************************************)

\* Mutant: the DEAD check at the head of syscall_handler is missing.
SyscallEntry_NoDeadCheck(c) ==
  /\ At(c, "run")
  /\ pml4[current[c]] # NoSpace
  /\ retiring' = task_context_enter(c)

\* The common head of a system call that is carried out.
SyscallEntry(c) ==
  /\ At(c, "run")
  /\ pml4[current[c]] # NoSpace
  /\ state[current[c]] # DEAD
  /\ retiring' = task_context_enter(c)

\* A task that was killed while it ran in user mode: exit_current_task with
\* interrupts still off.
SyscallDead(c) ==
  /\ At(c, "run")
  /\ pml4[current[c]] # NoSpace
  /\ state[current[c]] = DEAD
  /\ retiring' = task_context_enter(c)
  /\ pc' = [pc EXCEPT ![current[c]] = "fault"]
  /\ UNCHANGED <<taskVars, cpuVars, state, waitTarget>>

\* Any system call that leaves the tasks alone, a failed exec, fork or clone
\* included (the constructors release what they took before they return).
SyscallOther(c) ==
  /\ SyscallEntry(c)
  /\ state' = [state EXCEPT ![current[c]] = RUNNING]
  /\ pc' = [pc EXCEPT ![current[c]] = "block"]
  /\ UNCHANGED <<taskVars, cpuVars, waitTarget>>

\* exit: the lock is released before exit_current_task takes it again.
SyscallExit(c) ==
  /\ SyscallEntry(c)
  /\ state' = [state EXCEPT ![current[c]] = RUNNING]
  /\ pc' = [pc EXCEPT ![current[c]] = "exit"]
  /\ UNCHANGED <<taskVars, cpuVars, waitTarget>>

\* sleep(n), n > 0: sleep_current_task.
sleep_current_task(c) ==
  /\ SyscallEntry(c)
  /\ state' = [state EXCEPT ![current[c]] = SLEEPING]
  /\ pc' = [pc EXCEPT ![current[c]] = "block"]
  /\ UNCHANGED <<taskVars, cpuVars, waitTarget>>

\* Mutant: the target is not checked before the caller blocks.
wait_for_pid_NoCheck(c, target) ==
  /\ SyscallEntry(c)
  /\ state' = [state EXCEPT ![current[c]] = WAITING]
  /\ waitTarget' = [waitTarget EXCEPT ![current[c]] = target]
  /\ pc' = [pc EXCEPT ![current[c]] = "block"]
  /\ UNCHANGED <<taskVars, cpuVars>>

\* wait_pid(target): blocks unless the target is dead or unknown.
wait_for_pid(c, target) ==
  LET me == current[c]
      gone == task_is_dead([state EXCEPT ![me] = RUNNING], target)
  IN  /\ SyscallEntry(c)
      /\ state' = [state EXCEPT ![me] = IF gone THEN RUNNING ELSE WAITING]
      /\ waitTarget' = [waitTarget EXCEPT ![me] = IF gone THEN @ ELSE target]
      /\ pc' = [pc EXCEPT ![me] = "block"]
      /\ UNCHANGED <<taskVars, cpuVars>>

\* The parent's side of a constructor system call that succeeds: the caller
\* is RUNNING, the new task READY.
SpawnState(c, t) ==
  /\ state' = [state EXCEPT ![current[c]] = RUNNING, ![t] = READY]
  /\ pc' = [pc EXCEPT ![current[c]] = "block", ![t] = "run"]

\* exec: create_user_task builds a process with an address space of its own.
create_user_task(c, p) ==
  LET t == nextPid
  IN  /\ SyscallEntry(c)
      /\ task_publish(t, t, p)
      /\ SpawnState(c, t)
      /\ threadCount' = [threadCount EXCEPT ![t] = 1]

\* fork: the child owns a copy-on-write clone, whichever thread forked.
task_fork(c, p) ==
  LET t == nextPid
  IN  /\ SyscallEntry(c)
      /\ task_publish(t, t, p)
      /\ SpawnState(c, t)
      /\ threadCount' = [threadCount EXCEPT ![t] = 1]

\* clone: a thread in the caller's address space, only while the group's
\* leader is on the list and alive.
task_clone(c, p) ==
  LET t == nextPid
      leader == pml4[current[c]]
  IN  /\ SyscallEntry(c)
      /\ leader \in listed
      /\ state[leader] # DEAD
      /\ task_publish(t, leader, p)
      /\ SpawnState(c, t)
      /\ threadCount' = [threadCount EXCEPT ![leader] = @ + 1, ![t] = 0]

\* task_wait_current finds the caller runnable: back to user mode.  (The
\* field wait_target_pid keeps a value nobody reads any more; it is cleared
\* here so that it is only non-zero during a wait.)
task_wait_current(c) ==
  /\ At(c, "block")
  /\ state[current[c]] \in {RUNNING, READY}
  /\ pc' = [pc EXCEPT ![current[c]] = "run"]
  /\ waitTarget' = [waitTarget EXCEPT ![current[c]] = Idle]
  /\ UNCHANGED <<taskVars, cpuVars, state, retiring>>
-----------------------------------------------------------------------------
(***************************************************************************)
(* Death.                                                                  *)
(***************************************************************************)

\* A fatal exception in user mode (abort_user, task_abort_current_group):
\* every task of the address space dies, and whoever waited for one wakes.
task_abort_current_group(c) ==
  LET me == current[c]
      killed == [t \in Pids |-> IF t \in listed /\ pml4[t] = pml4[me]
                                THEN DEAD ELSE state[t]]
  IN  /\ At(c, "run")
      /\ pml4[me] # NoSpace
      /\ retiring' = task_context_enter(c)
      /\ state' = WakeWaitersOn(killed, {t \in Pids : task_is_dead(killed, t)})
      /\ pc' = [pc EXCEPT ![me] = "fault"]
      /\ UNCHANGED <<taskVars, cpuVars, waitTarget>>

\* The body of a kernel task returns into task_kernel_entry.
task_kernel_entry(c) ==
  /\ At(c, "run")
  /\ pml4[current[c]] = NoSpace
  /\ pc' = [pc EXCEPT ![current[c]] = "exit"]
  /\ UNCHANGED <<taskVars, cpuVars, state, waitTarget, retiring>>

\* exit_current_task: only the caller dies; its waiters wake.
exit_current_task(c) ==
  LET me == current[c]
  IN  /\ At(c, "exit") \/ At(c, "fault")
      /\ state' = WakeWaitersOn([state EXCEPT ![me] = DEAD], {me})
      /\ pc' = [pc EXCEPT ![me] = "halt"]
      /\ UNCHANGED <<taskVars, cpuVars, waitTarget, retiring>>
-----------------------------------------------------------------------------
(***************************************************************************)
(* The reaper, pid 1, a kernel task of the boot processor.                 *)
(***************************************************************************)

GroupOf(l) == {t \in listed : pml4[t] = l}

\* A dead group leader that no CPU uses takes its whole group with it.
ReapKills ==
  {t \in listed : /\ pml4[t] # NoSpace
                  /\ pml4[t] \in listed
                  /\ state[pml4[t]] = DEAD
                  /\ ~ task_active(retiring, pml4[t])}

\* Mutant: the leader does not wait for the other members of its group.
Reapable_LeaderFirst ==
  {t \in listed : /\ state[t] = DEAD \/ t \in ReapKills
                  /\ ~ task_active(retiring, t)}

\* The tasks one pass frees.  The list is in pid order and a thread is
\* younger than its leader, so the pass meets the leader first: members
\* killed by it go in the same pass, the leader itself only when it was
\* alone from the start.
Reapable ==
  {t \in listed : /\ state[t] = DEAD \/ t \in ReapKills
                  /\ ~ task_active(retiring, t)
                  /\ pml4[t] = t => GroupOf(t) = {t}}

\* Mutant: the thread count of the leader is not brought down.
ReapCount_Kept == threadCount

\* leader->thread_count after the threads in Reapable are gone.
ReapCount ==
  [l \in Pids |->
     LET n == Cardinality({t \in Reapable : is_thread(t) /\ pml4[t] = l})
     IN  IF n <= threadCount[l] THEN threadCount[l] - n ELSE 0]

\* kfree: the fields of a freed task are void; they get the value that
\* task_alloc's memset gives the next task of that pid.
Freed(f, void) == [t \in Pids |-> IF t \in Reapable THEN void ELSE f[t]]

\* task_reap_dead: one pass over the list under the lock.  Waiters on a
\* freed pid wake, except those the pass has killed.
task_reap_dead(c) ==
  LET killed == [t \in Pids |-> IF t \in ReapKills THEN DEAD ELSE state[t]]
  IN  /\ current[c] = Reaper
      /\ At(c, "reap")
      /\ listed' = listed \ Reapable
      /\ state' = Freed(WakeWaitersOn(killed, Reapable), DEAD)
      /\ threadCount' = Freed(ReapCount, 1)
      /\ cpu' = Freed(cpu, Bsp)
      /\ pml4' = Freed(pml4, NoSpace)
      /\ waitTarget' = Freed(waitTarget, Idle)
      /\ pc' = [Freed(pc, "run") EXCEPT ![Reaper] = "park"]
      /\ UNCHANGED <<nextPid, cpuVars, retiring>>

\* The second guarded section of task_reaper_main.  The hlt after it ends
\* with any interrupt, so the next pass may follow at once.
ReaperPark(c) ==
  /\ current[c] = Reaper
  /\ At(c, "park")
  /\ state' = [state EXCEPT ![Reaper] = WAITING]
  /\ pc' = [pc EXCEPT ![Reaper] = "reap"]
  /\ UNCHANGED <<taskVars, cpuVars, waitTarget, retiring>>
-----------------------------------------------------------------------------
(***************************************************************************)
(* Interrupts and the context switch.                                      *)
(***************************************************************************)

\* Mutant: no tick wakes the reaper.
ScheduleWakes_NoReaper(ret, due) ==
  [t \in Pids |-> IF t \in due THEN READY ELSE state[t]]

\* The head of schedule(): the sleepers in "due" wake, and the reaper is
\* made READY when some dead task is no longer used by any CPU.
ScheduleWakes(ret, due) ==
  LET work == \E t \in listed : state[t] = DEAD /\ ~ task_active(ret, t)
  IN  [t \in Pids |->
         IF t \in due \/ (t = Reaper /\ state[t] = WAITING /\ work)
         THEN READY ELSE state[t]]

Sleepers == {t \in listed : state[t] = SLEEPING}

\* A timer interrupt can be taken: the CPU is back on the stack of its
\* current task, which has not turned interrupts off.
TimerCanFire(c) ==
  /\ onStack[c] = current[c]
  /\ current[c] # Idle => pc[current[c]] # "fault"

\* schedule() finds quantum left and returns to the running task.
ScheduleKeep(c, due) ==
  LET ret == task_context_enter(c)
  IN  /\ TimerCanFire(c)
      /\ current[c] # Idle
      /\ retiring' = ret
      /\ state' = ScheduleWakes(ret, due)
      /\ state'[current[c]] = RUNNING
      /\ UNCHANGED <<taskVars, cpuVars, waitTarget, pc>>

\* The outgoing task of a switch: RUNNING becomes READY, DEAD stays.
Outgoing(st, p) ==
  IF p # Idle /\ st[p] = RUNNING THEN [st EXCEPT ![p] = READY] ELSE st

\* The tasks the scan may choose: this CPU's, READY, not idle.
Eligible(c, st) == {t \in listed : cpu[t] = c /\ st[t] = READY}

\* The outgoing task is kept from the reaper until the IRET is seen.
RetireOutgoing(ret, c, next) ==
  IF next # current[c] /\ current[c] # Idle
  THEN [ret EXCEPT ![c] = current[c]] ELSE ret

\* schedule() goes on to "next" (the idle task when nothing is eligible).
\* The CPU stays on the old stack until Iret.
ScheduleSwitch(c, due, next) ==
  LET ret == task_context_enter(c)
      st == Outgoing(ScheduleWakes(ret, due), current[c])
      choice == Eligible(c, st)
  IN  /\ TimerCanFire(c)
      /\ IF choice = {} THEN next = Idle ELSE next \in choice
      /\ state' = IF next = Idle THEN st ELSE [st EXCEPT ![next] = RUNNING]
      /\ current' = [current EXCEPT ![c] = next]
      /\ retiring' = RetireOutgoing(ret, c, next)
      /\ UNCHANGED <<taskVars, waitTarget, pc, onStack>>

\* The IRET that ends the interrupt: the CPU is on the new task's stack.
Iret(c) ==
  /\ onStack[c] # current[c]
  /\ onStack' = [onStack EXCEPT ![c] = current[c]]
  /\ UNCHANGED <<taskVars, state, waitTarget, pc, current, retiring>>

\* Any other entry: an IPI, a device interrupt, a recovered fault, a timer
\* tick that finds the mutation lock taken, or an exception nested in the
\* handler that has just switched.
Interrupt(c) ==
  /\ retiring' = task_context_enter(c)
  /\ UNCHANGED <<taskVars, cpuVars, state, waitTarget, pc>>
-----------------------------------------------------------------------------
(***************************************************************************)
(* Kernel callers.                                                         *)
(***************************************************************************)

\* create_task_on_cpu, called by the boot context for a service task.
create_task_on_cpu(p) ==
  LET t == nextPid
  IN  /\ current[Bsp] = Idle /\ onStack[Bsp] = Idle
      /\ Cardinality({u \in listed : pml4[u] = NoSpace}) < MaxKernel
      /\ task_publish(t, NoSpace, p)
      /\ state' = [state EXCEPT ![t] = READY]
      /\ pc' = [pc EXCEPT ![t] = "run"]
      /\ threadCount' = [threadCount EXCEPT ![t] = 1]
      /\ UNCHANGED retiring

\* Mutant: a task that some CPU still uses may be moved.
task_set_cpu_Active(t, p) ==
  /\ t \in listed /\ t # Reaper
  /\ state[t] # DEAD
  /\ cpu' = [cpu EXCEPT ![t] = p]
  /\ UNCHANGED <<nextPid, listed, pml4, threadCount, cpuVars, state,
                 waitTarget, pc, retiring>>

\* Mutant: the bound of the CPU index is one too large.
task_set_cpu_OffByOne(t, p) ==
  /\ t \in listed /\ t # Reaper
  /\ ~ task_active(retiring, t)
  /\ state[t] # DEAD
  /\ cpu' = [cpu EXCEPT ![t] = p + 1]
  /\ UNCHANGED <<nextPid, listed, pml4, threadCount, cpuVars, state,
                 waitTarget, pc, retiring>>

\* task_set_cpu: a live task that no CPU uses moves to another CPU.
task_set_cpu(t, p) ==
  /\ t \in listed /\ t # Reaper
  /\ ~ task_active(retiring, t)
  /\ state[t] # DEAD
  /\ cpu' = [cpu EXCEPT ![t] = p]
  /\ UNCHANGED <<nextPid, listed, pml4, threadCount, cpuVars, state,
                 waitTarget, pc, retiring>>
-----------------------------------------------------------------------------
Syscall(c) ==
  \/ SyscallDead(c) \/ SyscallOther(c) \/ SyscallExit(c)
  \/ sleep_current_task(c)
  \/ \E target \in Targets : wait_for_pid(c, target)
  \/ \E p \in Cpus : \/ create_user_task(c, p)
                     \/ task_fork(c, p)
                     \/ task_clone(c, p)

Tick(c) ==
  \E due \in SUBSET Sleepers :
    \/ ScheduleKeep(c, due)
    \/ \E next \in Pids \cup {Idle} : ScheduleSwitch(c, due, next)

CpuStep(c) ==
  \/ Syscall(c) \/ task_wait_current(c)
  \/ task_abort_current_group(c) \/ task_kernel_entry(c) \/ exit_current_task(c)
  \/ task_reap_dead(c) \/ ReaperPark(c)
  \/ Tick(c) \/ Iret(c) \/ Interrupt(c)

Next ==
  \/ \E c \in Cpus : CpuStep(c)
  \/ \E p \in Cpus : create_task_on_cpu(p)
  \/ \E t \in Pids, p \in Cpus : task_set_cpu(t, p)

Spec == Init /\ [][Next]_vars

(***************************************************************************)
(* Fairness.  An interrupt handler returns and an exit that has begun gets *)
(* to its end: WF.  Ticks keep coming and find the mutation lock free      *)
(* again and again, so a task that may not go on is switched away: WF.     *)
(* The reaper, eligible again and again, is picked eventually (module      *)
(* Scheduler derives that from aging), and its guarded sections are finite *)
(* code that advances in every quantum it gets: SF.  Programs owe nothing: *)
(* no system call is fair.                                                 *)
(***************************************************************************)
SwitchTo(c, nexts) ==
  \E due \in SUBSET Sleepers, next \in nexts : ScheduleSwitch(c, due, next)

Fairness ==
  /\ \A c \in Cpus : /\ WF_vars(Iret(c))
                     /\ WF_vars(exit_current_task(c))
                     /\ WF_vars(SwitchTo(c, Pids \cup {Idle}))
  /\ SF_vars(SwitchTo(Bsp, {Reaper}))
  /\ SF_vars(task_reap_dead(Bsp))
  /\ SF_vars(ReaperPark(Bsp))

LiveSpec == Spec /\ Fairness
-----------------------------------------------------------------------------
(***************************************************************************)
(* Properties.                                                             *)
(***************************************************************************)

\* The reaper never frees a task whose kernel stack a CPU runs on, is about
\* to enter or has not left (task_active, task.c:124; the retiring slot).
KernelStackPinned ==
  \A c \in Cpus : {current[c], onStack[c], retiring[c]} \subseteq listed \cup {Idle}

\* An address space outlives every task that uses it: the leader, with whom
\* it is destroyed, stays on the list while any member of its group does
\* (task_reap_dead, task.c:302).
AddressSpacePinned ==
  \A t \in listed : pml4[t] # NoSpace => pml4[t] \in listed

\* No kernel stack is used by two CPUs: a task is current on at most one CPU
\* and is not picked elsewhere before the first CPU has left its stack
\* (cpu_id pinning, task_set_cpu's use of task_active).
StackExclusive ==
  \A c, d \in Cpus :
    c # d => {current[c], onStack[c]} \cap {current[d], onStack[d]} \subseteq {Idle}

\* No wakeup is lost between wait_for_pid and the target's death: the target
\* of a blocked wait is still on the list, and is dead only when the reaper
\* has killed it as a member of a dead leader's group (then freeing it wakes
\* the waiter).
NoLostWakeup ==
  \A t \in listed :
    state[t] = WAITING /\ waitTarget[t] # Idle =>
      LET w == waitTarget[t]
      IN  /\ w \in listed
          /\ state[w] = DEAD => is_thread(w) /\ state[pml4[w]] = DEAD

\* wait_pid's result 1 is true ("saat return, target sudah mati",
\* syscall.c:375): a wait that may return has a dead or freed target.
WaitReturnsAfterDeath ==
  \A t \in listed :
    pc[t] = "block" /\ state[t] \in {READY, RUNNING} /\ waitTarget[t] # Idle
      => task_is_dead(state, waitTarget[t])

\* thread_count of a process is the number of its tasks on the list, through
\* every order of clone, thread death and reaping.
ThreadCountExact ==
  \A l \in listed : pml4[l] = l => threadCount[l] = Cardinality(GroupOf(l))

\* No step revives a dead task: not a wakeup, not a tick, not the system
\* call a killed task makes next (task_mark_running, schedule).
DeadStaysDead ==
  [][\A t \in listed \cap listed' : state[t] = DEAD => state'[t] = DEAD]_vars

\* What documentation/address-space-lifetime.md:22 says of leader exit: the
\* tasks that use the address space die with the leader.
LeaderExitKillsGroup ==
  \A t \in listed :
    pml4[t] \in listed /\ state[pml4[t]] = DEAD => state[t] = DEAD

\* Every dead task is reclaimed: its CPU leaves it, a tick wakes the reaper
\* and a pass frees it, however death, ticks and passes interleave
\* (task_reaper_main's "A later PIT tick wakes this worker").
Reclaimed ==
  \A t \in Pids : (t \in listed /\ state[t] = DEAD) ~> (t \notin listed)

\* A wait on a task that is dead ends, also when nobody woke the waiter at
\* the moment of death (a thread the reaper killed with its leader).
WaiterWakes ==
  \A t \in Pids :
    (t \in listed /\ state[t] = WAITING /\ task_is_dead(state, waitTarget[t]))
      ~> (state[t] # WAITING)
=============================================================================
