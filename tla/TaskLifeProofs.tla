--------------------------- MODULE TaskLifeProofs ---------------------------
(***************************************************************************)
(* Theorems about TaskLife for any set of CPUs and any number of pids.     *)
(***************************************************************************)
EXTENDS TaskLife, FiniteSetTheorems, TLAPS

-----------------------------------------------------------------------------
(***************************************************************************)
(* The inductive invariant.                                                *)
(***************************************************************************)

\* Pids on the list have been handed out.
ListInv == /\ nextPid >= 3
           /\ \A t \in listed : t < nextPid

\* The reaper is a kernel task that never dies.
ReaperInv == /\ Reaper \in listed
             /\ pml4[Reaper] = NoSpace
             /\ state[Reaper] # DEAD
             /\ pc[Reaper] \in {"reap", "park"}

\* A CPU runs, and leaves, only tasks that are pinned to it.
CpuInv ==
  \A c \in Cpus :
    /\ current[c] # Idle => current[c] \in listed /\ cpu[current[c]] = c
    /\ retiring[c] # Idle => retiring[c] \in listed /\ cpu[retiring[c]] = c
    /\ onStack[c] \in {Idle, current[c], retiring[c]}

\* The owner of an address space is on the list and is its own leader.
SpaceInv ==
  \A t \in listed :
    pml4[t] # NoSpace => /\ pml4[t] \in listed
                         /\ pml4[pml4[t]] = pml4[t]

\* Only a blocked task has a wait target, and not while it sleeps.
WaitInv ==
  \A t \in listed :
    waitTarget[t] # Idle => /\ pc[t] = "block"
                            /\ state[t] # SLEEPING
                            /\ waitTarget[t] < nextPid

IInv == /\ TypeOK
        /\ ListInv /\ ReaperInv /\ CpuInv /\ SpaceInv /\ WaitInv
        /\ NoLostWakeup /\ WaitReturnsAfterDeath
-----------------------------------------------------------------------------
\* The number of threads one pass frees is a number.
LEMMA ReapedThreadsCounted ==
  ASSUME TypeOK, NEW l \in Pids
  PROVE  Cardinality({t \in Reapable : is_thread(t) /\ pml4[t] = l}) \in Nat
<1>1. IsFiniteSet(Pids)
  BY FS_Interval, MaxPidAssumption DEF Pids
<1>2. {t \in Reapable : is_thread(t) /\ pml4[t] = l} \subseteq Pids
  BY DEF Reapable, TypeOK
<1>3. QED
  BY <1>1, <1>2, FS_Subset, FS_CardinalityType

\* The helpers keep their types.
LEMMA HelperTypes ==
  ASSUME TypeOK
  PROVE  /\ \A c \in Cpus : task_context_enter(c) \in [Cpus -> Pids \cup {Idle}]
         /\ \A st \in [Pids -> States], gone \in SUBSET Pids :
              WakeWaitersOn(st, gone) \in [Pids -> States]
         /\ \A ret \in [Cpus -> Pids \cup {Idle}], due \in SUBSET Sleepers :
              ScheduleWakes(ret, due) \in [Pids -> States]
         /\ ReapCount \in [Pids -> Nat]
<1>1. \A c \in Cpus : task_context_enter(c) \in [Cpus -> Pids \cup {Idle}]
  BY DEF TypeOK, task_context_enter
<1>2. \A st \in [Pids -> States], gone \in SUBSET Pids :
        WakeWaitersOn(st, gone) \in [Pids -> States]
  BY DEF WakeWaitersOn, States
<1>3. \A ret \in [Cpus -> Pids \cup {Idle}], due \in SUBSET Sleepers :
        ScheduleWakes(ret, due) \in [Pids -> States]
  BY DEF ScheduleWakes, States, TypeOK
<1>4. ReapCount \in [Pids -> Nat]
  BY ReapedThreadsCounted DEF ReapCount, TypeOK
<1>5. QED
  BY <1>1, <1>2, <1>3, <1>4

LEMMA InitInv == Init => IInv
<1> SUFFICES ASSUME Init PROVE IInv
  OBVIOUS
<1>1. TypeOK
  BY BspAssumption, MaxPidAssumption
  DEF Init, TypeOK, Pids, Idle, Reaper, Shell, NoSpace, States, Places,
      RUNNING, READY, SLEEPING, WAITING, DEAD
<1>2. ListInv /\ ReaperInv /\ CpuInv
  BY MaxPidAssumption
  DEF Init, ListInv, ReaperInv, CpuInv, Pids, Idle, Reaper, Shell, NoSpace,
      WAITING, DEAD
<1>3. SpaceInv /\ WaitInv /\ NoLostWakeup /\ WaitReturnsAfterDeath
  BY MaxPidAssumption
  DEF Init, SpaceInv, WaitInv, NoLostWakeup, WaitReturnsAfterDeath, Pids,
      Idle, Reaper, Shell, NoSpace
<1>4. QED
  BY <1>1, <1>2, <1>3 DEF IInv
\* The pid that task_publish hands out.
LEMMA FreshPid ==
  ASSUME TypeOK, nextPid <= MaxPid
  PROVE  nextPid \in Pids /\ nextPid + 1 \in 1 .. (MaxPid + 1)
  BY MaxPidAssumption DEF TypeOK, Pids

\* TypeOK is inductive on its own.
LEMMA TypeStep == TypeOK /\ [Next]_vars => TypeOK'
<1> SUFFICES ASSUME TypeOK, [Next]_vars PROVE TypeOK'
  OBVIOUS
<1> USE DEF TypeOK, taskVars, cpuVars, At
<1>1. ASSUME NEW c \in Cpus, SyscallDead(c)
      PROVE  TypeOK'
  BY <1>1, HelperTypes
  DEF SyscallDead, Places
<1>2. ASSUME NEW c \in Cpus, SyscallOther(c)
      PROVE  TypeOK'
  BY <1>2, HelperTypes
  DEF SyscallOther, SyscallEntry, Places, States, RUNNING
<1>3. ASSUME NEW c \in Cpus, SyscallExit(c)
      PROVE  TypeOK'
  BY <1>3, HelperTypes
  DEF SyscallExit, SyscallEntry, Places, States, RUNNING
<1>4. ASSUME NEW c \in Cpus, sleep_current_task(c)
      PROVE  TypeOK'
  BY <1>4, HelperTypes
  DEF sleep_current_task, SyscallEntry, Places, States, SLEEPING
<1>5. ASSUME NEW c \in Cpus, NEW target \in Targets, wait_for_pid(c, target)
      PROVE  TypeOK'
  <2>1. target \in Pids \cup {Idle}
    BY TargetsAssumption, MaxPidAssumption DEF Pids, Idle
  <2>2. QED
    BY <1>5, <2>1, HelperTypes
    DEF wait_for_pid, SyscallEntry, Places, States, RUNNING, WAITING
<1>6. ASSUME NEW c \in Cpus, NEW p \in Cpus, create_user_task(c, p)
      PROVE  TypeOK'
  BY <1>6, FreshPid, HelperTypes
  DEF create_user_task, task_publish, SpawnState, SyscallEntry, Places,
      States, RUNNING, READY
<1>7. ASSUME NEW c \in Cpus, NEW p \in Cpus, task_fork(c, p)
      PROVE  TypeOK'
  BY <1>7, FreshPid, HelperTypes
  DEF task_fork, task_publish, SpawnState, SyscallEntry, Places,
      States, RUNNING, READY
<1>8. ASSUME NEW c \in Cpus, NEW p \in Cpus, task_clone(c, p)
      PROVE  TypeOK'
  <2>1. nextPid \in Pids /\ nextPid + 1 \in 1 .. (MaxPid + 1)
    BY <1>8, FreshPid DEF task_clone, task_publish
  <2>2. pml4[current[c]] \in Pids
    BY <1>8 DEF task_clone, SyscallEntry
  <2>3. threadCount' \in [Pids -> Nat]
    BY <1>8, <2>1, <2>2 DEF task_clone
  <2>4. QED
    BY <1>8, <2>1, <2>2, <2>3, HelperTypes
    DEF task_clone, task_publish, SpawnState, SyscallEntry, Places, States,
        RUNNING, READY
<1>9. ASSUME NEW c \in Cpus, task_wait_current(c)
      PROVE  TypeOK'
  BY <1>9, HelperTypes
  DEF task_wait_current, Places
<1>10. ASSUME NEW c \in Cpus, task_abort_current_group(c)
      PROVE  TypeOK'
  BY <1>10, HelperTypes
  DEF task_abort_current_group, Places, States, DEAD
<1>11. ASSUME NEW c \in Cpus, task_kernel_entry(c)
      PROVE  TypeOK'
  BY <1>11, HelperTypes
  DEF task_kernel_entry, Places
<1>12. ASSUME NEW c \in Cpus, exit_current_task(c)
      PROVE  TypeOK'
  <2>1. current[c] \in Pids
    BY <1>12 DEF exit_current_task
  <2>2. [state EXCEPT ![current[c]] = DEAD] \in [Pids -> States]
    BY DEF States, DEAD
  <2>3. state' \in [Pids -> States]
    <3>1. state' = WakeWaitersOn([state EXCEPT ![current[c]] = DEAD], {current[c]})
      BY <1>12 DEF exit_current_task
    <3>2. {current[c]} \in SUBSET Pids
      BY <2>1
    <3>3. QED
      BY <2>2, <3>1, <3>2, HelperTypes
  <2>4. pc' \in [Pids -> Places]
    BY <1>12 DEF exit_current_task, Places
  <2>5. QED
    BY <1>12, <2>3, <2>4 DEF exit_current_task
<1>13. ASSUME NEW c \in Cpus, task_reap_dead(c)
      PROVE  TypeOK'
  <2>1. /\ NoSpace \in Pids \cup {NoSpace} /\ Idle \in Pids \cup {Idle}
        /\ Reaper \in Pids /\ 1 \in Nat /\ DEAD \in States
        /\ "run" \in Places /\ "park" \in Places
    BY MaxPidAssumption DEF Pids, Reaper, States, Places
  <2>2. \A f, S, void : f \in [Pids -> S] /\ void \in S => Freed(f, void) \in [Pids -> S]
    BY DEF Freed
  <2>3. state' \in [Pids -> States]
    <3>1. [t \in Pids |-> IF t \in ReapKills THEN DEAD ELSE state[t]] \in [Pids -> States]
      BY <2>1
    <3>2. Reapable \subseteq Pids
      BY DEF Reapable
    <3>3. QED
      BY <1>13, <2>1, <2>2, <3>1, <3>2, HelperTypes DEF task_reap_dead
  <2>4. /\ threadCount' \in [Pids -> Nat]
        /\ cpu' \in [Pids -> Cpus]
        /\ pml4' \in [Pids -> Pids \cup {NoSpace}]
        /\ waitTarget' \in [Pids -> Pids \cup {Idle}]
    BY <1>13, <2>1, <2>2, HelperTypes, BspAssumption DEF task_reap_dead
  <2>5. pc' \in [Pids -> Places]
    <3>1. Freed(pc, "run") \in [Pids -> Places]
      BY <2>1, <2>2
    <3>2. QED
      BY <1>13, <2>1, <3>1 DEF task_reap_dead
  <2>6. QED
    BY <1>13, <2>3, <2>4, <2>5 DEF task_reap_dead
<1>14. ASSUME NEW c \in Cpus, ReaperPark(c)
      PROVE  TypeOK'
  BY <1>14, HelperTypes
  DEF ReaperPark, Places, States, WAITING
<1>15. ASSUME NEW c \in Cpus, NEW due \in SUBSET Sleepers, ScheduleKeep(c, due)
      PROVE  TypeOK'
  BY <1>15, HelperTypes
  DEF ScheduleKeep
<1>16. ASSUME NEW c \in Cpus, NEW due \in SUBSET Sleepers,
             NEW next \in Pids \cup {Idle}, ScheduleSwitch(c, due, next)
      PROVE  TypeOK'
  BY <1>16, HelperTypes
  DEF ScheduleSwitch, Outgoing, RetireOutgoing, States, READY, RUNNING
<1>17. ASSUME NEW c \in Cpus, Iret(c)
      PROVE  TypeOK'
  BY <1>17, HelperTypes
  DEF Iret
<1>18. ASSUME NEW c \in Cpus, Interrupt(c)
      PROVE  TypeOK'
  BY <1>18, HelperTypes
  DEF Interrupt
<1>19. ASSUME NEW p \in Cpus, create_task_on_cpu(p) PROVE TypeOK'
  BY <1>19, FreshPid
  DEF create_task_on_cpu, task_publish, Places, States, READY
<1>20. ASSUME NEW t \in Pids, NEW p \in Cpus, task_set_cpu(t, p) PROVE TypeOK'
  BY <1>20 DEF task_set_cpu
<1>21. CASE UNCHANGED vars
  BY <1>21 DEF vars
<1>22. QED
  BY <1>1, <1>2, <1>3, <1>4, <1>5, <1>6, <1>7, <1>8, <1>9, <1>10, <1>11, <1>12,
     <1>13, <1>14, <1>15, <1>16, <1>17, <1>18, <1>19, <1>20, <1>21
  DEF Next, CpuStep, Syscall, Tick
-----------------------------------------------------------------------------
(***************************************************************************)
(* Steps that publish a task.                                              *)
(***************************************************************************)

\* A fresh task that joins no group, or a live group's, preserves the
\* invariant when nobody else changes but the caller, who is not waiting.
LEMMA PublishInv ==
  ASSUME IInv, TypeOK', NEW space, NEW p \in Cpus,
         task_publish(nextPid, space, p),
         space \in {NoSpace, nextPid} \/ (space \in listed /\ pml4[space] = space),
         state'[nextPid] = READY, pc'[nextPid] = "run",
         \A u \in listed :
           \/ state'[u] = state[u] /\ pc'[u] = pc[u]
           \/ /\ u # Reaper /\ waitTarget[u] = Idle
              /\ state[u] # DEAD /\ state'[u] = RUNNING,
         \A c \in Cpus : /\ retiring'[c] \in {Idle, retiring[c]}
                         /\ onStack[c] \in {Idle, current[c], retiring'[c]}
  PROVE  IInv'
<1> USE DEF Idle, Reaper, NoSpace, RUNNING, READY, SLEEPING, WAITING, DEAD
<1>1. /\ nextPid \in Pids /\ nextPid \notin listed /\ nextPid >= 3
      /\ nextPid' = nextPid + 1 /\ listed' = listed \cup {nextPid}
      /\ listed \subseteq Pids
  BY FreshPid DEF IInv, TypeOK, ListInv, task_publish
<1>2. \A u \in listed : /\ u # nextPid /\ u \in Pids
                        /\ cpu'[u] = cpu[u] /\ pml4'[u] = pml4[u]
                        /\ waitTarget'[u] = waitTarget[u]
  BY <1>1 DEF IInv, TypeOK, task_publish
<1>3. /\ cpu'[nextPid] = p /\ pml4'[nextPid] = space
      /\ waitTarget'[nextPid] = Idle
  BY <1>1 DEF IInv, TypeOK, task_publish
<1>4. ListInv'
  BY <1>1 DEF IInv, ListInv, TypeOK, Pids
<1>5. ReaperInv'
  BY <1>1, <1>2 DEF IInv, ReaperInv
<1>6. CpuInv'
  BY <1>1, <1>2 DEF IInv, CpuInv, task_publish, cpuVars, TypeOK
<1>7. SpaceInv'
  BY <1>1, <1>2, <1>3 DEF IInv, SpaceInv, Pids, TypeOK
<1>8. WaitInv'
  <2> SUFFICES ASSUME NEW t \in listed', waitTarget'[t] # Idle
               PROVE  /\ pc'[t] = "block" /\ state'[t] # SLEEPING
                      /\ waitTarget'[t] < nextPid'
    BY DEF WaitInv
  <2>1. t \in listed /\ waitTarget[t] # Idle
    BY <1>1, <1>2, <1>3
  <2>2. state'[t] = state[t] /\ pc'[t] = pc[t]
    BY <2>1
  <2>3. waitTarget[t] \in Nat /\ nextPid \in Nat
    BY <2>1, <1>1, MaxPidAssumption DEF IInv, TypeOK, Pids
  <2>4. QED
    BY <1>1, <1>2, <2>1, <2>2, <2>3 DEF IInv, WaitInv
<1>9. NoLostWakeup'
  <2> SUFFICES ASSUME NEW t \in listed', state'[t] = WAITING, waitTarget'[t] # Idle
               PROVE  LET w == waitTarget'[t]
                      IN  /\ w \in listed'
                          /\ state'[w] = DEAD => /\ pml4'[w] \notin {NoSpace, w}
                                                /\ state'[pml4'[w]] = DEAD
    BY DEF NoLostWakeup, is_thread
  <2>1. t \in listed /\ state[t] = WAITING /\ waitTarget[t] # Idle
    BY <1>1, <1>2, <1>3
  <2>2. PICK w : w = waitTarget[t]
    OBVIOUS
  <2>3. w \in listed /\ (state[w] = DEAD => is_thread(w) /\ state[pml4[w]] = DEAD)
    BY <2>1, <2>2 DEF IInv, NoLostWakeup
  <2>4. state'[w] = DEAD => state[w] = DEAD
    BY <2>3
  <2>5. state[w] = DEAD => pml4[w] \in listed /\ state'[pml4[w]] = DEAD
    BY <2>3 DEF IInv, SpaceInv, is_thread
  <2>6. QED
    BY <1>1, <1>2, <2>1, <2>2, <2>3, <2>4, <2>5 DEF is_thread
<1>10. WaitReturnsAfterDeath'
  <2> SUFFICES ASSUME NEW t \in listed', pc'[t] = "block",
                      state'[t] \in {READY, RUNNING}, waitTarget'[t] # Idle
               PROVE  waitTarget'[t] \in listed' => state'[waitTarget'[t]] = DEAD
    BY DEF WaitReturnsAfterDeath, task_is_dead
  <2>1. t \in listed /\ waitTarget'[t] = waitTarget[t]
    BY <1>1, <1>2, <1>3
  <2>2. state'[t] = state[t] /\ pc'[t] = pc[t]
    BY <2>1
  <2>3. task_is_dead(state, waitTarget[t])
    BY <2>1, <2>2 DEF IInv, WaitReturnsAfterDeath
  <2>4. waitTarget[t] # nextPid
    BY <2>1, <1>1, MaxPidAssumption DEF IInv, WaitInv, TypeOK, Pids
  <2>5. QED
    BY <1>1, <2>1, <2>3, <2>4 DEF task_is_dead
<1>11. QED
  BY <1>4, <1>5, <1>6, <1>7, <1>8, <1>9, <1>10 DEF IInv
-----------------------------------------------------------------------------
(***************************************************************************)
(* The reaper's pass.                                                      *)
(***************************************************************************)

LEMMA ReapInv ==
  ASSUME IInv, TypeOK', NEW c \in Cpus, task_reap_dead(c)
  PROVE  IInv'
<1> USE DEF Idle, Reaper, NoSpace, RUNNING, READY, SLEEPING, WAITING, DEAD
<1>1. /\ listed' = listed \ Reapable /\ listed \subseteq Pids
      /\ nextPid' = nextPid /\ UNCHANGED <<current, onStack, retiring>>
  BY DEF IInv, TypeOK, task_reap_dead, cpuVars
<1>2. Reaper \notin Reapable /\ Reaper \in Pids
  BY MaxPidAssumption DEF IInv, ReaperInv, Reapable, ReapKills, Pids
<1>3. \A t \in listed' : /\ t \in listed /\ t \in Pids /\ cpu'[t] = cpu[t]
                         /\ pml4'[t] = pml4[t] /\ waitTarget'[t] = waitTarget[t]
                         /\ t # Reaper => pc'[t] = pc[t]
  BY <1>1 DEF task_reap_dead, Freed, IInv, TypeOK
<1>4. \A t \in listed' :
        state'[t] = IF t \in ReapKills THEN DEAD
                    ELSE IF state[t] = WAITING /\ waitTarget[t] \in Reapable
                         THEN READY ELSE state[t]
  BY <1>1 DEF task_reap_dead, Freed, WakeWaitersOn, IInv, TypeOK
<1>5. pc'[Reaper] = "park"
  BY <1>2 DEF task_reap_dead, Freed, IInv, TypeOK
<1>6. \A d \in Cpus : current[d] \notin Reapable /\ retiring[d] \notin Reapable
  BY DEF Reapable, task_active
<1>7. \A t \in listed' : pml4[t] # NoSpace => pml4[t] \notin Reapable
  <2> SUFFICES ASSUME NEW t \in listed', pml4[t] # NoSpace, pml4[t] \in Reapable
               PROVE  FALSE
    OBVIOUS
  <2>1. pml4[pml4[t]] = pml4[t]
    BY <1>3 DEF IInv, SpaceInv
  <2>2. GroupOf(pml4[t]) = {pml4[t]}
    BY <2>1 DEF Reapable
  <2>3. t \in GroupOf(pml4[t])
    BY <1>3 DEF GroupOf
  <2>4. QED
    BY <1>1, <2>2, <2>3
<1>8. ListInv'
  BY <1>1 DEF IInv, ListInv
<1>9. ReaperInv'
  BY <1>1, <1>2, <1>3, <1>4, <1>5 DEF IInv, ReaperInv, ReapKills
<1>10. CpuInv'
  BY <1>1, <1>3, <1>6 DEF IInv, CpuInv
<1>11. SpaceInv'
  BY <1>1, <1>3, <1>7 DEF IInv, SpaceInv
<1>12. WaitInv'
  BY <1>1, <1>2, <1>3, <1>4 DEF IInv, WaitInv, ReaperInv
<1>13. NoLostWakeup'
  <2> SUFFICES ASSUME NEW t \in listed', state'[t] = WAITING, waitTarget'[t] # Idle
               PROVE  LET w == waitTarget'[t]
                      IN  /\ w \in listed'
                          /\ state'[w] = DEAD => /\ pml4'[w] \notin {NoSpace, w}
                                                /\ state'[pml4'[w]] = DEAD
    BY DEF NoLostWakeup, is_thread
  <2>1. t \in listed /\ state[t] = WAITING /\ waitTarget[t] \notin Reapable
    BY <1>3, <1>4
  <2>2. PICK w : w = waitTarget[t]
    OBVIOUS
  <2>3. w \in listed /\ (state[w] = DEAD => is_thread(w) /\ state[pml4[w]] = DEAD)
    BY <1>3, <2>1, <2>2 DEF IInv, NoLostWakeup
  <2>4. w \in listed'
    BY <1>1, <2>1, <2>2, <2>3
  <2>5. ASSUME state'[w] = DEAD
        PROVE  pml4[w] \notin {NoSpace, w} /\ state[pml4[w]] = DEAD
    <3>1. state[w] = DEAD \/ w \in ReapKills
      BY <1>4, <2>4, <2>5
    <3>2. CASE state[w] = DEAD
      BY <2>3, <3>2 DEF is_thread
    <3>3. CASE w \in ReapKills /\ state[w] # DEAD
      BY <3>3 DEF ReapKills
    <3>4. QED
      BY <3>1, <3>2, <3>3
  <2>6. ASSUME state'[w] = DEAD
        PROVE  state'[pml4[w]] = DEAD
    <3>1. pml4[w] \in listed'
      BY <1>1, <1>3, <1>7, <2>4, <2>5, <2>6 DEF IInv, SpaceInv
    <3>2. QED
      BY <1>4, <2>5, <2>6, <3>1
  <2>7. QED
    BY <1>3, <2>2, <2>4, <2>5, <2>6
<1>14. WaitReturnsAfterDeath'
  <2> SUFFICES ASSUME NEW t \in listed', pc'[t] = "block",
                      state'[t] \in {READY, RUNNING}, waitTarget'[t] # Idle
               PROVE  waitTarget'[t] \in listed' => state'[waitTarget'[t]] = DEAD
    BY DEF WaitReturnsAfterDeath, task_is_dead
  <2>1. t # Reaper /\ pc[t] = "block" /\ waitTarget[t] = waitTarget'[t]
    BY <1>3, <1>5
  <2>2. CASE waitTarget[t] \in Reapable
    BY <1>1, <2>1, <2>2
  <2>3. CASE waitTarget[t] \notin Reapable
    <3>1. state[t] \in {READY, RUNNING}
      BY <1>4, <2>3
    <3>2. task_is_dead(state, waitTarget[t])
      BY <1>3, <2>1, <3>1 DEF IInv, WaitReturnsAfterDeath
    <3>3. QED
      BY <1>3, <1>4, <2>1, <3>2 DEF task_is_dead
  <2>4. QED
    BY <2>2, <2>3
<1>15. QED
  BY <1>8, <1>9, <1>10, <1>11, <1>12, <1>13, <1>14 DEF IInv
-----------------------------------------------------------------------------
(***************************************************************************)
(* The context switch.                                                     *)
(***************************************************************************)

\* What a tick may do to the state of a task on the list.
LEMMA SwitchStates ==
  ASSUME IInv, NEW c \in Cpus, NEW due \in SUBSET Sleepers,
         NEW next \in Pids \cup {Idle}, ScheduleSwitch(c, due, next)
  PROVE  \A t \in listed :
           /\ state'[t] = DEAD <=> state[t] = DEAD
           /\ state'[t] = WAITING => state[t] = WAITING
           /\ state'[t] # SLEEPING \/ state[t] = SLEEPING
           /\ state'[t] \in {READY, RUNNING} =>
                \/ state[t] \in {READY, RUNNING, SLEEPING}
                \/ t = Reaper
<1> USE DEF Idle, Reaper, NoSpace, RUNNING, READY, SLEEPING, WAITING, DEAD
<1> DEFINE ret == task_context_enter(c)
           woken == ScheduleWakes(ret, due)
           st == Outgoing(woken, current[c])
<1>1. \A t \in Pids :
        \/ woken[t] = state[t]
        \/ /\ woken[t] = READY
           /\ state[t] = SLEEPING \/ (t = Reaper /\ state[t] = WAITING)
  BY DEF ScheduleWakes, Sleepers
<1>2. woken \in [Pids -> States]
  BY HelperTypes DEF IInv
<1> HIDE DEF woken
<1>3. /\ \A t \in Pids : st[t] = woken[t] \/ (woken[t] = RUNNING /\ st[t] = READY)
      /\ st \in [Pids -> States]
  BY <1>2 DEF Outgoing, States
<1>4. next # Idle => next \in listed /\ st[next] = READY
  BY DEF ScheduleSwitch, Eligible, woken
<1>5. state' = IF next = Idle THEN st ELSE [st EXCEPT ![next] = RUNNING]
  BY DEF ScheduleSwitch, woken
<1> HIDE DEF st
<1>6. \A t \in Pids : state'[t] = st[t] \/ (st[t] = READY /\ state'[t] = RUNNING)
  BY <1>3, <1>4, <1>5
<1>7. QED
  BY <1>1, <1>3, <1>6 DEF IInv, TypeOK

LEMMA SwitchInv ==
  ASSUME IInv, TypeOK', NEW c \in Cpus, NEW due \in SUBSET Sleepers,
         NEW next \in Pids \cup {Idle}, ScheduleSwitch(c, due, next)
  PROVE  IInv'
<1> USE DEF Idle, Reaper, NoSpace, RUNNING, READY, SLEEPING, WAITING, DEAD
<1>1. UNCHANGED <<nextPid, listed, cpu, pml4, threadCount, waitTarget, pc, onStack>>
  BY DEF ScheduleSwitch, taskVars
<1>2. next # Idle => next \in listed /\ cpu[next] = c
  BY DEF ScheduleSwitch, Eligible
<1>3. /\ current' = [current EXCEPT ![c] = next]
      /\ onStack[c] = current[c]
  BY DEF ScheduleSwitch, TimerCanFire
<1>4. \A d \in Cpus : retiring'[d] = IF d = c /\ next # current[c] /\ current[c] # Idle
                                    THEN current[c] ELSE task_context_enter(c)[d]
  BY HelperTypes DEF ScheduleSwitch, RetireOutgoing, IInv
<1>5. \A d \in Cpus : /\ task_context_enter(c)[d] \in {Idle, retiring[d]}
                      /\ onStack[d] \in {Idle, current[d], task_context_enter(c)[d]}
  BY DEF task_context_enter, IInv, CpuInv, TypeOK
<1>6. CpuInv'
  BY <1>1, <1>2, <1>3, <1>4, <1>5 DEF IInv, CpuInv, TypeOK
<1>7. ReaperInv'
  BY <1>1, SwitchStates DEF IInv, ReaperInv
<1>8. ListInv' /\ SpaceInv'
  BY <1>1 DEF IInv, ListInv, SpaceInv
<1>9. WaitInv'
  BY <1>1, SwitchStates DEF IInv, WaitInv
<1>10. NoLostWakeup'
  BY <1>1, SwitchStates DEF IInv, NoLostWakeup, is_thread, SpaceInv
<1>11. WaitReturnsAfterDeath'
  BY <1>1, SwitchStates DEF IInv, WaitReturnsAfterDeath, task_is_dead, WaitInv, ReaperInv
<1>12. QED
  BY <1>6, <1>7, <1>8, <1>9, <1>10, <1>11 DEF IInv
-----------------------------------------------------------------------------
(***************************************************************************)
(* Every step preserves the invariant.                                     *)
(***************************************************************************)

LEMMA StepInv == IInv /\ [Next]_vars => IInv'
<1> SUFFICES ASSUME IInv, [Next]_vars PROVE IInv'
  OBVIOUS
<1> USE BspAssumption, MaxPidAssumption, TargetsAssumption
    DEF At, taskVars, cpuVars, Pids, Idle, Reaper, NoSpace, States,
        RUNNING, READY, SLEEPING, WAITING, DEAD
<1>0. TypeOK'
  BY TypeStep DEF IInv
<1>1. ASSUME NEW c \in Cpus, SyscallDead(c)
      PROVE  IInv'
  <2> USE <1>1 DEF SyscallDead
  <2>1. ListInv'
    BY SMTT(20) DEF IInv, TypeOK, ListInv
  <2>2. ReaperInv'
    BY SMTT(20) DEF IInv, TypeOK, ReaperInv, SpaceInv, task_context_enter, WakeWaitersOn, task_is_dead, ScheduleWakes, Sleepers
  <2>3. CpuInv'
    BY SMTT(20) DEF IInv, TypeOK, CpuInv, task_context_enter, task_active
  <2>4. SpaceInv'
    BY SMTT(20) DEF IInv, TypeOK, SpaceInv
  <2>5. WaitInv'
    BY SMTT(20) DEF IInv, TypeOK, WaitInv, ListInv, ReaperInv, WakeWaitersOn, task_is_dead, ScheduleWakes, Sleepers
  <2>6. NoLostWakeup'
    BY SMTT(20) DEF IInv, TypeOK, NoLostWakeup, WaitInv, ReaperInv, SpaceInv, WakeWaitersOn, task_is_dead, ScheduleWakes, Sleepers, is_thread
  <2>7. WaitReturnsAfterDeath'
    BY SMTT(20) DEF IInv, TypeOK, WaitReturnsAfterDeath, NoLostWakeup, WaitInv, ReaperInv, WakeWaitersOn, task_is_dead, ScheduleWakes, Sleepers
  <2>8. QED
    BY <1>0, <2>1, <2>2, <2>3, <2>4, <2>5, <2>6, <2>7 DEF IInv
<1>2. ASSUME NEW c \in Cpus, SyscallOther(c)
      PROVE  IInv'
  <2> USE <1>2 DEF SyscallOther, SyscallEntry
  <2>1. ListInv'
    BY SMTT(20) DEF IInv, TypeOK, ListInv
  <2>2. ReaperInv'
    BY SMTT(20) DEF IInv, TypeOK, ReaperInv, SpaceInv, task_context_enter, WakeWaitersOn, task_is_dead, ScheduleWakes, Sleepers
  <2>3. CpuInv'
    BY SMTT(20) DEF IInv, TypeOK, CpuInv, task_context_enter, task_active
  <2>4. SpaceInv'
    BY SMTT(20) DEF IInv, TypeOK, SpaceInv
  <2>5. WaitInv'
    BY SMTT(20) DEF IInv, TypeOK, WaitInv, ListInv, ReaperInv, WakeWaitersOn, task_is_dead, ScheduleWakes, Sleepers
  <2>6. NoLostWakeup'
    BY SMTT(20) DEF IInv, TypeOK, NoLostWakeup, WaitInv, ReaperInv, SpaceInv, WakeWaitersOn, task_is_dead, ScheduleWakes, Sleepers, is_thread
  <2>7. WaitReturnsAfterDeath'
    BY SMTT(20) DEF IInv, TypeOK, WaitReturnsAfterDeath, NoLostWakeup, WaitInv, ReaperInv, WakeWaitersOn, task_is_dead, ScheduleWakes, Sleepers
  <2>8. QED
    BY <1>0, <2>1, <2>2, <2>3, <2>4, <2>5, <2>6, <2>7 DEF IInv
<1>3. ASSUME NEW c \in Cpus, SyscallExit(c)
      PROVE  IInv'
  <2> USE <1>3 DEF SyscallExit, SyscallEntry
  <2>1. ListInv'
    BY SMTT(20) DEF IInv, TypeOK, ListInv
  <2>2. ReaperInv'
    BY SMTT(20) DEF IInv, TypeOK, ReaperInv, SpaceInv, task_context_enter, WakeWaitersOn, task_is_dead, ScheduleWakes, Sleepers
  <2>3. CpuInv'
    BY SMTT(20) DEF IInv, TypeOK, CpuInv, task_context_enter, task_active
  <2>4. SpaceInv'
    BY SMTT(20) DEF IInv, TypeOK, SpaceInv
  <2>5. WaitInv'
    BY SMTT(20) DEF IInv, TypeOK, WaitInv, ListInv, ReaperInv, WakeWaitersOn, task_is_dead, ScheduleWakes, Sleepers
  <2>6. NoLostWakeup'
    BY SMTT(20) DEF IInv, TypeOK, NoLostWakeup, WaitInv, ReaperInv, SpaceInv, WakeWaitersOn, task_is_dead, ScheduleWakes, Sleepers, is_thread
  <2>7. WaitReturnsAfterDeath'
    BY SMTT(20) DEF IInv, TypeOK, WaitReturnsAfterDeath, NoLostWakeup, WaitInv, ReaperInv, WakeWaitersOn, task_is_dead, ScheduleWakes, Sleepers
  <2>8. QED
    BY <1>0, <2>1, <2>2, <2>3, <2>4, <2>5, <2>6, <2>7 DEF IInv
<1>4. ASSUME NEW c \in Cpus, sleep_current_task(c)
      PROVE  IInv'
  <2> USE <1>4 DEF sleep_current_task, SyscallEntry
  <2>1. ListInv'
    BY SMTT(20) DEF IInv, TypeOK, ListInv
  <2>2. ReaperInv'
    BY SMTT(20) DEF IInv, TypeOK, ReaperInv, SpaceInv, task_context_enter, WakeWaitersOn, task_is_dead, ScheduleWakes, Sleepers
  <2>3. CpuInv'
    BY SMTT(20) DEF IInv, TypeOK, CpuInv, task_context_enter, task_active
  <2>4. SpaceInv'
    BY SMTT(20) DEF IInv, TypeOK, SpaceInv
  <2>5. WaitInv'
    BY SMTT(20) DEF IInv, TypeOK, WaitInv, ListInv, ReaperInv, WakeWaitersOn, task_is_dead, ScheduleWakes, Sleepers
  <2>6. NoLostWakeup'
    BY SMTT(20) DEF IInv, TypeOK, NoLostWakeup, WaitInv, ReaperInv, SpaceInv, WakeWaitersOn, task_is_dead, ScheduleWakes, Sleepers, is_thread
  <2>7. WaitReturnsAfterDeath'
    BY SMTT(20) DEF IInv, TypeOK, WaitReturnsAfterDeath, NoLostWakeup, WaitInv, ReaperInv, WakeWaitersOn, task_is_dead, ScheduleWakes, Sleepers
  <2>8. QED
    BY <1>0, <2>1, <2>2, <2>3, <2>4, <2>5, <2>6, <2>7 DEF IInv
<1>5. ASSUME NEW c \in Cpus, NEW target \in Targets, wait_for_pid(c, target)
      PROVE  IInv'
  <2> USE <1>5 DEF wait_for_pid, SyscallEntry
  <2>1. ListInv'
    BY SMTT(20) DEF IInv, TypeOK, ListInv
  <2>2. ReaperInv'
    BY SMTT(20) DEF IInv, TypeOK, ReaperInv, SpaceInv, task_context_enter, WakeWaitersOn, task_is_dead, ScheduleWakes, Sleepers
  <2>3. CpuInv'
    BY SMTT(20) DEF IInv, TypeOK, CpuInv, task_context_enter, task_active
  <2>4. SpaceInv'
    BY SMTT(20) DEF IInv, TypeOK, SpaceInv
  <2>5. WaitInv'
    BY SMTT(20) DEF IInv, TypeOK, WaitInv, ListInv, ReaperInv, WakeWaitersOn, task_is_dead, ScheduleWakes, Sleepers
  <2>6. NoLostWakeup'
    BY SMTT(20) DEF IInv, TypeOK, NoLostWakeup, WaitInv, ReaperInv, SpaceInv, WakeWaitersOn, task_is_dead, ScheduleWakes, Sleepers, is_thread
  <2>7. WaitReturnsAfterDeath'
    BY SMTT(20) DEF IInv, TypeOK, WaitReturnsAfterDeath, NoLostWakeup, WaitInv, ReaperInv, WakeWaitersOn, task_is_dead, ScheduleWakes, Sleepers
  <2>8. QED
    BY <1>0, <2>1, <2>2, <2>3, <2>4, <2>5, <2>6, <2>7 DEF IInv
<1>6. ASSUME NEW c \in Cpus, task_wait_current(c)
      PROVE  IInv'
  <2> USE <1>6 DEF task_wait_current
  <2>1. ListInv'
    BY SMTT(20) DEF IInv, TypeOK, ListInv
  <2>2. ReaperInv'
    BY SMTT(20) DEF IInv, TypeOK, ReaperInv, SpaceInv, task_context_enter, WakeWaitersOn, task_is_dead, ScheduleWakes, Sleepers
  <2>3. CpuInv'
    BY SMTT(20) DEF IInv, TypeOK, CpuInv, task_context_enter, task_active
  <2>4. SpaceInv'
    BY SMTT(20) DEF IInv, TypeOK, SpaceInv
  <2>5. WaitInv'
    BY SMTT(20) DEF IInv, TypeOK, WaitInv, ListInv, ReaperInv, WakeWaitersOn, task_is_dead, ScheduleWakes, Sleepers
  <2>6. NoLostWakeup'
    BY SMTT(20) DEF IInv, TypeOK, NoLostWakeup, WaitInv, ReaperInv, SpaceInv, WakeWaitersOn, task_is_dead, ScheduleWakes, Sleepers, is_thread
  <2>7. WaitReturnsAfterDeath'
    BY SMTT(20) DEF IInv, TypeOK, WaitReturnsAfterDeath, NoLostWakeup, WaitInv, ReaperInv, WakeWaitersOn, task_is_dead, ScheduleWakes, Sleepers
  <2>8. QED
    BY <1>0, <2>1, <2>2, <2>3, <2>4, <2>5, <2>6, <2>7 DEF IInv
<1>7. ASSUME NEW c \in Cpus, task_abort_current_group(c)
      PROVE  IInv'
  <2> USE <1>7 DEF task_abort_current_group
  <2>1. ListInv'
    BY SMTT(20) DEF IInv, TypeOK, ListInv
  <2>2. ReaperInv'
    BY SMTT(20) DEF IInv, TypeOK, ReaperInv, SpaceInv, task_context_enter, WakeWaitersOn, task_is_dead, ScheduleWakes, Sleepers
  <2>3. CpuInv'
    BY SMTT(20) DEF IInv, TypeOK, CpuInv, task_context_enter, task_active
  <2>4. SpaceInv'
    BY SMTT(20) DEF IInv, TypeOK, SpaceInv
  <2>5. WaitInv'
    BY SMTT(20) DEF IInv, TypeOK, WaitInv, ListInv, ReaperInv, WakeWaitersOn, task_is_dead, ScheduleWakes, Sleepers
  <2>6. NoLostWakeup'
    BY SMTT(20) DEF IInv, TypeOK, NoLostWakeup, WaitInv, ReaperInv, SpaceInv, WakeWaitersOn, task_is_dead, ScheduleWakes, Sleepers, is_thread
  <2>7. WaitReturnsAfterDeath'
    BY SMTT(20) DEF IInv, TypeOK, WaitReturnsAfterDeath, NoLostWakeup, WaitInv, ReaperInv, WakeWaitersOn, task_is_dead, ScheduleWakes, Sleepers
  <2>8. QED
    BY <1>0, <2>1, <2>2, <2>3, <2>4, <2>5, <2>6, <2>7 DEF IInv
<1>8. ASSUME NEW c \in Cpus, task_kernel_entry(c)
      PROVE  IInv'
  <2> USE <1>8 DEF task_kernel_entry
  <2>1. ListInv'
    BY SMTT(20) DEF IInv, TypeOK, ListInv
  <2>2. ReaperInv'
    BY SMTT(20) DEF IInv, TypeOK, ReaperInv, SpaceInv, task_context_enter, WakeWaitersOn, task_is_dead, ScheduleWakes, Sleepers
  <2>3. CpuInv'
    BY SMTT(20) DEF IInv, TypeOK, CpuInv, task_context_enter, task_active
  <2>4. SpaceInv'
    BY SMTT(20) DEF IInv, TypeOK, SpaceInv
  <2>5. WaitInv'
    BY SMTT(20) DEF IInv, TypeOK, WaitInv, ListInv, ReaperInv, WakeWaitersOn, task_is_dead, ScheduleWakes, Sleepers
  <2>6. NoLostWakeup'
    BY SMTT(20) DEF IInv, TypeOK, NoLostWakeup, WaitInv, ReaperInv, SpaceInv, WakeWaitersOn, task_is_dead, ScheduleWakes, Sleepers, is_thread
  <2>7. WaitReturnsAfterDeath'
    BY SMTT(20) DEF IInv, TypeOK, WaitReturnsAfterDeath, NoLostWakeup, WaitInv, ReaperInv, WakeWaitersOn, task_is_dead, ScheduleWakes, Sleepers
  <2>8. QED
    BY <1>0, <2>1, <2>2, <2>3, <2>4, <2>5, <2>6, <2>7 DEF IInv
<1>9. ASSUME NEW c \in Cpus, exit_current_task(c)
      PROVE  IInv'
  <2> USE <1>9 DEF exit_current_task
  <2>1. ListInv'
    BY SMTT(20) DEF IInv, TypeOK, ListInv
  <2>2. ReaperInv'
    BY SMTT(20) DEF IInv, TypeOK, ReaperInv, SpaceInv, task_context_enter, WakeWaitersOn, task_is_dead, ScheduleWakes, Sleepers
  <2>3. CpuInv'
    BY SMTT(20) DEF IInv, TypeOK, CpuInv, task_context_enter, task_active
  <2>4. SpaceInv'
    BY SMTT(20) DEF IInv, TypeOK, SpaceInv
  <2>5. WaitInv'
    BY SMTT(20) DEF IInv, TypeOK, WaitInv, ListInv, ReaperInv, WakeWaitersOn, task_is_dead, ScheduleWakes, Sleepers
  <2>6. NoLostWakeup'
    BY SMTT(20) DEF IInv, TypeOK, NoLostWakeup, WaitInv, ReaperInv, SpaceInv, WakeWaitersOn, task_is_dead, ScheduleWakes, Sleepers, is_thread
  <2>7. WaitReturnsAfterDeath'
    BY SMTT(20) DEF IInv, TypeOK, WaitReturnsAfterDeath, NoLostWakeup, WaitInv, ReaperInv, WakeWaitersOn, task_is_dead, ScheduleWakes, Sleepers
  <2>8. QED
    BY <1>0, <2>1, <2>2, <2>3, <2>4, <2>5, <2>6, <2>7 DEF IInv
<1>10. ASSUME NEW c \in Cpus, ReaperPark(c)
      PROVE  IInv'
  <2> USE <1>10 DEF ReaperPark
  <2>1. ListInv'
    BY SMTT(20) DEF IInv, TypeOK, ListInv
  <2>2. ReaperInv'
    BY SMTT(20) DEF IInv, TypeOK, ReaperInv, SpaceInv, task_context_enter, WakeWaitersOn, task_is_dead, ScheduleWakes, Sleepers
  <2>3. CpuInv'
    BY SMTT(20) DEF IInv, TypeOK, CpuInv, task_context_enter, task_active
  <2>4. SpaceInv'
    BY SMTT(20) DEF IInv, TypeOK, SpaceInv
  <2>5. WaitInv'
    BY SMTT(20) DEF IInv, TypeOK, WaitInv, ListInv, ReaperInv, WakeWaitersOn, task_is_dead, ScheduleWakes, Sleepers
  <2>6. NoLostWakeup'
    BY SMTT(20) DEF IInv, TypeOK, NoLostWakeup, WaitInv, ReaperInv, SpaceInv, WakeWaitersOn, task_is_dead, ScheduleWakes, Sleepers, is_thread
  <2>7. WaitReturnsAfterDeath'
    BY SMTT(20) DEF IInv, TypeOK, WaitReturnsAfterDeath, NoLostWakeup, WaitInv, ReaperInv, WakeWaitersOn, task_is_dead, ScheduleWakes, Sleepers
  <2>8. QED
    BY <1>0, <2>1, <2>2, <2>3, <2>4, <2>5, <2>6, <2>7 DEF IInv
<1>11. ASSUME NEW c \in Cpus, NEW due \in SUBSET Sleepers, ScheduleKeep(c, due)
      PROVE  IInv'
  <2> USE <1>11 DEF ScheduleKeep
  <2>1. ListInv'
    BY SMTT(20) DEF IInv, TypeOK, ListInv
  <2>2. ReaperInv'
    BY SMTT(20) DEF IInv, TypeOK, ReaperInv, SpaceInv, task_context_enter, WakeWaitersOn, task_is_dead, ScheduleWakes, Sleepers
  <2>3. CpuInv'
    BY SMTT(20) DEF IInv, TypeOK, CpuInv, task_context_enter, task_active
  <2>4. SpaceInv'
    BY SMTT(20) DEF IInv, TypeOK, SpaceInv
  <2>5. WaitInv'
    BY SMTT(20) DEF IInv, TypeOK, WaitInv, ListInv, ReaperInv, WakeWaitersOn, task_is_dead, ScheduleWakes, Sleepers
  <2>6. NoLostWakeup'
    BY SMTT(20) DEF IInv, TypeOK, NoLostWakeup, WaitInv, ReaperInv, SpaceInv, WakeWaitersOn, task_is_dead, ScheduleWakes, Sleepers, is_thread
  <2>7. WaitReturnsAfterDeath'
    BY SMTT(20) DEF IInv, TypeOK, WaitReturnsAfterDeath, NoLostWakeup, WaitInv, ReaperInv, WakeWaitersOn, task_is_dead, ScheduleWakes, Sleepers
  <2>8. QED
    BY <1>0, <2>1, <2>2, <2>3, <2>4, <2>5, <2>6, <2>7 DEF IInv
<1>12. ASSUME NEW c \in Cpus, Iret(c)
      PROVE  IInv'
  <2> USE <1>12 DEF Iret
  <2>1. ListInv'
    BY SMTT(20) DEF IInv, TypeOK, ListInv
  <2>2. ReaperInv'
    BY SMTT(20) DEF IInv, TypeOK, ReaperInv, SpaceInv, task_context_enter, WakeWaitersOn, task_is_dead, ScheduleWakes, Sleepers
  <2>3. CpuInv'
    BY SMTT(20) DEF IInv, TypeOK, CpuInv, task_context_enter, task_active
  <2>4. SpaceInv'
    BY SMTT(20) DEF IInv, TypeOK, SpaceInv
  <2>5. WaitInv'
    BY SMTT(20) DEF IInv, TypeOK, WaitInv, ListInv, ReaperInv, WakeWaitersOn, task_is_dead, ScheduleWakes, Sleepers
  <2>6. NoLostWakeup'
    BY SMTT(20) DEF IInv, TypeOK, NoLostWakeup, WaitInv, ReaperInv, SpaceInv, WakeWaitersOn, task_is_dead, ScheduleWakes, Sleepers, is_thread
  <2>7. WaitReturnsAfterDeath'
    BY SMTT(20) DEF IInv, TypeOK, WaitReturnsAfterDeath, NoLostWakeup, WaitInv, ReaperInv, WakeWaitersOn, task_is_dead, ScheduleWakes, Sleepers
  <2>8. QED
    BY <1>0, <2>1, <2>2, <2>3, <2>4, <2>5, <2>6, <2>7 DEF IInv
<1>13. ASSUME NEW c \in Cpus, Interrupt(c)
      PROVE  IInv'
  <2> USE <1>13 DEF Interrupt
  <2>1. ListInv'
    BY SMTT(20) DEF IInv, TypeOK, ListInv
  <2>2. ReaperInv'
    BY SMTT(20) DEF IInv, TypeOK, ReaperInv, SpaceInv, task_context_enter, WakeWaitersOn, task_is_dead, ScheduleWakes, Sleepers
  <2>3. CpuInv'
    BY SMTT(20) DEF IInv, TypeOK, CpuInv, task_context_enter, task_active
  <2>4. SpaceInv'
    BY SMTT(20) DEF IInv, TypeOK, SpaceInv
  <2>5. WaitInv'
    BY SMTT(20) DEF IInv, TypeOK, WaitInv, ListInv, ReaperInv, WakeWaitersOn, task_is_dead, ScheduleWakes, Sleepers
  <2>6. NoLostWakeup'
    BY SMTT(20) DEF IInv, TypeOK, NoLostWakeup, WaitInv, ReaperInv, SpaceInv, WakeWaitersOn, task_is_dead, ScheduleWakes, Sleepers, is_thread
  <2>7. WaitReturnsAfterDeath'
    BY SMTT(20) DEF IInv, TypeOK, WaitReturnsAfterDeath, NoLostWakeup, WaitInv, ReaperInv, WakeWaitersOn, task_is_dead, ScheduleWakes, Sleepers
  <2>8. QED
    BY <1>0, <2>1, <2>2, <2>3, <2>4, <2>5, <2>6, <2>7 DEF IInv
<1>14. ASSUME NEW t \in Pids, NEW p \in Cpus, task_set_cpu(t, p)
      PROVE  IInv'
  <2> USE <1>14 DEF task_set_cpu
  <2>1. ListInv'
    BY SMTT(20) DEF IInv, TypeOK, ListInv
  <2>2. ReaperInv'
    BY SMTT(20) DEF IInv, TypeOK, ReaperInv, SpaceInv, task_context_enter, WakeWaitersOn, task_is_dead, ScheduleWakes, Sleepers
  <2>3. CpuInv'
    BY SMTT(20) DEF IInv, TypeOK, CpuInv, task_context_enter, task_active
  <2>4. SpaceInv'
    BY SMTT(20) DEF IInv, TypeOK, SpaceInv
  <2>5. WaitInv'
    BY SMTT(20) DEF IInv, TypeOK, WaitInv, ListInv, ReaperInv, WakeWaitersOn, task_is_dead, ScheduleWakes, Sleepers
  <2>6. NoLostWakeup'
    BY SMTT(20) DEF IInv, TypeOK, NoLostWakeup, WaitInv, ReaperInv, SpaceInv, WakeWaitersOn, task_is_dead, ScheduleWakes, Sleepers, is_thread
  <2>7. WaitReturnsAfterDeath'
    BY SMTT(20) DEF IInv, TypeOK, WaitReturnsAfterDeath, NoLostWakeup, WaitInv, ReaperInv, WakeWaitersOn, task_is_dead, ScheduleWakes, Sleepers
  <2>8. QED
    BY <1>0, <2>1, <2>2, <2>3, <2>4, <2>5, <2>6, <2>7 DEF IInv
<1>15. ASSUME NEW c \in Cpus, SyscallEntry(c)
       PROVE  /\ current[c] \in listed /\ current[c] # Reaper
              /\ waitTarget[current[c]] = Idle /\ state[current[c]] # DEAD
              /\ pml4[current[c]] \in listed
              /\ pml4[pml4[current[c]]] = pml4[current[c]]
              /\ \A d \in Cpus : /\ retiring'[d] \in {Idle, retiring[d]}
                                 /\ onStack[d] \in {Idle, current[d], retiring'[d]}
  BY <1>15 DEF IInv, TypeOK, SyscallEntry, task_context_enter, ReaperInv, CpuInv,
               SpaceInv, WaitInv
<1>16. ASSUME NEW c \in Cpus, NEW t \in Pids \ listed, SpawnState(c, t),
              current[c] \in listed
       PROVE  /\ state'[t] = READY /\ pc'[t] = "run" /\ state'[current[c]] = RUNNING
              /\ \A u \in listed \ {current[c]} : state'[u] = state[u] /\ pc'[u] = pc[u]
  BY <1>16 DEF IInv, TypeOK, SpawnState
<1>17. nextPid <= MaxPid => nextPid \in Pids \ listed
  BY FreshPid DEF IInv, TypeOK, ListInv
<1>18. ASSUME NEW c \in Cpus, NEW p \in Cpus, create_user_task(c, p)
       PROVE  IInv'
  <2>1. SyscallEntry(c) /\ task_publish(nextPid, nextPid, p) /\ SpawnState(c, nextPid)
    BY <1>18 DEF create_user_task
  <2>2. nextPid \in Pids \ listed
    BY <1>17, <2>1 DEF task_publish
  <2>3. QED
    BY <1>0, <1>15, <1>16, <2>1, <2>2, PublishInv
<1>19. ASSUME NEW c \in Cpus, NEW p \in Cpus, task_fork(c, p)
       PROVE  IInv'
  <2>1. SyscallEntry(c) /\ task_publish(nextPid, nextPid, p) /\ SpawnState(c, nextPid)
    BY <1>19 DEF task_fork
  <2>2. nextPid \in Pids \ listed
    BY <1>17, <2>1 DEF task_publish
  <2>3. QED
    BY <1>0, <1>15, <1>16, <2>1, <2>2, PublishInv
<1>20. ASSUME NEW c \in Cpus, NEW p \in Cpus, task_clone(c, p)
       PROVE  IInv'
  <2>1. /\ SyscallEntry(c) /\ task_publish(nextPid, pml4[current[c]], p)
        /\ SpawnState(c, nextPid)
    BY <1>20 DEF task_clone
  <2>2. nextPid \in Pids \ listed
    BY <1>17, <2>1 DEF task_publish
  <2>3. QED
    BY <1>0, <1>15, <1>16, <2>1, <2>2, PublishInv
<1>21. ASSUME NEW p \in Cpus, create_task_on_cpu(p)
       PROVE  IInv'
  <2>1. /\ task_publish(nextPid, NoSpace, p) /\ UNCHANGED retiring
        /\ state' = [state EXCEPT ![nextPid] = READY]
        /\ pc' = [pc EXCEPT ![nextPid] = "run"]
    BY <1>21 DEF create_task_on_cpu
  <2>2. nextPid \in Pids \ listed
    BY <1>17, <2>1 DEF task_publish
  <2>3. /\ state'[nextPid] = READY /\ pc'[nextPid] = "run"
        /\ \A u \in listed : state'[u] = state[u] /\ pc'[u] = pc[u]
    BY <2>1, <2>2 DEF IInv, TypeOK
  <2>4. \A c \in Cpus : /\ retiring'[c] \in {Idle, retiring[c]}
                        /\ onStack[c] \in {Idle, current[c], retiring'[c]}
    BY <2>1 DEF IInv, CpuInv
  <2>5. QED
    BY <1>0, <2>1, <2>2, <2>3, <2>4, PublishInv
<1>22. ASSUME NEW c \in Cpus, task_reap_dead(c)
       PROVE  IInv'
  BY <1>0, <1>22, ReapInv
<1>23. ASSUME NEW c \in Cpus, NEW due \in SUBSET Sleepers,
              NEW next \in Pids \cup {Idle}, ScheduleSwitch(c, due, next)
       PROVE  IInv'
  BY <1>0, <1>23, SwitchInv
<1>24. CASE UNCHANGED vars
  BY <1>24 DEF vars, IInv, TypeOK, ListInv, ReaperInv, CpuInv, SpaceInv, WaitInv,
               NoLostWakeup, WaitReturnsAfterDeath, is_thread, task_is_dead
<1>25. QED
  BY <1>1, <1>2, <1>3, <1>4, <1>5, <1>6, <1>7, <1>8, <1>9, <1>10, <1>11, <1>12,
     <1>13, <1>14, <1>18, <1>19, <1>20, <1>21, <1>22, <1>23, <1>24
  DEF Next, CpuStep, Syscall, Tick
-----------------------------------------------------------------------------
(***************************************************************************)
(* Theorems.                                                               *)
(***************************************************************************)

\* The invariant holds in every reachable state.
THEOREM Invariance == Spec => []IInv
<1>1. Init => IInv
  BY InitInv
<1>2. IInv /\ [Next]_vars => IInv'
  BY StepInv
<1>3. QED
  BY <1>1, <1>2, PTL DEF Spec

\* Every variable keeps its type, for any CPUs and any number of pids.
THEOREM TypeCorrect == Spec => []TypeOK
<1>1. IInv => TypeOK
  BY DEF IInv
<1>2. QED
  BY <1>1, Invariance, PTL

\* task_reap_dead never frees a stack that a CPU is on, enters or leaves.
THEOREM StackNeverFreed == Spec => []KernelStackPinned
<1>1. IInv => KernelStackPinned
  BY DEF IInv, CpuInv, KernelStackPinned, Idle
<1>2. QED
  BY <1>1, Invariance, PTL

\* An address space is destroyed only after its last user.
THEOREM SpaceOutlivesUsers == Spec => []AddressSpacePinned
<1>1. IInv => AddressSpacePinned
  BY DEF IInv, SpaceInv, AddressSpacePinned
<1>2. QED
  BY <1>1, Invariance, PTL

\* No two CPUs are ever on, or about to enter, the same kernel stack.
THEOREM OneCpuPerStack == Spec => []StackExclusive
<1>1. IInv => StackExclusive
  BY DEF IInv, CpuInv, StackExclusive, Idle
<1>2. QED
  BY <1>1, Invariance, PTL

\* The death of a target never slips between wait_for_pid's check and its
\* block, and never passes a blocked waiter by.
THEOREM WakeupNotLost == Spec => []NoLostWakeup
<1>1. IInv => NoLostWakeup
  BY DEF IInv
<1>2. QED
  BY <1>1, Invariance, PTL

\* A wait_pid that returns 1 has a dead target.
THEOREM WaitIsTruthful == Spec => []WaitReturnsAfterDeath
<1>1. IInv => WaitReturnsAfterDeath
  BY DEF IInv
<1>2. QED
  BY <1>1, Invariance, PTL

\* What one step does to a dead task that stays on the list.
LEMMA DeathStep ==
  ASSUME IInv, [Next]_vars, NEW u \in listed \cap listed', state[u] = DEAD
  PROVE  state'[u] = DEAD
<1> USE MaxPidAssumption
    DEF At, Pids, Idle, Reaper, NoSpace, RUNNING, READY, SLEEPING, WAITING, DEAD
<1>1. u \in Pids /\ u # Reaper
  BY DEF IInv, TypeOK, ReaperInv
<1>2. nextPid <= MaxPid => nextPid # u
  BY <1>1 DEF IInv, TypeOK, ListInv
<1>3. ASSUME NEW c \in Cpus, Syscall(c)
      PROVE  state'[u] = DEAD
  BY <1>1, <1>2, <1>3
  DEF Syscall, SyscallDead, SyscallOther, SyscallExit, sleep_current_task,
      wait_for_pid, create_user_task, task_fork, task_clone, task_publish,
      SpawnState, SyscallEntry, IInv, TypeOK
<1>4. ASSUME NEW c \in Cpus,
             \/ task_abort_current_group(c) \/ exit_current_task(c)
             \/ task_reap_dead(c) \/ ReaperPark(c)
      PROVE  state'[u] = DEAD
  <2>1. \A st, gone : st[u] = DEAD => WakeWaitersOn(st, gone)[u] = DEAD
    BY <1>1 DEF WakeWaitersOn
  <2>2. CASE task_abort_current_group(c)
    BY <1>1, <2>1, <2>2 DEF task_abort_current_group
  <2>3. CASE exit_current_task(c)
    BY <1>1, <2>1, <2>3 DEF exit_current_task, IInv, TypeOK
  <2>4. CASE task_reap_dead(c)
    BY <1>1, <2>1, <2>4 DEF task_reap_dead, Freed
  <2>5. CASE ReaperPark(c)
    BY <1>1, <2>5 DEF ReaperPark, IInv, TypeOK
  <2>6. QED
    BY <1>4, <2>2, <2>3, <2>4, <2>5
<1>5. ASSUME NEW c \in Cpus, NEW due \in SUBSET Sleepers, ScheduleKeep(c, due)
      PROVE  state'[u] = DEAD
  BY <1>1, <1>5 DEF ScheduleKeep, ScheduleWakes, Sleepers
<1>6. ASSUME NEW c \in Cpus, NEW due \in SUBSET Sleepers,
             NEW next \in Pids \cup {Idle}, ScheduleSwitch(c, due, next)
      PROVE  state'[u] = DEAD
  BY <1>6, SwitchStates
<1>7. ASSUME NEW p \in Cpus, create_task_on_cpu(p)
      PROVE  state'[u] = DEAD
  BY <1>1, <1>2, <1>7 DEF create_task_on_cpu, task_publish, IInv, TypeOK
<1>8. ASSUME UNCHANGED state
      PROVE  state'[u] = DEAD
  BY <1>8
<1>9. QED
  BY <1>3, <1>4, <1>5, <1>6, <1>7, <1>8
  DEF Next, CpuStep, Tick, task_wait_current, task_kernel_entry, Iret, Interrupt,
      task_set_cpu, vars

\* No interleaving brings a dead task back to life.
THEOREM NoRevival == Spec => DeadStaysDead
<1>1. IInv /\ [Next]_vars =>
        [\A t \in listed \cap listed' : state[t] = DEAD => state'[t] = DEAD]_vars
  BY DeathStep
<1>2. QED
  BY <1>1, Invariance, PTL DEF Spec, DeadStaysDead
-----------------------------------------------------------------------------
(***************************************************************************)
(* The thread count.                                                       *)
(***************************************************************************)

\* Every set of listed tasks is finite.
LEMMA ListedFinite ==
  ASSUME IInv, NEW S \in SUBSET listed
  PROVE  IsFiniteSet(S) /\ Cardinality(S) \in Nat
<1>1. IsFiniteSet(Pids) /\ S \in SUBSET Pids
  BY FS_Interval, MaxPidAssumption DEF Pids, IInv, TypeOK
<1>2. QED
  BY <1>1, FS_Subset, FS_CardinalityType

\* A new task counts for its own group only.
LEMMA PublishCount ==
  ASSUME IInv, ThreadCountExact, NEW space, NEW p,
         task_publish(nextPid, space, p),
         \/ space \in {NoSpace, nextPid} /\ threadCount' = [threadCount EXCEPT ![nextPid] = 1]
         \/ /\ space \in listed
            /\ threadCount' = [threadCount EXCEPT ![space] = @ + 1, ![nextPid] = 0]
  PROVE  ThreadCountExact'
<1> USE DEF NoSpace
<1> SUFFICES ASSUME NEW l \in listed', pml4'[l] = l
             PROVE  threadCount'[l] = Cardinality(GroupOf(l)')
  BY DEF ThreadCountExact
<1>1. /\ nextPid \in Pids /\ nextPid \notin listed /\ listed' = listed \cup {nextPid}
      /\ listed \subseteq Pids /\ nextPid # 0
  BY FreshPid DEF IInv, TypeOK, ListInv, task_publish
<1>2. pml4'[nextPid] = space /\ \A u \in listed : u # nextPid /\ pml4'[u] = pml4[u]
  BY <1>1 DEF IInv, TypeOK, task_publish
<1>3. CASE l = nextPid
  <2>1. \A u \in listed : pml4[u] # nextPid
    BY <1>1 DEF IInv, SpaceInv
  <2>2. GroupOf(l)' = {nextPid}
    BY <1>1, <1>2, <1>3, <2>1 DEF GroupOf
  <2>3. threadCount'[l] = 1
    BY <1>1, <1>2, <1>3 DEF IInv, TypeOK
  <2>4. QED
    BY <2>2, <2>3, FS_Singleton
<1>4. CASE l # nextPid /\ space = l
  <2>1. l \in listed /\ pml4[l] = l
    BY <1>1, <1>2, <1>4
  <2>2. GroupOf(l)' = GroupOf(l) \cup {nextPid} /\ nextPid \notin GroupOf(l)
    BY <1>1, <1>2, <1>4 DEF GroupOf
  <2>3. GroupOf(l) \in SUBSET listed
    BY DEF GroupOf
  <2>4. Cardinality(GroupOf(l)') = Cardinality(GroupOf(l)) + 1
    BY <2>2, <2>3, ListedFinite, FS_AddElement
  <2>5. threadCount'[l] = threadCount[l] + 1
    <3>1. l \in Pids /\ l # 0 /\ nextPid # l /\ threadCount[l] \in Nat
      BY <1>1, <1>4, <2>1 DEF IInv, TypeOK, Pids
    <3>2. threadCount' = [threadCount EXCEPT ![l] = @ + 1, ![nextPid] = 0]
      BY <1>4, <3>1
    <3>3. threadCount \in [Pids -> Nat] /\ nextPid \in Pids
      BY <1>1 DEF IInv, TypeOK
    <3>4. QED
      BY <3>1, <3>2, <3>3
  <2>6. QED
    BY <2>1, <2>4, <2>5 DEF ThreadCountExact
<1>5. CASE l # nextPid /\ space # l
  <2>1. l \in listed /\ pml4[l] = l
    BY <1>1, <1>2, <1>5
  <2>2. GroupOf(l)' = GroupOf(l)
    BY <1>1, <1>2, <1>5 DEF GroupOf
  <2>3. threadCount'[l] = threadCount[l]
    BY <1>1, <1>5, <2>1 DEF IInv, TypeOK
  <2>4. QED
    BY <2>1, <2>2, <2>3 DEF ThreadCountExact
<1>6. QED
  BY <1>3, <1>4, <1>5

\* A pass takes the threads it frees off the count of a leader that stays.
LEMMA ReapedCount ==
  ASSUME IInv, ThreadCountExact, NEW c \in Cpus, task_reap_dead(c)
  PROVE  ThreadCountExact'
<1> USE DEF NoSpace
<1> SUFFICES ASSUME NEW l \in listed', pml4'[l] = l
             PROVE  threadCount'[l] = Cardinality(GroupOf(l)')
  BY DEF ThreadCountExact
<1> DEFINE gone == {t \in Reapable : is_thread(t) /\ pml4[t] = l}
<1>1. /\ listed' = listed \ Reapable /\ listed \subseteq Pids /\ l \in listed
      /\ \A t \in listed' : pml4'[t] = pml4[t]
  BY DEF task_reap_dead, Freed, IInv, TypeOK
<1>2. pml4[l] = l /\ l \in Pids /\ l # 0 /\ l \notin Reapable
  BY <1>1 DEF Pids
<1>3. GroupOf(l) \in SUBSET listed /\ gone \in SUBSET GroupOf(l) /\ gone \in SUBSET listed
  BY DEF GroupOf, Reapable
<1>4. GroupOf(l)' = GroupOf(l) \ gone
  BY <1>1, <1>2 DEF GroupOf, is_thread
<1>5. threadCount'[l] = ReapCount[l]
  BY <1>1, <1>2 DEF task_reap_dead, Freed
<1>6. ReapCount[l] = IF Cardinality(gone) <= threadCount[l]
                     THEN threadCount[l] - Cardinality(gone) ELSE 0
  BY <1>2 DEF ReapCount
<1>7. threadCount[l] = Cardinality(GroupOf(l))
  BY <1>1, <1>2 DEF ThreadCountExact
<1> HIDE DEF gone
<1>8. /\ IsFiniteSet(GroupOf(l)) /\ IsFiniteSet(gone) /\ IsFiniteSet(GroupOf(l) \ gone)
      /\ Cardinality(gone) \in Nat /\ Cardinality(GroupOf(l)) \in Nat
      /\ Cardinality(GroupOf(l) \ gone) \in Nat
  BY <1>3, ListedFinite
<1>9. Cardinality(gone) <= Cardinality(GroupOf(l))
  BY <1>3, <1>8, FS_Subset
<1>10. Cardinality(GroupOf(l)) = Cardinality(gone) + Cardinality(GroupOf(l) \ gone)
  <2>1. GroupOf(l) = gone \cup (GroupOf(l) \ gone) /\ gone \cap (GroupOf(l) \ gone) = {}
    BY <1>3
  <2>2. Cardinality(gone \cup (GroupOf(l) \ gone)) =
          Cardinality(gone) + Cardinality(GroupOf(l) \ gone)
            - Cardinality(gone \cap (GroupOf(l) \ gone))
    BY <1>8, FS_Union
  <2>3. Cardinality(gone \cap (GroupOf(l) \ gone)) = 0
    BY <2>1, FS_EmptySet
  <2>4. Cardinality(GroupOf(l)) =
          Cardinality(gone) + Cardinality(GroupOf(l) \ gone) - 0
    BY <2>1, <2>2, <2>3, Zenon
  <2>5. QED
    BY <1>8, <2>4
<1>11. QED
  BY <1>4, <1>5, <1>6, <1>7, <1>8, <1>9, <1>10

\* Only constructors and the reaper change the groups or their counts.
LEMMA CountStep == IInv /\ ThreadCountExact /\ [Next]_vars => ThreadCountExact'
<1> SUFFICES ASSUME IInv, ThreadCountExact, [Next]_vars PROVE ThreadCountExact'
  OBVIOUS
<1>1. ASSUME NEW c \in Cpus, NEW p \in Cpus,
             create_user_task(c, p) \/ task_fork(c, p)
      PROVE  ThreadCountExact'
  BY <1>1, PublishCount DEF create_user_task, task_fork
<1>2. ASSUME NEW c \in Cpus, NEW p \in Cpus, task_clone(c, p)
      PROVE  ThreadCountExact'
  BY <1>2, PublishCount DEF task_clone
<1>3. ASSUME NEW p \in Cpus, create_task_on_cpu(p)
      PROVE  ThreadCountExact'
  BY <1>3, PublishCount DEF create_task_on_cpu
<1>4. ASSUME NEW c \in Cpus, task_reap_dead(c)
      PROVE  ThreadCountExact'
  BY <1>4, ReapedCount
<1>5. ASSUME UNCHANGED <<listed, pml4, threadCount>>
      PROVE  ThreadCountExact'
  BY <1>5 DEF ThreadCountExact, GroupOf
<1>6. ASSUME NEW c \in Cpus, Syscall(c)
      PROVE  ThreadCountExact'
  BY <1>1, <1>2, <1>5, <1>6
  DEF Syscall, SyscallDead, SyscallOther, SyscallExit, sleep_current_task,
      wait_for_pid, taskVars
<1>7. ASSUME NEW c \in Cpus, Tick(c)
      PROVE  UNCHANGED <<listed, pml4, threadCount>>
  BY <1>7 DEF Tick, ScheduleKeep, ScheduleSwitch, taskVars
<1>8. ASSUME NEW c \in Cpus,
             \/ task_wait_current(c) \/ task_abort_current_group(c)
             \/ task_kernel_entry(c) \/ exit_current_task(c) \/ ReaperPark(c)
             \/ Iret(c) \/ Interrupt(c)
      PROVE  UNCHANGED <<listed, pml4, threadCount>>
  BY <1>8
  DEF task_wait_current, task_abort_current_group, task_kernel_entry,
      exit_current_task, ReaperPark, Iret, Interrupt, taskVars
<1>9. ASSUME NEW c \in Cpus, CpuStep(c)
      PROVE  ThreadCountExact'
  BY <1>4, <1>5, <1>6, <1>7, <1>8, <1>9 DEF CpuStep
<1>10. ASSUME NEW t \in Pids, NEW p \in Cpus, task_set_cpu(t, p)
      PROVE  UNCHANGED <<listed, pml4, threadCount>>
  BY <1>10 DEF task_set_cpu
<1>11. QED
  BY <1>3, <1>5, <1>9, <1>10 DEF Next, vars

\* thread_count of every process equals the number of its tasks.
THEOREM ThreadsCounted == Spec => []ThreadCountExact
<1>1. Init => ThreadCountExact
  <2> SUFFICES ASSUME Init, NEW l \in listed, pml4[l] = l
               PROVE  threadCount[l] = Cardinality(GroupOf(l))
    BY DEF ThreadCountExact
  <2>1. l = Shell /\ threadCount[l] = 1
    BY MaxPidAssumption DEF Init, Pids, NoSpace, Shell, Reaper
  <2>2. GroupOf(l) = {Shell}
    BY <2>1, MaxPidAssumption DEF Init, GroupOf, Pids, NoSpace, Shell, Reaper
  <2>3. QED
    BY <2>1, <2>2, FS_Singleton
<1>2. IInv /\ ThreadCountExact /\ [Next]_vars => ThreadCountExact'
  BY CountStep
<1>3. QED
  BY <1>1, <1>2, Invariance, PTL DEF Spec
=============================================================================
