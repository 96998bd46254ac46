----------------------------- MODULE Scheduler -----------------------------
(***************************************************************************)
(* Which task schedule() in kernel/task.c picks on one CPU: priorities,    *)
(* nice values, quantum, sleep deadlines and aging.                        *)
(*                                                                         *)
(* Tasks 1 .. N are the tasks pinned to this CPU, in the order of the task *)
(* list; the tasks of other CPUs are skipped by the scan and do not change *)
(* that order.  Creation, death and the stacks are in module TaskLife.     *)
(*                                                                         *)
(* The boot processor advances time and calls schedule() in one interrupt  *)
(* (Tick).  The other CPUs call schedule() from their own timer            *)
(* (LocalTick) while time advances elsewhere (TimePasses), and a tick that *)
(* finds the mutation lock taken only advances time.  All three may        *)
(* interleave here, which covers both kinds of CPU.                        *)
(*                                                                         *)
(* Times are kept relative to now: age is now - ready_since, capped at the *)
(* only value it is compared with, and sleepLeft is sleep_until - now.     *)
(***************************************************************************)
EXTENDS Integers

CONSTANTS
  N,         \* bound: tasks of this CPU
  Boost,     \* STARVATION_BOOST_INTERVAL
  Base,      \* t->base_priority of every task
  Nices,     \* bound: the values programs pass to nice
  MaxSleep   \* bound: the ticks programs pass to sleep

ASSUME NAssumption == N \in Nat \ {0}
ASSUME BoostAssumption == Boost \in Nat \ {0}
ASSUME NicesAssumption == Nices \subseteq Int
ASSUME MaxSleepAssumption == MaxSleep \in Nat

Tasks == 1 .. N
Idle == 0

PRIO_IDLE == 0
PRIO_HIGH == 3
Prios == PRIO_IDLE .. PRIO_HIGH
ASSUME BaseAssumption == Base \in [Tasks -> Prios]

RUNNING == "RUNNING"
READY == "READY"
SLEEPING == "SLEEPING"
WAITING == "WAITING"

VARIABLES
  state,     \* t->state
  priority,  \* t->priority
  quantum,   \* quantum left to the current task
  age,       \* ticks since t->ready_since, up to Boost
  sleepLeft, \* ticks until t->sleep_until
  current    \* percpu->current

vars == <<state, priority, quantum, age, sleepLeft, current>>

TypeOK ==
  /\ state \in [Tasks -> {RUNNING, READY, SLEEPING, WAITING}]
  /\ priority \in [Tasks -> Prios]
  /\ quantum \in 0 .. 4
  /\ age \in [Tasks -> 0 .. Boost]
  /\ sleepLeft \in [Tasks -> 0 .. MaxSleep]
  /\ current \in Tasks \cup {Idle}

\* task_alloc and task_init_priority: new tasks are READY from now on.
Init ==
  /\ state = [t \in Tasks |-> READY]
  /\ priority = Base
  /\ quantum = 1
  /\ age = [t \in Tasks |-> 0]
  /\ sleepLeft = [t \in Tasks |-> 0]
  /\ current = Idle
-----------------------------------------------------------------------------
\* Mutant: the upper bound is not enforced.
clamp_priority_NoCeiling(p) == IF p < PRIO_IDLE THEN PRIO_IDLE ELSE p

\* The index into quantum_table stays in range.
clamp_priority(p) == IF p < PRIO_IDLE THEN PRIO_IDLE
                     ELSE IF p > PRIO_HIGH THEN PRIO_HIGH ELSE p

\* quantum_table.
QuantumOf(p) == IF p = PRIO_HIGH THEN 4 ELSE IF p = PRIO_HIGH - 1 THEN 2 ELSE 1

\* One more tick of the clock.
Aged == [t \in Tasks |-> IF age[t] < Boost THEN age[t] + 1 ELSE Boost]
SleptOn == [t \in Tasks |-> IF sleepLeft[t] > 0 THEN sleepLeft[t] - 1 ELSE 0]

\* Mutant: no aging.
EffectivePrio_NoAging(ag, t) == priority[t]

\* The priority the scan uses: a READY task left out for Boost ticks beats
\* every priority.
EffectivePrio(ag, t) == IF ag[t] >= Boost THEN PRIO_HIGH + 1 ELSE priority[t]

\* The place of t in a scan of the circular list that starts behind c; the
\* scan after the idle task starts at the head of the list.
Place(c, t) == IF t > c THEN t - c ELSE t - c + N

\* Mutant: ">=" instead of ">" in the scan, so the last of the best wins.
Picked_Last(ready, ag) ==
  LET best == {t \in ready : \A u \in ready :
                 EffectivePrio(ag, u) <= EffectivePrio(ag, t)}
  IN  IF ready = {} THEN Idle
      ELSE CHOOSE t \in best : \A u \in best : Place(current, u) <= Place(current, t)

\* The scan's result: of the tasks with the best priority the first one.
Picked(ready, ag) ==
  LET best == {t \in ready : \A u \in ready :
                 EffectivePrio(ag, u) <= EffectivePrio(ag, t)}
  IN  IF ready = {} THEN Idle
      ELSE CHOOSE t \in best : \A u \in best : Place(current, t) <= Place(current, u)

\* A sleeper whose deadline has come, given the time left to each.
Due(sl, t) == state[t] = SLEEPING /\ sl[t] = 0

\* The current task is RUNNING and has quantum left after this tick.
KeepsCpu == current # Idle /\ state[current] = RUNNING /\ quantum > 1

\* schedule() returns to the running task.
ScheduleKeep(ag, sl) ==
  /\ KeepsCpu
  /\ quantum' = quantum - 1
  /\ state' = [t \in Tasks |-> IF Due(sl, t) THEN READY ELSE state[t]]
  /\ age' = [t \in Tasks |-> IF Due(sl, t) THEN 0 ELSE ag[t]]
  /\ UNCHANGED <<priority, current>>

\* schedule() looks for the next task.  Sleepers that are due and a RUNNING
\* task that leaves the CPU are READY from now on.
ScheduleScan(ag, sl) ==
  LET fresh == {t \in Tasks : Due(sl, t) \/ (t = current /\ state[t] = RUNNING)}
      ready == fresh \cup {t \in Tasks : state[t] = READY}
      ag2 == [t \in Tasks |-> IF t \in fresh THEN 0 ELSE ag[t]]
      next == Picked(ready, ag2)
  IN  /\ ~ KeepsCpu
      /\ current' = next
      /\ state' = [t \in Tasks |-> IF t = next THEN RUNNING
                                   ELSE IF t \in ready THEN READY ELSE state[t]]
      /\ age' = [t \in Tasks |-> IF t = next THEN 0 ELSE ag2[t]]
      /\ quantum' = IF next = Idle THEN 1 ELSE QuantumOf(priority[next])
      /\ UNCHANGED priority

\* The PIT interrupt of the boot processor.
Tick ==
  /\ ScheduleKeep(Aged, SleptOn) \/ ScheduleScan(Aged, SleptOn)
  /\ sleepLeft' = SleptOn

\* The local timer of another CPU.
LocalTick ==
  /\ ScheduleKeep(age, sleepLeft) \/ ScheduleScan(age, sleepLeft)
  /\ UNCHANGED sleepLeft

\* The clock alone: the tick of another CPU, or preempt_try_disable failed.
TimePasses ==
  /\ age' = Aged
  /\ sleepLeft' = SleptOn
  /\ UNCHANGED <<state, priority, quantum, current>>
-----------------------------------------------------------------------------
\* The current task is in user code and makes a system call: task_mark_running
\* comes first.
InUser == current # Idle /\ state[current] \in {RUNNING, READY}

task_mark_running ==
  /\ InUser
  /\ state' = [state EXCEPT ![current] = RUNNING]
  /\ UNCHANGED <<priority, quantum, age, sleepLeft, current>>

sleep_current_task(n) ==
  /\ InUser
  /\ state' = [state EXCEPT ![current] = SLEEPING]
  /\ sleepLeft' = [sleepLeft EXCEPT ![current] = n]
  /\ UNCHANGED <<priority, quantum, age, current>>

\* wait_for_pid on a live target.
wait_for_pid ==
  /\ InUser
  /\ state' = [state EXCEPT ![current] = WAITING]
  /\ UNCHANGED <<priority, quantum, age, sleepLeft, current>>

\* The target dies: the waiter is READY, its ready_since untouched.
WakeWaiter(t) ==
  /\ state[t] = WAITING
  /\ state' = [state EXCEPT ![t] = READY]
  /\ UNCHANGED <<priority, quantum, age, sleepLeft, current>>

task_set_nice(n) ==
  LET nice == IF n < -2 THEN -2 ELSE IF n > 2 THEN 2 ELSE n
  IN  /\ InUser
      /\ state' = [state EXCEPT ![current] = RUNNING]
      /\ priority' = [priority EXCEPT ![current] = clamp_priority(Base[current] - nice)]
      /\ UNCHANGED <<quantum, age, sleepLeft, current>>

Schedule == Tick \/ LocalTick

Next ==
  \/ Schedule \/ TimePasses
  \/ task_mark_running \/ wait_for_pid
  \/ \E n \in 1 .. MaxSleep : sleep_current_task(n)
  \/ \E n \in Nices : task_set_nice(n)
  \/ \E t \in Tasks : WakeWaiter(t)

Spec == Init /\ [][Next]_vars

\* The boot processor's timer never stops, and infinitely many of its ticks
\* find the mutation lock free.
LiveSpec == Spec /\ WF_vars(Tick)
-----------------------------------------------------------------------------
\* A READY task that the aging rule has boosted.
Starved(t) == state[t] = READY /\ age[t] = Boost

\* Aging bounds the wait: every scan either picks a starved task or moves the
\* place where the next scan starts closer to it, so no other task runs twice
\* before it, whatever the priorities, sleeps, wakeups and nice values
\* (schedule, task.c:377-388).
OvertakenOnce ==
  [][\A t \in Tasks :
       /\ Starved(t) /\ ~ KeepsCpu /\ t # current
       /\ Schedule
       => current' = t \/ (current' # Idle /\ Place(current', t) < Place(current, t))]_vars

\* Nobody starves: a task that is READY gets the CPU although tasks of higher
\* priority stay runnable (documentation/scheduler-memory-plan.md:159).
StarvationFree == \A t \in Tasks : state[t] = READY ~> state[t] # READY
=============================================================================
