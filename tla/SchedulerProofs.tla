-------------------------- MODULE SchedulerProofs --------------------------
(***************************************************************************)
(* Theorems about Scheduler for any number of tasks, any priorities and    *)
(* any aging interval.                                                     *)
(***************************************************************************)
EXTENDS Scheduler, WellFoundedInduction, TLAPS

\* Every nonempty set of natural numbers has a least element.
LEMMA LeastNat ==
  ASSUME NEW S \in SUBSET Nat, S # {}
  PROVE  \E x \in S : \A y \in S : x <= y
<1>1. PICK x \in S : \A y \in S : ~ (<<y, x>> \in OpToRel(<, Nat))
  BY NatLessThanWellFounded, WFMin
<1>2. \A y \in S : ~ (y < x)
  BY <1>1 DEF OpToRel
<1>3. QED
  BY <1>2

\* A scan visits every task of this CPU at a place of its own in 1 .. N.
LEMMA PlaceType ==
  ASSUME NEW c \in Tasks \cup {Idle}, NEW t \in Tasks
  PROVE  Place(c, t) \in 1 .. N
  BY NAssumption DEF Place, Tasks, Idle

\* What the scan returns: a READY task of the best priority, the first one
\* behind the current task, whenever there is one.
LEMMA PickedIsBest ==
  ASSUME TypeOK, NEW ready \in SUBSET Tasks, NEW ag \in [Tasks -> 0 .. Boost],
         ready # {}
  PROVE  /\ Picked(ready, ag) \in ready
         /\ \A u \in ready : EffectivePrio(ag, u) <= EffectivePrio(ag, Picked(ready, ag))
         /\ \A u \in ready :
              EffectivePrio(ag, u) = EffectivePrio(ag, Picked(ready, ag))
                => Place(current, Picked(ready, ag)) <= Place(current, u)
<1> DEFINE best == {t \in ready : \A u \in ready :
                      EffectivePrio(ag, u) <= EffectivePrio(ag, t)}
<1>1. \A t \in ready : EffectivePrio(ag, t) \in 0 .. 4
  BY BoostAssumption DEF EffectivePrio, TypeOK, Prios, PRIO_IDLE, PRIO_HIGH
<1>2. best # {}
  <2> DEFINE S == {4 - EffectivePrio(ag, t) : t \in ready}
  <2>1. S \in SUBSET Nat /\ S # {}
    BY <1>1
  <2> HIDE DEF S
  <2>2. PICK m \in S : \A y \in S : m <= y
    BY <2>1, LeastNat
  <2>3. PICK t \in ready : m = 4 - EffectivePrio(ag, t)
    BY <2>2 DEF S
  <2>4. \A u \in ready : 4 - EffectivePrio(ag, t) <= 4 - EffectivePrio(ag, u)
    BY <2>2, <2>3 DEF S
  <2>5. \A u \in ready : EffectivePrio(ag, u) <= EffectivePrio(ag, t)
    BY <1>1, <2>4
  <2>6. QED
    BY <2>5
<1>3. \E t \in best : \A u \in best : Place(current, t) <= Place(current, u)
  <2> DEFINE S == {Place(current, t) : t \in best}
  <2>0. \A t \in best : Place(current, t) \in Nat
    BY PlaceType, NAssumption DEF TypeOK
  <2>1. S \in SUBSET Nat /\ S # {}
    <3> HIDE DEF best
    <3>1. QED BY <1>2, <2>0
  <2> HIDE DEF S
  <2>2. PICK m \in S : \A y \in S : m <= y
    BY <2>1, LeastNat
  <2>3. QED
    BY <2>2 DEF S
<1>4. Picked(ready, ag) = CHOOSE t \in best :
                            \A u \in best : Place(current, t) <= Place(current, u)
  BY DEF Picked
<1>5. /\ Picked(ready, ag) \in best
      /\ \A u \in best : Place(current, Picked(ready, ag)) <= Place(current, u)
  BY <1>3, <1>4
<1>6. \A u \in ready : EffectivePrio(ag, u) = EffectivePrio(ag, Picked(ready, ag))
                         => u \in best
  BY <1>5
<1>7. QED
  BY <1>5, <1>6

\* What the scan returns is a task of this CPU or the idle task.
LEMMA PickedType ==
  ASSUME TypeOK, NEW ready \in SUBSET Tasks, NEW ag \in [Tasks -> 0 .. Boost]
  PROVE  Picked(ready, ag) \in ready \cup {Idle} /\ (Picked(ready, ag) = Idle => ready = {})
<1>1. CASE ready = {}
  BY <1>1 DEF Picked
<1>2. CASE ready # {}
  BY <1>2, PickedIsBest, NAssumption DEF Tasks, Idle
<1>3. QED
  BY <1>1, <1>2

\* The clocks keep their types.
LEMMA ClockType ==
  ASSUME TypeOK
  PROVE  Aged \in [Tasks -> 0 .. Boost] /\ SleptOn \in [Tasks -> 0 .. MaxSleep]
  BY BoostAssumption, MaxSleepAssumption DEF TypeOK, Aged, SleptOn

LEMMA ScheduleType ==
  ASSUME TypeOK, NEW ag \in [Tasks -> 0 .. Boost], NEW sl \in [Tasks -> 0 .. MaxSleep],
         ScheduleKeep(ag, sl) \/ ScheduleScan(ag, sl), sleepLeft' = sl
  PROVE  TypeOK'
<1>1. CASE ScheduleKeep(ag, sl)
  BY <1>1, BoostAssumption DEF ScheduleKeep, KeepsCpu, TypeOK
<1>2. CASE ScheduleScan(ag, sl)
  <2> DEFINE fresh == {t \in Tasks : Due(sl, t) \/ (t = current /\ state[t] = RUNNING)}
             ready == fresh \cup {t \in Tasks : state[t] = READY}
             ag2 == [t \in Tasks |-> IF t \in fresh THEN 0 ELSE ag[t]]
             next == Picked(ready, ag2)
  <2>1. ready \in SUBSET Tasks /\ ag2 \in [Tasks -> 0 .. Boost]
    BY BoostAssumption
  <2>2. next \in Tasks \cup {Idle}
    BY <2>1, PickedType
  <2>3. /\ current' = next
        /\ state' = [t \in Tasks |-> IF t = next THEN RUNNING
                                     ELSE IF t \in ready THEN READY ELSE state[t]]
        /\ age' = [t \in Tasks |-> IF t = next THEN 0 ELSE ag2[t]]
        /\ quantum' = IF next = Idle THEN 1 ELSE QuantumOf(priority[next])
        /\ UNCHANGED priority
    BY <1>2 DEF ScheduleScan
  <2> HIDE DEF ready, ag2, next
  <2>4. QED
    BY <2>1, <2>2, <2>3, BoostAssumption DEF TypeOK, QuantumOf
<1>3. QED
  BY <1>1, <1>2

\* Every variable keeps its type, the priority stays in the quantum table.
THEOREM SchedulerTypeCorrect == Spec => []TypeOK
<1>1. Init => TypeOK
  BY NAssumption, BoostAssumption, MaxSleepAssumption, BaseAssumption DEF Init, TypeOK
<1>2. TypeOK /\ [Next]_vars => TypeOK'
  <2> SUFFICES ASSUME TypeOK, [Next]_vars PROVE TypeOK'
    OBVIOUS
  <2>1. CASE Tick
    BY <2>1, ClockType, ScheduleType DEF Tick
  <2>2. CASE LocalTick
    BY <2>2, ScheduleType DEF LocalTick, TypeOK
  <2>3. CASE TimePasses
    BY <2>3, ClockType DEF TimePasses, TypeOK
  <2>4. CASE task_mark_running \/ wait_for_pid \/ \E t \in Tasks : WakeWaiter(t)
    BY <2>4 DEF task_mark_running, wait_for_pid, WakeWaiter, InUser, TypeOK
  <2>5. ASSUME NEW n \in 1 .. MaxSleep, sleep_current_task(n)
        PROVE  TypeOK'
    BY <2>5, MaxSleepAssumption DEF sleep_current_task, InUser, TypeOK
  <2>6. ASSUME NEW n \in Nices, task_set_nice(n)
        PROVE  TypeOK'
    <3>1. \A p \in Int : clamp_priority(p) \in Prios
      BY DEF clamp_priority, Prios, PRIO_IDLE, PRIO_HIGH
    <3>2. current \in Tasks /\ Base[current] \in Prios
      BY <2>6, BaseAssumption DEF task_set_nice, InUser, TypeOK
    <3>3. QED
      BY <2>6, <3>1, <3>2, NicesAssumption
      DEF task_set_nice, InUser, TypeOK, Prios, PRIO_IDLE, PRIO_HIGH
  <2>7. CASE UNCHANGED vars
    BY <2>7 DEF vars, TypeOK
  <2>8. QED
    BY <2>1, <2>2, <2>3, <2>4, <2>5, <2>6, <2>7 DEF Next, Schedule
<1>3. QED
  BY <1>1, <1>2, PTL DEF Spec

\* One scan, seen from a starved task.
LEMMA ScanApproaches ==
  ASSUME TypeOK, NEW ag \in [Tasks -> 0 .. Boost], NEW sl \in [Tasks -> 0 .. MaxSleep],
         NEW t \in Tasks, Starved(t), t # current, ag[t] = Boost,
         ScheduleScan(ag, sl)
  PROVE  current' = t \/ (current' # Idle /\ Place(current', t) < Place(current, t))
<1> DEFINE fresh == {u \in Tasks : Due(sl, u) \/ (u = current /\ state[u] = RUNNING)}
           ready == fresh \cup {u \in Tasks : state[u] = READY}
           ag2 == [u \in Tasks |-> IF u \in fresh THEN 0 ELSE ag[u]]
           next == Picked(ready, ag2)
<1>1. ready \in SUBSET Tasks /\ ag2 \in [Tasks -> 0 .. Boost]
  BY BoostAssumption
<1>2. t \in ready /\ ag2[t] = Boost
  BY DEF Starved, Due, READY, SLEEPING, RUNNING
<1>3. current' = next
  BY DEF ScheduleScan
<1> HIDE DEF ready, ag2
<1>4. EffectivePrio(ag2, t) = 4 /\ \A u \in ready : EffectivePrio(ag2, u) <= 4
  BY <1>1, <1>2, BoostAssumption DEF EffectivePrio, TypeOK, Prios, PRIO_IDLE, PRIO_HIGH
<1>5. /\ next \in ready
      /\ EffectivePrio(ag2, t) <= EffectivePrio(ag2, next)
      /\ EffectivePrio(ag2, t) = EffectivePrio(ag2, next)
           => Place(current, next) <= Place(current, t)
  BY <1>1, <1>2, PickedIsBest
<1> HIDE DEF next
<1>6. next \in Tasks /\ Place(current, next) <= Place(current, t)
  <2>1. EffectivePrio(ag2, next) = 4
    <3>1. EffectivePrio(ag2, next) \in Int
      BY <1>1, <1>5, BoostAssumption DEF EffectivePrio, TypeOK, Prios, PRIO_IDLE, PRIO_HIGH
    <3>2. QED
      BY <1>4, <1>5, <3>1
  <2>2. QED
    BY <1>1, <1>4, <1>5, <2>1
<1>7. next # t => next # Idle /\ Place(next, t) < Place(current, t)
  BY <1>6, NAssumption DEF Place, Tasks, Idle, TypeOK
<1>8. QED
  BY <1>3, <1>7

\* No task is scheduled twice before a starved one, for any number of tasks.
THEOREM AgingBoundsWaiting == Spec => OvertakenOnce
<1>1. TypeOK /\ [Next]_vars =>
        [\A t \in Tasks :
           /\ Starved(t) /\ ~ KeepsCpu /\ t # current
           /\ Schedule
           => current' = t \/ (current' # Idle /\ Place(current', t) < Place(current, t))]_vars
  <2> SUFFICES ASSUME TypeOK, NEW t \in Tasks, Starved(t), ~ KeepsCpu, t # current,
                      Schedule
               PROVE  current' = t \/ (current' # Idle /\ Place(current', t) < Place(current, t))
    OBVIOUS
  <2>1. CASE Tick
    <3>1. Aged[t] = Boost
      BY BoostAssumption DEF Aged, Starved
    <3>2. ScheduleScan(Aged, SleptOn)
      BY <2>1 DEF Tick, ScheduleKeep
    <3>3. QED
      BY <3>1, <3>2, ClockType, ScanApproaches
  <2>2. CASE LocalTick
    <3>1. ScheduleScan(age, sleepLeft)
      BY <2>2 DEF LocalTick, ScheduleKeep
    <3>2. age[t] = Boost /\ age \in [Tasks -> 0 .. Boost] /\ sleepLeft \in [Tasks -> 0 .. MaxSleep]
      BY DEF Starved, TypeOK
    <3>3. QED
      BY <3>1, <3>2, ScanApproaches
  <2>3. QED
    BY <2>1, <2>2 DEF Schedule
<1>2. QED
  BY <1>1, SchedulerTypeCorrect, PTL DEF Spec, OvertakenOnce
=============================================================================
