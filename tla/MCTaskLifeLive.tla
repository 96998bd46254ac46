--------------------------- MODULE MCTaskLifeLive ---------------------------
(***************************************************************************)
(* What TaskLife owes in the end, on two instances over the same           *)
(* variables: two CPUs and three pids, where a dead task may still be on   *)
(* the other CPU; one CPU and four pids, where a task waits for a thread   *)
(* that the reaper kills with its leader.  The initial state chooses.      *)
(***************************************************************************)
EXTENDS Naturals, FiniteSets

VARIABLES
  cpus, nextPid, listed, state, cpu, pml4, threadCount, waitTarget, pc,
  current, retiring, onStack

vars == <<nextPid, listed, state, cpu, pml4, threadCount, waitTarget, pc,
          current, retiring, onStack>>

Two == INSTANCE TaskLife WITH
  Cpus <- 0 .. 1, Bsp <- 0, MaxPid <- 3, MaxKernel <- 2, Targets <- {2, 3}

One == INSTANCE TaskLife WITH
  Cpus <- {0}, Bsp <- 0, MaxPid <- 4, MaxKernel <- 1, Targets <- {3}
-----------------------------------------------------------------------------
Init ==
  \/ cpus = 2 /\ Two!Init
  \/ cpus = 1 /\ One!Init

Next ==
  /\ UNCHANGED cpus
  /\ \/ cpus = 2 /\ Two!Next
     \/ cpus = 1 /\ One!Next

(* The fairness of TaskLife, for the instance that was chosen. *)
Fairness ==
  /\ WF_vars(IF cpus = 2 THEN Two!Iret(0) ELSE One!Iret(0))
  /\ WF_vars(cpus = 2 /\ Two!Iret(1))
  /\ WF_vars(IF cpus = 2 THEN Two!exit_current_task(0) ELSE One!exit_current_task(0))
  /\ WF_vars(cpus = 2 /\ Two!exit_current_task(1))
  /\ WF_vars(IF cpus = 2 THEN Two!SwitchTo(0, 0 .. 3) ELSE One!SwitchTo(0, 0 .. 4))
  /\ WF_vars(cpus = 2 /\ Two!SwitchTo(1, 0 .. 3))
  /\ SF_vars(IF cpus = 2 THEN Two!SwitchTo(0, {1}) ELSE One!SwitchTo(0, {1}))
  /\ SF_vars(IF cpus = 2 THEN Two!task_reap_dead(0) ELSE One!task_reap_dead(0))
  /\ SF_vars(IF cpus = 2 THEN Two!ReaperPark(0) ELSE One!ReaperPark(0))

LiveSpec == Init /\ [][Next]_<<cpus, vars>> /\ Fairness
-----------------------------------------------------------------------------
(* task.c: every dead task is reclaimed, however death, ticks on both CPUs *)
(* and passes of the reaper interleave.                                    *)
Reclaimed == Two!Reclaimed

(* task.c: a wait on a task that is dead ends, also when nobody woke the   *)
(* waiter at the moment of death.  2 and 4 are the tasks that may wait for *)
(* another one, the thread 3.                                              *)
WaiterWakes ==
  \A t \in {2, 4} :
    (cpus = 1 /\ t \in listed /\ state[t] = "WAITING" /\ One!task_is_dead(state, waitTarget[t]))
      ~> (cpus = 1 => state[t] # "WAITING")
=============================================================================
