--------------------------- MODULE SchedulerTurns ---------------------------
(***************************************************************************)
(* Scheduler with a history variable: which tasks of its own priority have *)
(* been picked since a task became READY.                                  *)
(***************************************************************************)
EXTENDS MCScheduler

VARIABLE served

\* This step gives the CPU to another task, of the priority of t.
PeerPicked(t) ==
  /\ current' \notin {current, Idle, t}
  /\ priority[current'] = priority[t]

TurnsInit == Init /\ served = [t \in Tasks |-> {}]

TurnsNext ==
  /\ Next
  /\ served' = [t \in Tasks |->
                  IF state'[t] # READY \/ priority' # priority THEN {}
                  ELSE IF PeerPicked(t) THEN served[t] \cup {current'} ELSE served[t]]

TurnsSpec == TurnsInit /\ [][TurnsNext]_<<vars, served>>

\* What "priority round-robin" (documentation/scheduler-memory-plan.md:21) says
\* of tasks of the same priority: they take turns, so none is picked a second
\* time while another one stays READY.
EqualTurns ==
  [][\A t \in Tasks : state[t] = READY /\ PeerPicked(t) => current' \notin served[t]]_<<vars, served>>
=============================================================================
