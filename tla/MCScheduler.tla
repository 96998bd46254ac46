---------------------------- MODULE MCScheduler ----------------------------
(***************************************************************************)
(* Three tasks of one CPU: one of PRIO_HIGH, two of PRIO_NORMAL.           *)
(***************************************************************************)
EXTENDS Scheduler

MCBase == [t \in 1 .. N |-> IF t = 1 THEN 3 ELSE 2]
MCNices == {-3}
=============================================================================
