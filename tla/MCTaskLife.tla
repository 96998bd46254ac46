----------------------------- MODULE MCTaskLife -----------------------------
(***************************************************************************)
(* Two CPUs; the reaper, the shell and the tasks they start.               *)
(***************************************************************************)
EXTENDS TaskLife

MCCpus == 0 .. 1
MCOneCpu == {0}
=============================================================================
