---------------------------- MODULE MCShootdown ----------------------------
(***************************************************************************)
(* An instance of Shootdown: pages and frames are model values.  A page    *)
(* that is mapped, shared by a fork and copied takes three shootdowns;     *)
(* device and leaf sections that begin before the first of them meet it    *)
(* at each of its steps.  Shootdown.cfg lets the check of tlb_shootdown    *)
(* answer either way at every call; ShootdownCheck.cfg answers as the lock *)
(* rule of cpu/tlb.h does to a caller that holds nothing but the guard.    *)
(***************************************************************************)
EXTENDS Shootdown

CONSTANTS v1, f1, f2

(* Bound: no device or leaf section begins after the first shootdown has.  *)
SectionsEarly ==
  sequence > 0 => \A c \in Cpus : /\ dev[c] = "none" => dev'[c] = "none"
                                  /\ leaf[c] = "none" => leaf'[c] = "none"

BoundedSpec == Init /\ [][Next /\ SectionsEarly]_vars /\ Fairness
=============================================================================
