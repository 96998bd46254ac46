----------------------------- MODULE MCDevices -----------------------------
(***************************************************************************)
(* Devices with small constants (Devices.cfg): two tasks that both receive *)
(* and send, two requests, one receive buffer and two set-ups of the       *)
(* interface; indices that wrap after two rounds of the ring, with a       *)
(* device that breaks the protocol after four.                             *)
(***************************************************************************)
EXTENDS Devices, TLC

CONSTANTS t1, t2

(* Two devices that share line 15 of the slave and have a route each; two  *)
(* devices with a line on each chip and a single route.                    *)
MCSharedIrq == <<15, 15>>
MCFullIrq == <<15, 7>>

(* Tasks are only compared. *)
Symmetric == Permutations({t1, t2})
=============================================================================
