---------------------------- MODULE MCDriverLive ----------------------------
(***************************************************************************)
(* What the network driver and the interrupt routes owe in the end,        *)
(* checked side by side.  The initial state chooses the part that moves;   *)
(* the other stays as it started, and fairness is asked of the moving part *)
(* alone.                                                                  *)
(***************************************************************************)
EXTENDS Network

VARIABLES
  part,
  dev, routes, in_service, handler, event, owed     \* IrqRoutes

irqVars == <<dev, routes, in_service, handler, event, owed>>

(* Two devices that share a line. *)
Irq == INSTANCE IrqRoutes WITH
  service <- event, Devices <- {1, 2}, Irq <- <<15, 15>>, RouteCount <- 2
-----------------------------------------------------------------------------
PartsInit == part \in {"net", "irq"} /\ Init /\ Irq!Init

PartsNext ==
  /\ UNCHANGED part
  /\ \/ part = "net" /\ Next /\ UNCHANGED irqVars
     \/ part = "irq" /\ Irq!Next /\ UNCHANGED vars

(* The fairness of Network. *)
NetFairness ==
  /\ WF_vars(part = "net" /\ ServiceWakes)
  /\ WF_vars(part = "net" /\ ServiceFirst)
  /\ SF_vars(part = "net" /\ \E ack \in BOOLEAN : ServiceSecond(ack))
  /\ WF_vars(part = "net" /\ RequestAges)
  /\ WF_vars(part = "net" /\ virtio_irq_dispatch)
  /\ \A t \in Callers : WF_vars(part = "net" /\ TaskStep(t))

(* The fairness of IrqRoutes. *)
IrqFairness ==
  /\ WF_irqVars(part = "irq" /\ Irq!Handler)
  /\ SF_irqVars(part = "irq" /\ Irq!Deliver(15))

PartsSpec == PartsInit /\ [][PartsNext]_<<part, vars, irqVars>> /\ NetFairness /\ IrqFairness
-----------------------------------------------------------------------------
(* net.c: a frame or the loss of the link wakes who waits for it, and the  *)
(* request of a task that died is taken back.                              *)
NetAnswers == FrameWakes /\ LinkLossWakes /\ OrphanFreed

(* virtio_irq.c, io_request.c: a line that is pulled is released, whoever  *)
(* shares it, and what a device reports wakes the service, unless the      *)
(* device is stopped in between.                                           *)
InterruptsServed == Irq!LineReleased /\ Irq!EventWakesService
=============================================================================
