------------------------------- MODULE Devices -------------------------------
(***************************************************************************)
(* The drivers side by side: a disk, a network interface, receive queues   *)
(* and interrupt routes.  Each has its own state; the initial state        *)
(* chooses the part that moves, and the others stay as they started.       *)
(* IrqRoutes is instantiated through its proof module, which extends it,   *)
(* so that its theorems can be cited for both instances.                   *)
(***************************************************************************)
EXTENDS BlockIo

CONSTANTS
  Receiving, Sending, NetSlots, MaxInits,              \* Network
  Frames, Size, Slots, IndexMod,                       \* VirtQueue, a correct device
  FaultyFrames, FaultySize, FaultySlots,               \* and one that is not
  SharedDevices, SharedIrq, SharedRoutes,              \* IrqRoutes, with routes for all
  FullDevices, FullIrq, FullRoutes                     \* and with too few

VARIABLES
  part,
  nic, device, ready, npc, ntoken, older, nservice, nnext_id,             \* Network
  inits, began, sent,
  avail_ring, available, used_ring, used_idx, consumed, outstanding,      \* VirtQueue
  data, qpc, qid, got, qonline, seen, held, writing,
  dev, routes, in_service, handler, event, owed                           \* IrqRoutes

netVars == <<nic, device, ready, npc, ntoken, older, nservice, nnext_id, inits, began, sent>>
queueVars == <<avail_ring, available, used_ring, used_idx, consumed, outstanding,
               data, qpc, qid, got, qonline, seen, held, writing>>
irqVars == <<dev, routes, in_service, handler, event, owed>>

Net == INSTANCE Network WITH
  initialized <- ready, pc <- npc, token <- ntoken, service <- nservice, next_id <- nnext_id,
  Slots <- NetSlots

(* The queue of an interface whose device keeps the protocol, and of one   *)
(* whose device may report anything.                                       *)
Honest == [faulty |-> FALSE, frames |-> Frames, size |-> Size, slots |-> Slots]
Lying ==
  [faulty |-> TRUE, frames |-> FaultyFrames, size |-> FaultySize, slots |-> FaultySlots]

Queue(q) == INSTANCE VirtQueue WITH
  pc <- qpc, id <- qid, online <- qonline, None <- Nobody,
  Faulty <- q.faulty, Frames <- q.frames, Size <- q.size, Slots <- q.slots

Shared == INSTANCE IrqRoutesProofs WITH
  service <- event, Devices <- SharedDevices, Irq <- SharedIrq, RouteCount <- SharedRoutes

Full == INSTANCE IrqRoutesProofs WITH
  service <- event, Devices <- FullDevices, Irq <- FullIrq, RouteCount <- FullRoutes

ASSUME NetAssumption == Net!NobodyAssumption /\ Net!BoundAssumption
ASSUME QueueAssumption == \A q \in {Honest, Lying} :
  Queue(q)!SizeAssumption /\ Queue(q)!IndexAssumption /\ Queue(q)!NoneAssumption
ASSUME LinesAssumption ==
  /\ Shared!RouteAssumption /\ Shared!IrqAssumption
  /\ Full!RouteAssumption /\ Full!IrqAssumption
-----------------------------------------------------------------------------
DevicesInit ==
  /\ part \in {"disk", "net", "queue", "faulty", "shared", "full"}
  /\ Init /\ Net!Init
  /\ IF part = "faulty" THEN Queue(Lying)!Init ELSE Queue(Honest)!Init
  /\ IF part = "full" THEN Full!Init ELSE Shared!Init

DevicesNext ==
  /\ UNCHANGED part
  /\ \/ part = "disk" /\ Next /\ UNCHANGED <<netVars, queueVars, irqVars>>
     \/ part = "net" /\ Net!Next /\ UNCHANGED <<vars, queueVars, irqVars>>
     \/ part = "queue" /\ Queue(Honest)!Next /\ UNCHANGED <<vars, netVars, irqVars>>
     \/ part = "faulty" /\ Queue(Lying)!Next /\ UNCHANGED <<vars, netVars, irqVars>>
     \/ part = "shared" /\ Shared!Next /\ UNCHANGED <<vars, netVars, queueVars>>
     \/ part = "full" /\ Full!Next /\ UNCHANGED <<vars, netVars, queueVars>>

DevicesSpec == DevicesInit /\ [][DevicesNext]_<<part, vars, netVars, queueVars, irqVars>>

-----------------------------------------------------------------------------
(* net.c: an answer to an earlier request is never taken for a new one's,  *)
(* buffers are not given back while the device may write them, and nobody  *)
(* who waited before a reset gets a frame from after it.                   *)
NetSafe == Net!NetSafe

(* virtio.c, net.c: the driver's counters agree across every wrap and      *)
(* whatever the device reports; with a correct device every buffer is with *)
(* one party at a time and frames reach the driver in order, each once, as *)
(* they were written (Fifo).                                               *)
QueueSafe ==
  /\ [](part = "queue" => Queue(Honest)!Safety)
  /\ [](part = "faulty" => Queue(Lying)!Safety)
  /\ part = "queue" => Queue(Honest)!Received!Init
  /\ [][part = "queue" => [Queue(Honest)!Received!Next]_(Queue(Honest)!Received!vars)]_queueVars

(* virtio_irq.c, isr.c, pic.c: a device pulls its line only while a route  *)
(* leads to it, outside the handler no line is in service, and no          *)
(* configuration change of a running device is forgotten.                  *)
RoutesSafe ==
  /\ part = "shared" => Shared!RoutesSafe
  /\ part = "full" => Full!RoutesSafe
=============================================================================
