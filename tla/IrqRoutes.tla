------------------------------ MODULE IrqRoutes ------------------------------
(***************************************************************************)
(* How a virtio interrupt reaches the service task: drivers/virtio_irq.c,  *)
(* virtio_open, virtio_ready and virtio_stop of drivers/virtio.c, the PIC  *)
(* of cpu/pic.c and the hardware part of isr_handler.                      *)
(*                                                                         *)
(* PCI lines are level-triggered and shared: a line stays asserted until   *)
(* the status of every device that pulls it has been read.  The boot       *)
(* processor takes the interrupts, with interrupts off from the delivery   *)
(* to the end of the handler, while tasks on other CPUs bring devices up   *)
(* and down.  A device may ignore a reset and go on as before.             *)
(***************************************************************************)
EXTENDS Integers, FiniteSets

CONSTANTS
  Devices, Irq,    \* the devices and the line of each
  RouteCount       \* entries of routes[], 4 in the code

NoRoute == [io |-> 0, irq |-> 0, config_pending |-> FALSE]
Routes == 1 .. RouteCount
Idle == [irq |-> 0, step |-> "idle"]

RouteAssumption == RouteCount \in Nat \ {0}
IrqAssumption == Irq \in [Devices -> 0 .. 15] /\ 0 \notin Devices

VARIABLES
  dev,          \* per device: the driver's place and flags, and the registers
  routes,
  in_service,   \* the in-service bits of the two PICs, <<chip, bit>>
  handler,      \* isr_handler on the boot processor
  service,      \* the event the service task sleeps on
  owed          \* configuration changes the driver has not been told (history)

vars == <<dev, routes, in_service, handler, service, owed>>

Off == [pc |-> "off", masked |-> TRUE, irq_enabled |-> FALSE, ready |-> FALSE,
        quiet |-> TRUE, running |-> FALSE, status |-> {}]

Init ==
  /\ dev = [d \in Devices |-> Off]
  /\ routes = [i \in Routes |-> NoRoute]
  /\ in_service = {} /\ handler = Idle /\ service = FALSE
  /\ owed = [d \in Devices |-> FALSE]

Asserting(d) == ~dev[d].masked /\ dev[d].status # {}
Registered(d) == \E i \in Routes : routes[i].io = d
FreeRoutes == {i \in Routes : routes[i].io = 0}

(* pic_enable_pci_irq: lines that may be level-triggered, IRQ12 left out. *)
PciIrqs == {3, 4, 5, 6, 7, 9, 10, 11, 14, 15}

(***************************************************************************)
(* Bringing a device up and down, in the order of the code.                *)
(***************************************************************************)
At(d, pc) == dev[d].pc = pc

(* The drivers open a device again only once its reset was acknowledged.   *)
(* If the reset in virtio_open goes unacknowledged they stop the device.   *)
virtio_open(d) ==
  /\ At(d, "off")
  /\ dev' = [dev EXCEPT ![d] = [Off EXCEPT !.pc = "open"]]
  /\ UNCHANGED <<routes, in_service, handler, service, owed>>

OpenFails(d) ==
  /\ At(d, "off")
  /\ dev' = [dev EXCEPT ![d] = [Off EXCEPT !.pc = "failed"]]
  /\ UNCHANGED <<routes, in_service, handler, service, owed>>

(* virtio_ready: register, then let the interrupts through, then start. *)
Attach(d, route) ==
  \E level \in BOOLEAN :     \* whether the line can be made level-triggered
    LET ok == level /\ Irq[d] \in PciIrqs /\ ~Registered(d) /\ FreeRoutes # {} IN
    /\ At(d, "open")
    /\ dev' = [dev EXCEPT ![d].pc = "attached", ![d].irq_enabled = ok]
    /\ routes' = [i \in Routes |->
                    IF ok /\ i \in FreeRoutes /\ \A j \in FreeRoutes : j <= i THEN route ELSE routes[i]]
    /\ UNCHANGED <<in_service, handler, service, owed>>

virtio_irq_attach(d) == Attach(d, [NoRoute EXCEPT !.io = d, !.irq = Irq[d]])

\* Mutant: the interrupts are let through although nobody is registered.
ReadyUnmask_Always(d) ==
  /\ At(d, "attached")
  /\ dev' = [dev EXCEPT ![d].pc = "unmasked", ![d].quiet = ~dev[d].irq_enabled, ![d].masked = FALSE]
  /\ UNCHANGED <<routes, in_service, handler, service, owed>>

ReadyUnmask(d) ==
  /\ At(d, "attached")
  /\ dev' = [dev EXCEPT ![d].pc = "unmasked", ![d].quiet = ~dev[d].irq_enabled,
                        ![d].masked = ~dev[d].irq_enabled]
  /\ UNCHANGED <<routes, in_service, handler, service, owed>>

virtio_ready(d) ==
  /\ At(d, "unmasked")
  /\ dev' = [dev EXCEPT ![d].pc = "up", ![d].running = TRUE, ![d].ready = TRUE]
  /\ UNCHANGED <<routes, in_service, handler, service, owed>>

(* virtio_stop: mask, forget the route, reset.  It is also called when the *)
(* start fails half-way, and again for a device that is stopped already or *)
(* ignored the reset.                                                      *)
StopMask(d) ==
  /\ dev[d].pc \in {"open", "failed", "up", "off", "ignored"}
  /\ dev' = [dev EXCEPT ![d].pc = "masked", ![d].ready = FALSE, ![d].masked = TRUE]
  /\ owed' = [owed EXCEPT ![d] = FALSE]
  /\ UNCHANGED <<routes, in_service, handler, service>>

virtio_irq_detach(d) ==
  /\ At(d, "masked")
  /\ routes' = [i \in Routes |-> IF routes[i].io = d THEN NoRoute ELSE routes[i]]
  /\ dev' = [dev EXCEPT ![d].pc = "detached", ![d].irq_enabled = FALSE,
                        ![d].status = IF Registered(d) THEN {} ELSE @]
  /\ UNCHANGED <<in_service, handler, service, owed>>

StopReset(d) ==
  /\ At(d, "detached")
  /\ \/ dev' = [dev EXCEPT ![d] = Off]
     \/ dev' = [dev EXCEPT ![d].pc = "ignored"]
  /\ UNCHANGED <<routes, in_service, handler, service, owed>>

(***************************************************************************)
(* The device: a buffer is used, the configuration changes.  A command it  *)
(* got before an ignored reset still counts.                               *)
(***************************************************************************)
QueueEvent(d) ==
  /\ dev[d].running /\ ~dev[d].quiet
  /\ dev' = [dev EXCEPT ![d].status = @ \cup {"queue"}]
  /\ UNCHANGED <<routes, in_service, handler, service, owed>>

ConfigEvent(d) ==
  /\ dev[d].running
  /\ dev' = [dev EXCEPT ![d].status = @ \cup {"config"}]
  /\ owed' = [owed EXCEPT ![d] = dev[d].ready]
  /\ UNCHANGED <<routes, in_service, handler, service>>

(***************************************************************************)
(* The interrupt.                                                          *)
(***************************************************************************)
Bits(irq) == IF irq < 8 THEN {<<1, irq>>} ELSE {<<1, 2>>, <<2, irq - 8>>}

Deliver(irq) ==
  /\ handler = Idle /\ \E d \in Devices : Irq[d] = irq /\ Asserting(d)
  /\ in_service' = in_service \cup Bits(irq)
  /\ handler' = [irq |-> irq, step |-> "begin"]
  /\ UNCHANGED <<dev, routes, service, owed>>

(* A line that drops too early shows as the last line of its PIC, without  *)
(* an in-service bit there; the master's bit for the slave is real.        *)
Spurious(irq) ==
  /\ handler = Idle
  /\ in_service' = in_service \cup (IF irq = 15 THEN {<<1, 2>>} ELSE {})
  /\ handler' = [irq |-> irq, step |-> "begin"]
  /\ UNCHANGED <<dev, routes, service, owed>>

(* End of interrupt: the PIC clears the bit of its most urgent line. *)
EndOfInterrupt(bits, chip) ==
  bits \ {b \in bits : b[1] = chip /\ \A c \in bits : c[1] = chip => b[2] <= c[2]}

\* Mutant: a spurious IRQ15 is ignored altogether.
pic_begin_irq_NoCascade ==
  /\ handler.step = "begin"
  /\ IF handler.irq \in {7, 15} /\ ~(Bits(handler.irq) \subseteq in_service)
     THEN handler' = Idle /\ UNCHANGED in_service
     ELSE handler' = [handler EXCEPT !.step = "dispatch"] /\ UNCHANGED in_service
  /\ UNCHANGED <<dev, routes, service, owed>>

pic_begin_irq ==
  /\ handler.step = "begin"
  /\ IF handler.irq \in {7, 15} /\ ~(Bits(handler.irq) \subseteq in_service)
     THEN /\ handler' = Idle
          /\ in_service' = IF handler.irq = 15 THEN EndOfInterrupt(in_service, 1) ELSE in_service
     ELSE handler' = [handler EXCEPT !.step = "dispatch"] /\ UNCHANGED in_service
  /\ UNCHANGED <<dev, routes, service, owed>>

Matched == {i \in Routes : routes[i].io # 0 /\ routes[i].irq = handler.irq}

\* Mutant: only used buffers count as an event.
Claimed_QueueOnly == {i \in Matched : "queue" \in dev[routes[i].io].status}

Claimed == {i \in Matched : dev[routes[i].io].status # {}}

\* Mutant: the search ends with the first device that had something to say.
Read_First == IF Claimed = {} THEN Matched ELSE {CHOOSE i \in Claimed : \A j \in Claimed : i <= j}

(* The routes whose device is asked: all on the line. *)
Read == Matched

\* Mutant: the configuration bit is read and forgotten.
Noted_QueueOnly(i) == routes[i].config_pending

Noted(i) == routes[i].config_pending \/ "config" \in dev[routes[i].io].status

virtio_irq_dispatch ==
  /\ handler.step = "dispatch"
  /\ dev' = [d \in Devices |-> IF \E i \in Read : routes[i].io = d
                               THEN [dev[d] EXCEPT !.status = {}] ELSE dev[d]]
  /\ routes' = [i \in Routes |-> IF i \in Read THEN [routes[i] EXCEPT !.config_pending = Noted(i)]
                                 ELSE routes[i]]
  /\ service' = (service \/ Claimed # {})
  /\ handler' = [handler EXCEPT !.step = "end"]
  /\ UNCHANGED <<in_service, owed>>

pic_end_irq ==
  /\ handler.step = "end"
  /\ in_service' = IF handler.irq >= 8 THEN EndOfInterrupt(EndOfInterrupt(in_service, 2), 1)
                   ELSE EndOfInterrupt(in_service, 1)
  /\ handler' = Idle
  /\ UNCHANGED <<dev, routes, service, owed>>

(***************************************************************************)
(* The service task: it wakes, and asks each device for a new              *)
(* configuration, by its route or, without one, by its status register.    *)
(***************************************************************************)
ServiceWakes ==
  /\ service /\ service' = FALSE
  /\ UNCHANGED <<dev, routes, in_service, handler, owed>>

virtio_irq_take_config(d) ==
  /\ \E i \in Routes : routes[i].io = d /\ routes[i].config_pending
  /\ routes' = [i \in Routes |-> IF routes[i].io = d THEN [routes[i] EXCEPT !.config_pending = FALSE]
                                 ELSE routes[i]]
  /\ owed' = [owed EXCEPT ![d] = "config" \in dev[d].status]
  /\ UNCHANGED <<dev, in_service, handler, service>>

PollConfig(d) ==
  /\ dev' = [dev EXCEPT ![d].status = {}]
  /\ owed' = [owed EXCEPT ![d] = @ /\ "config" \notin dev[d].status]
  /\ UNCHANGED <<routes, in_service, handler, service>>

virtio_config_changed(d) ==
  /\ dev[d].ready
  /\ \/ dev[d].irq_enabled /\ virtio_irq_take_config(d)
     \/ ~dev[d].irq_enabled /\ PollConfig(d)

BringUp(d) == virtio_open(d) \/ OpenFails(d) \/ virtio_irq_attach(d) \/ ReadyUnmask(d) \/ virtio_ready(d)
TakeDown(d) == StopMask(d) \/ virtio_irq_detach(d) \/ StopReset(d)
Handler == pic_begin_irq \/ virtio_irq_dispatch \/ pic_end_irq
Lines == {Irq[d] : d \in Devices}

Next ==
  \/ \E d \in Devices : BringUp(d) \/ TakeDown(d) \/ QueueEvent(d) \/ ConfigEvent(d)
                        \/ virtio_config_changed(d)
  \/ \E irq \in Lines : Deliver(irq)
  \/ \E irq \in {7, 15} : Spurious(irq)
  \/ Handler
  \/ ServiceWakes

(* The processor runs a handler to its end, and takes the interrupt of a   *)
(* line that stays asserted although others come in between.               *)
Fairness == WF_vars(Handler) /\ \A irq \in Lines : SF_vars(Deliver(irq))

Spec == Init /\ [][Next]_vars /\ Fairness

(***************************************************************************)
(* Properties                                                              *)
(***************************************************************************)
(* Type invariant: places, flags and registers of the devices, the entries *)
(* of the table, the in-service bits and the steps of a handler.           *)
Places == {"off", "open", "failed", "attached", "unmasked", "up", "masked", "detached", "ignored"}

DriverStates == [pc : Places, masked : BOOLEAN, irq_enabled : BOOLEAN, ready : BOOLEAN,
                 quiet : BOOLEAN, running : BOOLEAN, status : SUBSET {"queue", "config"}]
RouteStates == [io : Devices \cup {0}, irq : 0 .. 15, config_pending : BOOLEAN]

TypeOK ==
  /\ dev \in [Devices -> DriverStates] /\ routes \in [Routes -> RouteStates]
  /\ in_service \subseteq (1 .. 2) \X (0 .. 7)
  /\ handler \in [irq : 0 .. 15, step : {"idle", "begin", "dispatch", "end"}]
  /\ service \in BOOLEAN /\ owed \in [Devices -> BOOLEAN]

(* A device pulls its line only while a route leads to it, from the first  *)
(* interrupt to the last, also when the table was full or a reset ignored: *)
(* otherwise nothing would ever release the line and the processor would   *)
(* do nothing but take that interrupt.                                     *)
NoOrphanInterrupt == \A d \in Devices : Asserting(d) => Registered(d)

(* Outside the handler no line counts as being in service, spurious        *)
(* interrupts of both PICs included: a bit left behind blocks its line and *)
(* all less urgent ones for good.                                          *)
NothingInService == handler = Idle => in_service = {}

(* A configuration change of a running device is in its register or noted  *)
(* in its route until the driver asks: the interrupt acknowledges both     *)
(* events of a device, and reads other devices on the line.                *)
ConfigKept ==
  \A d \in Devices : owed[d] =>
    "config" \in dev[d].status \/ \E i \in Routes : routes[i].io = d /\ routes[i].config_pending

(* A line that is pulled is released, whoever shares it. *)
LineReleased == \A d \in Devices : Asserting(d) ~> ~Asserting(d)

(* What a device reports wakes the service, unless the device is stopped   *)
(* in between.                                                             *)
EventWakesService == \A d \in Devices : Asserting(d) ~> (service \/ ~dev[d].ready)

(* The safety invariants together: lines, routes, in-service bits and      *)
(* configuration events agree.                                             *)
RoutesSafe ==
  /\ TypeOK
  /\ NoOrphanInterrupt
  /\ NothingInService
  /\ ConfigKept
==============================================================================
