--------------------------- MODULE IrqRoutesProofs ---------------------------
(***************************************************************************)
(* Theorems about IrqRoutes for any number of devices on any lines and any *)
(* size of the route table.                                                *)
(***************************************************************************)
EXTENDS IrqRoutes, WellFoundedInduction, TLAPS

\* A device is let through only while it is in the table, and what it is
\* owed only while it is up.
DriverInv ==
  \A d \in Devices :
    /\ dev[d].irq_enabled => Registered(d) /\ dev[d].pc \in {"attached", "unmasked", "up", "masked"}
    /\ ~dev[d].masked => dev[d].irq_enabled /\ dev[d].pc \in {"unmasked", "up"}
    /\ dev[d].ready => dev[d].pc = "up"
    /\ owed[d] => dev[d].ready

\* The bits in service are those of the interrupt in the handler; a spurious
\* one has none of its own, and the cascade's if it came from the slave.
ServiceInv ==
  CASE handler.step = "idle" -> in_service = {}
    [] handler.step = "begin" ->
         \/ in_service = Bits(handler.irq)
         \/ handler.irq = 7 /\ in_service = {}
         \/ handler.irq = 15 /\ in_service = {<<1, 2>>}
    [] OTHER -> in_service = Bits(handler.irq)

IInv == TypeOK /\ DriverInv /\ ServiceInv /\ ConfigKept

-----------------------------------------------------------------------------
\* A nonempty set of entries has a last one.
LEMMA LastEntry ==
  ASSUME RouteAssumption, NEW S \in SUBSET Routes, S # {}
  PROVE  \E i \in S : \A j \in S : j <= i
<1> DEFINE T == {RouteCount - i : i \in S}
<1>1. T \in SUBSET Nat /\ T # {}
  <2>1. \A i \in S : i \in Nat /\ i <= RouteCount
    BY RouteAssumption DEF RouteAssumption, Routes
  <2>2. RouteCount \in Nat
    BY RouteAssumption DEF RouteAssumption
  <2>3. \A i \in S : RouteCount - i \in Nat
    BY <2>1, <2>2
  <2>4. QED
    BY <2>3
<1> HIDE DEF T
<1>2. PICK x \in T : \A y \in T : ~ (<<y, x>> \in OpToRel(<, Nat))
  BY <1>1, NatLessThanWellFounded, WFMin
<1>3. \A y \in T : ~ (y < x)
  BY <1>1, <1>2 DEF OpToRel
<1>4. PICK i \in S : x = RouteCount - i
  BY DEF T
<1>5. \A j \in S : ~ (RouteCount - j < RouteCount - i)
  BY <1>3, <1>4 DEF T
<1>6. QED
  BY <1>5, RouteAssumption DEF RouteAssumption, Routes

\* The end of interrupt clears what an interrupt had set.
LEMMA EndClears ==
  ASSUME NEW irq \in 0 .. 15
  PROVE  /\ irq < 8 => EndOfInterrupt(Bits(irq), 1) = {}
         /\ irq >= 8 => EndOfInterrupt(EndOfInterrupt(Bits(irq), 2), 1) = {}
         /\ EndOfInterrupt({<<1, 2>>}, 1) = {}
<1>1. \A b \in 0 .. 7 : EndOfInterrupt({<<1, b>>}, 1) = {}
  <2> TAKE b \in 0 .. 7
  <2>1. <<1, b>>[1] = 1 /\ <<1, b>>[2] <= <<1, b>>[2]
    OBVIOUS
  <2>2. QED
    BY <2>1 DEF EndOfInterrupt
<1>2. \A b \in 0 .. 7 : EndOfInterrupt({<<1, 2>>, <<2, b>>}, 2) = {<<1, 2>>}
  <2> TAKE b \in 0 .. 7
  <2>1. <<1, 2>>[1] = 1 /\ <<2, b>>[1] = 2 /\ <<2, b>>[2] <= <<2, b>>[2]
    OBVIOUS
  <2>2. QED
    BY <2>1 DEF EndOfInterrupt
<1>3. ASSUME irq < 8 PROVE EndOfInterrupt(Bits(irq), 1) = {}
  <2>1. irq \in 0 .. 7 /\ Bits(irq) = {<<1, irq>>}
    BY <1>3 DEF Bits
  <2>2. QED
    BY <1>1, <2>1
<1>4. ASSUME irq >= 8 PROVE EndOfInterrupt(EndOfInterrupt(Bits(irq), 2), 1) = {}
  <2>1. irq - 8 \in 0 .. 7 /\ Bits(irq) = {<<1, 2>>, <<2, irq - 8>>}
    BY <1>4 DEF Bits
  <2>2. EndOfInterrupt(Bits(irq), 2) = {<<1, 2>>}
    BY <1>2, <2>1
  <2>3. QED
    BY <1>1, <2>2
<1>5. QED
  BY <1>1, <1>3, <1>4

\* A device and an entry that are reset.
LEMMA OffTyped == Off \in DriverStates /\ NoRoute \in RouteStates
BY DEF Off, DriverStates, Places, NoRoute, RouteStates

LEMMA InitIInv ==
  ASSUME RouteAssumption, IrqAssumption, Init
  PROVE  IInv
<1>1. TypeOK
  <2>1. Off \in DriverStates /\ NoRoute \in RouteStates
    BY OffTyped
  <2>2. dev \in [Devices -> DriverStates] /\ routes \in [Routes -> RouteStates]
    BY <2>1 DEF Init
  <2>3. handler \in [irq : 0 .. 15, step : {"idle", "begin", "dispatch", "end"}]
    BY DEF Init, Idle
  <2>4. in_service \subseteq (1 .. 2) \X (0 .. 7) /\ service \in BOOLEAN /\ owed \in [Devices -> BOOLEAN]
    BY DEF Init
  <2>5. QED
    BY <2>2, <2>3, <2>4 DEF TypeOK
<1>2. DriverInv /\ ServiceInv /\ ConfigKept
  BY DEF Init, DriverInv, ServiceInv, ConfigKept, Off, Idle
<1>3. QED
  BY <1>1, <1>2 DEF IInv

-----------------------------------------------------------------------------
(***************************************************************************)
(* Each step keeps IInv.                                                   *)
(***************************************************************************)
LEMMA BringUpKeeps ==
  ASSUME RouteAssumption, IrqAssumption, IInv, NEW d \in Devices, BringUp(d)
  PROVE  IInv'
<1> USE DEF IInv
<1>1. CASE virtio_open(d)
  <2> USE <1>1 DEF virtio_open, At
  <2>1. TypeOK' BY OffTyped DEF TypeOK, DriverStates, Places
  <2>2. DriverInv' BY DEF TypeOK, DriverInv, Registered, Off
  <2>3. ServiceInv' BY DEF ServiceInv
  <2>4. ConfigKept' BY DEF TypeOK, DriverInv, ConfigKept
  <2>5. QED BY <2>1, <2>2, <2>3, <2>4
<1>2. CASE OpenFails(d)
  <2> USE <1>2 DEF OpenFails, At
  <2>1. TypeOK' BY OffTyped DEF TypeOK, DriverStates, Places
  <2>2. DriverInv' BY DEF TypeOK, DriverInv, Registered, Off
  <2>3. ServiceInv' BY DEF ServiceInv
  <2>4. ConfigKept' BY DEF TypeOK, DriverInv, ConfigKept
  <2>5. QED BY <2>1, <2>2, <2>3, <2>4
<1>3. CASE virtio_irq_attach(d)
  <2> DEFINE route == [NoRoute EXCEPT !.io = d, !.irq = Irq[d]]
  <2>0. route.io = d
    BY DEF NoRoute
  <2>1. route \in RouteStates
    BY IrqAssumption DEF IrqAssumption, NoRoute, RouteStates
  <2> HIDE DEF route
  <2>2. PICK level \in BOOLEAN :
          LET ok == level /\ Irq[d] \in PciIrqs /\ ~Registered(d) /\ FreeRoutes # {} IN
          /\ At(d, "open")
          /\ dev' = [dev EXCEPT ![d].pc = "attached", ![d].irq_enabled = ok]
          /\ routes' = [i \in Routes |->
                    IF ok /\ i \in FreeRoutes /\ \A j \in FreeRoutes : j <= i THEN route ELSE routes[i]]
          /\ UNCHANGED <<in_service, handler, service, owed>>
    BY <1>3 DEF virtio_irq_attach, Attach, route
  <2> DEFINE ok == level /\ Irq[d] \in PciIrqs /\ ~Registered(d) /\ FreeRoutes # {}
  <2>3. ok \in BOOLEAN
    BY DEF Registered
  <2>4. FreeRoutes \in SUBSET Routes
    BY DEF FreeRoutes
  <2>5. ok => \E i \in FreeRoutes : \A j \in FreeRoutes : j <= i
    BY <2>4, LastEntry
  <2> HIDE DEF ok
  <2>6. /\ At(d, "open")
        /\ dev' = [dev EXCEPT ![d].pc = "attached", ![d].irq_enabled = ok]
        /\ routes' = [i \in Routes |->
                    IF ok /\ i \in FreeRoutes /\ \A j \in FreeRoutes : j <= i THEN route ELSE routes[i]]
        /\ UNCHANGED <<in_service, handler, service, owed>>
    BY <2>2 DEF ok
  <2>7. TypeOK'
    <3> DEFINE r == [dev[d] EXCEPT !.pc = "attached", !.irq_enabled = ok]
    <3>0. r \in DriverStates
      <4>1. dev[d] \in DriverStates BY DEF TypeOK
      <4>2. QED BY <2>3, <4>1 DEF DriverStates, Places
    <3>1. dev' \in [Devices -> DriverStates]
      <4>1. dev' = [dev EXCEPT ![d] = r] BY <2>6
      <4>2. QED BY <3>0, <4>1 DEF TypeOK
    <3>2. routes' \in [Routes -> RouteStates]
      BY <2>1, <2>6 DEF TypeOK
    <3>3. QED BY <2>6, <3>1, <3>2 DEF TypeOK
  <2>8. \A e \in Devices : Registered(e) => Registered(e)'
    <3> TAKE e \in Devices
    <3>1. ASSUME Registered(e) PROVE Registered(e)'
      <4>1. PICK i \in Routes : routes[i].io = e
        BY <3>1 DEF Registered
      <4>2. i \notin FreeRoutes
        BY <4>1, IrqAssumption DEF FreeRoutes, IrqAssumption
      <4>3. routes'[i] = routes[i]
        BY <2>6, <4>2
      <4>4. QED BY <4>1, <4>3 DEF Registered
    <3>2. QED BY <3>1
  <2>9. ok => Registered(d)'
    <3>1. ASSUME ok PROVE Registered(d)'
      <4>1. PICK i \in FreeRoutes : \A j \in FreeRoutes : j <= i
        BY <3>1, <2>5
      <4>2. routes'[i] = route
        BY <2>4, <2>6, <3>1, <4>1
      <4>3. QED BY <2>0, <2>4, <4>2 DEF Registered
    <3>2. QED BY <3>1
  <2>10. DriverInv'
    <3> SUFFICES ASSUME NEW e \in Devices
                 PROVE  /\ dev'[e].irq_enabled => Registered(e)' /\ dev'[e].pc \in {"attached", "unmasked", "up", "masked"}
                        /\ ~dev'[e].masked => dev'[e].irq_enabled /\ dev'[e].pc \in {"unmasked", "up"}
                        /\ dev'[e].ready => dev'[e].pc = "up"
                        /\ owed'[e] => dev'[e].ready
      BY DEF DriverInv
    <3>1. CASE e = d
      BY <2>3, <2>6, <2>9, <3>1 DEF DriverInv, TypeOK, At
    <3>2. CASE e # d
      BY <2>6, <2>8, <3>2 DEF DriverInv, TypeOK
    <3>3. QED BY <3>1, <3>2
  <2>11. ServiceInv'
    BY <2>6 DEF ServiceInv
  <2>12. ConfigKept'
    <3> SUFFICES ASSUME NEW e \in Devices, owed[e], "config" \notin dev[e].status
                 PROVE  \E i \in Routes : routes'[i].io = e /\ routes'[i].config_pending
      BY <2>6 DEF ConfigKept, TypeOK
    <3>1. PICK i \in Routes : routes[i].io = e /\ routes[i].config_pending
      BY DEF ConfigKept
    <3>2. i \notin FreeRoutes
      BY <3>1, IrqAssumption DEF FreeRoutes, IrqAssumption
    <3>3. routes'[i] = routes[i]
      BY <2>6, <3>2
    <3>4. QED BY <3>1, <3>3
  <2>13. QED BY <2>7, <2>10, <2>11, <2>12
<1>4. CASE ReadyUnmask(d)
  <2> USE <1>4 DEF ReadyUnmask, At
  <2>1. TypeOK'
    <3> DEFINE r == [dev[d] EXCEPT !.pc = "unmasked", !.quiet = ~dev[d].irq_enabled,
                              !.masked = ~dev[d].irq_enabled]
    <3>1. dev[d] \in DriverStates BY DEF TypeOK
    <3>2. r \in DriverStates BY <3>1 DEF DriverStates, Places
    <3>3. dev' = [dev EXCEPT ![d] = r] OBVIOUS
    <3>4. QED BY <3>2, <3>3 DEF TypeOK
  <2>2. DriverInv'
    <3>1. \A e \in Devices : Registered(e)' <=> Registered(e) BY DEF Registered
    <3>2. dev[d].irq_enabled \in BOOLEAN BY DEF TypeOK, DriverStates
    <3> SUFFICES ASSUME NEW e \in Devices
                 PROVE  /\ dev'[e].irq_enabled => Registered(e) /\ dev'[e].pc \in {"attached", "unmasked", "up", "masked"}
                        /\ ~dev'[e].masked => dev'[e].irq_enabled /\ dev'[e].pc \in {"unmasked", "up"}
                        /\ dev'[e].ready => dev'[e].pc = "up"
                        /\ owed[e] => dev'[e].ready
      BY <3>1 DEF DriverInv
    <3>3. CASE e = d
      <4>1. /\ dev'[e].irq_enabled = dev[d].irq_enabled /\ dev'[e].pc = "unmasked"
            /\ dev'[e].masked = ~dev[d].irq_enabled /\ dev'[e].ready = dev[d].ready
        BY <3>3 DEF TypeOK, DriverStates
      <4>2. ~dev[d].ready /\ ~owed[d] /\ (dev[d].irq_enabled => Registered(d))
        BY DEF DriverInv
      <4>3. QED BY <3>2, <3>3, <4>1, <4>2
    <3>4. CASE e # d
      <4>1. dev'[e] = dev[e] BY <3>4 DEF TypeOK
      <4>2. QED BY <4>1 DEF DriverInv
    <3>5. QED BY <3>3, <3>4
  <2>3. ServiceInv' BY DEF ServiceInv
  <2>4. ConfigKept' BY DEF TypeOK, ConfigKept
  <2>5. QED BY <2>1, <2>2, <2>3, <2>4
<1>5. CASE virtio_ready(d)
  <2> USE <1>5 DEF virtio_ready, At
  <2>1. TypeOK'
    <3> DEFINE r == [dev[d] EXCEPT !.pc = "up", !.running = TRUE, !.ready = TRUE]
    <3>1. dev[d] \in DriverStates BY DEF TypeOK
    <3>2. r \in DriverStates BY <3>1 DEF DriverStates, Places
    <3>3. dev' = [dev EXCEPT ![d] = r] OBVIOUS
    <3>4. QED BY <3>2, <3>3 DEF TypeOK
  <2>2. DriverInv' BY DEF TypeOK, DriverInv, Registered
  <2>3. ServiceInv' BY DEF ServiceInv
  <2>4. ConfigKept' BY DEF TypeOK, ConfigKept
  <2>5. QED BY <2>1, <2>2, <2>3, <2>4
<1>6. QED
  BY <1>1, <1>2, <1>3, <1>4, <1>5 DEF BringUp

LEMMA TakeDownKeeps ==
  ASSUME RouteAssumption, IrqAssumption, IInv, NEW d \in Devices, TakeDown(d)
  PROVE  IInv'
<1> USE DEF IInv
<1>0. dev[d] \in DriverStates
  BY DEF TypeOK
<1>1. CASE StopMask(d)
  <2> USE <1>1 DEF StopMask
  <2>1. TypeOK'
    <3> DEFINE r == [dev[d] EXCEPT !.pc = "masked", !.ready = FALSE, !.masked = TRUE]
    <3>1. r \in DriverStates BY <1>0 DEF DriverStates, Places
    <3>2. dev' = [dev EXCEPT ![d] = r] OBVIOUS
    <3>3. QED BY <3>1, <3>2 DEF TypeOK
  <2>2. DriverInv' BY DEF TypeOK, DriverInv, Registered
  <2>3. ServiceInv' BY DEF ServiceInv
  <2>4. ConfigKept' BY DEF TypeOK, ConfigKept
  <2>5. QED BY <2>1, <2>2, <2>3, <2>4
<1>2. CASE virtio_irq_detach(d)
  <2> USE <1>2 DEF virtio_irq_detach, At
  <2>1. TypeOK'
    <3> DEFINE r == [dev[d] EXCEPT !.pc = "detached", !.irq_enabled = FALSE,
                                   !.status = IF Registered(d) THEN {} ELSE @]
    <3>1. r \in DriverStates BY <1>0 DEF DriverStates, Places
    <3>2. dev' = [dev EXCEPT ![d] = r] OBVIOUS
    <3>3. routes' \in [Routes -> RouteStates] BY OffTyped DEF TypeOK
    <3>4. QED BY <3>1, <3>2, <3>3 DEF TypeOK
  <2>2. \A e \in Devices : e # d => (Registered(e) <=> Registered(e)')
    BY IrqAssumption DEF Registered, NoRoute, IrqAssumption
  <2>3. DriverInv' BY <2>2 DEF TypeOK, DriverInv
  <2>4. ServiceInv' BY DEF ServiceInv
  <2>5. ConfigKept'
    <3> SUFFICES ASSUME NEW e \in Devices, owed[e], "config" \notin dev'[e].status
                 PROVE  \E i \in Routes : routes'[i].io = e /\ routes'[i].config_pending
      BY DEF ConfigKept
    <3>1. e # d
      BY DEF DriverInv
    <3>2. PICK i \in Routes : routes[i].io = e /\ routes[i].config_pending
      BY <3>1 DEF ConfigKept, TypeOK
    <3>3. QED BY <3>1, <3>2
  <2>6. QED BY <2>1, <2>3, <2>4, <2>5
<1>3. CASE StopReset(d)
  <2> USE <1>3 DEF StopReset, At
  <2> DEFINE r == [dev[d] EXCEPT !.pc = "ignored"]
  <2>1. r \in DriverStates BY <1>0 DEF DriverStates, Places
  <2>2. dev' = [dev EXCEPT ![d] = Off] \/ dev' = [dev EXCEPT ![d] = r] OBVIOUS
  <2>3. TypeOK' BY <2>1, <2>2, OffTyped DEF TypeOK
  <2>4. DriverInv'
    <3>1. \A e \in Devices : Registered(e)' <=> Registered(e) BY DEF Registered
    <3>2. ~owed[d] /\ ~dev[d].ready /\ ~dev[d].irq_enabled /\ dev[d].masked BY DEF DriverInv, TypeOK
    <3> SUFFICES ASSUME NEW e \in Devices
                 PROVE  /\ dev'[e].irq_enabled => Registered(e) /\ dev'[e].pc \in {"attached", "unmasked", "up", "masked"}
                        /\ ~dev'[e].masked => dev'[e].irq_enabled /\ dev'[e].pc \in {"unmasked", "up"}
                        /\ dev'[e].ready => dev'[e].pc = "up"
                        /\ owed[e] => dev'[e].ready
      BY <3>1 DEF DriverInv
    <3>3. CASE e = d
      <4>1. dev'[d] = Off \/ dev'[d] = r BY <2>2 DEF TypeOK
      <4>2. r.irq_enabled = FALSE /\ r.masked = TRUE /\ r.ready = FALSE
        BY <3>2, <1>0 DEF DriverStates
      <4>3. Off.irq_enabled = FALSE /\ Off.masked = TRUE /\ Off.ready = FALSE
        BY DEF Off
      <4> HIDE DEF r
      <4>4. QED BY <3>2, <3>3, <4>1, <4>2, <4>3
    <3>4. CASE e # d
      <4>1. dev'[e] = dev[e] BY <3>4 DEF TypeOK
      <4>2. QED BY <4>1 DEF DriverInv
    <3>5. QED BY <3>3, <3>4
  <2>5. ServiceInv' BY DEF ServiceInv
  <2>6. ConfigKept' BY DEF TypeOK, DriverInv, ConfigKept
  <2>7. QED BY <2>3, <2>4, <2>5, <2>6
<1>4. QED
  BY <1>1, <1>2, <1>3 DEF TakeDown

\* The device and the service leave the places of the drivers alone.
LEMMA DeviceKeeps ==
  ASSUME RouteAssumption, IrqAssumption, IInv, NEW d \in Devices,
         QueueEvent(d) \/ ConfigEvent(d) \/ virtio_config_changed(d)
  PROVE  IInv'
<1> USE DEF IInv
<1>0. dev[d] \in DriverStates
  BY DEF TypeOK
<1>1. CASE QueueEvent(d)
  <2> USE <1>1 DEF QueueEvent
  <2> DEFINE r == [dev[d] EXCEPT !.status = @ \cup {"queue"}]
  <2>1. r \in DriverStates BY <1>0 DEF DriverStates
  <2>2. dev' = [dev EXCEPT ![d] = r] OBVIOUS
  <2>3. TypeOK' BY <2>1, <2>2 DEF TypeOK
  <2>4. \A e \in Devices : Registered(e)' <=> Registered(e) BY DEF Registered
  <2>5. DriverInv' BY <2>4 DEF TypeOK, DriverInv
  <2>6. ServiceInv' BY DEF ServiceInv
  <2>7. ConfigKept' BY DEF TypeOK, ConfigKept
  <2>8. QED BY <2>3, <2>5, <2>6, <2>7
<1>2. CASE ConfigEvent(d)
  <2> USE <1>2 DEF ConfigEvent
  <2> DEFINE r == [dev[d] EXCEPT !.status = @ \cup {"config"}]
  <2>1. r \in DriverStates BY <1>0 DEF DriverStates
  <2>2. dev' = [dev EXCEPT ![d] = r] OBVIOUS
  <2>3. TypeOK' BY <1>0, <2>1, <2>2 DEF TypeOK, DriverStates
  <2>4. \A e \in Devices : Registered(e)' <=> Registered(e) BY DEF Registered
  <2>5. DriverInv' BY <2>4 DEF TypeOK, DriverInv
  <2>6. ServiceInv' BY DEF ServiceInv
  <2>7. ConfigKept' BY DEF TypeOK, ConfigKept
  <2>8. QED BY <2>3, <2>5, <2>6, <2>7
<1>3. CASE dev[d].ready /\ virtio_irq_take_config(d)
  <2> USE <1>3 DEF virtio_irq_take_config
  <2>1. TypeOK'
    <3>1. \A i \in Routes : [routes[i] EXCEPT !.config_pending = FALSE] \in RouteStates
      <4> TAKE i \in Routes
      <4>1. routes[i] \in RouteStates BY DEF TypeOK
      <4>2. QED BY <4>1 DEF RouteStates
    <3>2. routes' \in [Routes -> RouteStates] BY <3>1 DEF TypeOK
    <3>3. owed' \in [Devices -> BOOLEAN] BY DEF TypeOK
    <3>4. QED BY <3>2, <3>3 DEF TypeOK
  <2>2. \A e \in Devices : Registered(e)' <=> Registered(e) BY DEF Registered, TypeOK, RouteStates
  <2>3. DriverInv' BY <2>2 DEF TypeOK, DriverInv
  <2>4. ServiceInv' BY DEF ServiceInv
  <2>5. ConfigKept'
    <3> SUFFICES ASSUME NEW e \in Devices, owed'[e], "config" \notin dev[e].status
                 PROVE  \E i \in Routes : routes'[i].io = e /\ routes'[i].config_pending
      BY DEF ConfigKept
    <3>1. e # d /\ owed[e] BY DEF TypeOK
    <3>2. PICK i \in Routes : routes[i].io = e /\ routes[i].config_pending
      BY <3>1 DEF ConfigKept
    <3>3. QED BY <3>1, <3>2
  <2>6. QED BY <2>1, <2>3, <2>4, <2>5
<1>4. CASE dev[d].ready /\ PollConfig(d)
  <2> USE <1>4 DEF PollConfig
  <2> DEFINE r == [dev[d] EXCEPT !.status = {}]
  <2>1. r \in DriverStates BY <1>0 DEF DriverStates
  <2>2. dev' = [dev EXCEPT ![d] = r] OBVIOUS
  <2>3. TypeOK' BY <2>1, <2>2 DEF TypeOK
  <2>4. \A e \in Devices : Registered(e)' <=> Registered(e) BY DEF Registered
  <2>5. DriverInv' BY <2>4 DEF TypeOK, DriverInv
  <2>6. ServiceInv' BY DEF ServiceInv
  <2>7. ConfigKept' BY DEF TypeOK, ConfigKept
  <2>8. QED BY <2>3, <2>5, <2>6, <2>7
<1>5. QED
  BY <1>1, <1>2, <1>3, <1>4 DEF virtio_config_changed

LEMMA HandlerKeeps ==
  ASSUME RouteAssumption, IrqAssumption, IInv,
         \/ \E irq \in Lines : Deliver(irq)
         \/ \E irq \in {7, 15} : Spurious(irq)
         \/ pic_begin_irq \/ pic_end_irq
  PROVE  IInv'
<1> USE DEF IInv
<1>1. \A irq \in 0 .. 15 : Bits(irq) \subseteq (1 .. 2) \X (0 .. 7)
  BY DEF Bits
<1>2. UNCHANGED <<dev, routes, service, owed>>
  BY DEF Deliver, Spurious, pic_begin_irq, pic_end_irq
<1>3. \A e \in Devices : Registered(e)' <=> Registered(e)
  BY <1>2 DEF Registered
<1>4. DriverInv'
  BY <1>2, <1>3 DEF DriverInv
<1>5. ConfigKept'
  BY <1>2 DEF ConfigKept
<1>6. ASSUME NEW irq \in Lines, Deliver(irq) PROVE TypeOK' /\ ServiceInv'
  <2>1. irq \in 0 .. 15
    BY IrqAssumption DEF Lines, IrqAssumption
  <2>2. in_service = {}
    BY <1>6 DEF Deliver, ServiceInv, Idle
  <2>3. in_service' = Bits(irq) /\ handler' = [irq |-> irq, step |-> "begin"]
    BY <1>6, <2>2 DEF Deliver
  <2>4. TypeOK'
    BY <1>1, <1>2, <2>1, <2>3 DEF TypeOK
  <2>5. QED
    BY <2>3, <2>4 DEF ServiceInv
<1>7. ASSUME NEW irq \in {7, 15}, Spurious(irq) PROVE TypeOK' /\ ServiceInv'
  <2>1. in_service = {}
    BY <1>7 DEF Spurious, ServiceInv, Idle
  <2>2. in_service' = (IF irq = 15 THEN {<<1, 2>>} ELSE {}) /\ handler' = [irq |-> irq, step |-> "begin"]
    BY <1>7, <2>1 DEF Spurious
  <2>3. TypeOK'
    BY <1>2, <2>2 DEF TypeOK
  <2>4. QED
    BY <2>2, <2>3 DEF ServiceInv
<1>8. handler.irq \in 0 .. 15
  BY DEF TypeOK
<1>9. CASE pic_begin_irq
  <2> USE <1>9 DEF pic_begin_irq
  <2>1. CASE handler.irq \in {7, 15} /\ ~(Bits(handler.irq) \subseteq in_service)
    <3>1. in_service' = {}
      BY <2>1, EndClears DEF ServiceInv
    <3>2. handler' = Idle
      BY <2>1
    <3>3. handler'.step = "idle" /\ handler' \in [irq : 0 .. 15, step : {"idle", "begin", "dispatch", "end"}]
      BY <3>2 DEF Idle
    <3>4. TypeOK'
      BY <1>2, <3>1, <3>3 DEF TypeOK
    <3>5. QED
      BY <1>4, <1>5, <3>1, <3>3, <3>4 DEF ServiceInv
  <2>2. CASE ~(handler.irq \in {7, 15} /\ ~(Bits(handler.irq) \subseteq in_service))
    <3>1. in_service = Bits(handler.irq)
      <4>1. CASE handler.irq = 7 /\ in_service = {}
        BY <2>2, <4>1 DEF Bits
      <4>2. CASE handler.irq = 15 /\ in_service = {<<1, 2>>}
        BY <2>2, <4>2 DEF Bits
      <4>3. QED
        BY <4>1, <4>2 DEF ServiceInv
    <3>2. handler' = [handler EXCEPT !.step = "dispatch"] /\ UNCHANGED in_service
      BY <2>2
    <3>3. TypeOK'
      BY <1>2, <3>2 DEF TypeOK
    <3>4. handler'.irq = handler.irq /\ handler'.step = "dispatch"
      BY <3>2 DEF TypeOK
    <3>5. QED
      <4>1. Bits(handler'.irq) = Bits(handler.irq)
        BY <3>4
      <4>2. in_service' = Bits(handler'.irq)
        BY <3>1, <3>2, <4>1
      <4>3. ServiceInv'
        BY <3>4, <4>2 DEF ServiceInv
      <4>4. QED BY <1>4, <1>5, <3>3, <4>3
  <2>3. QED
    BY <2>1, <2>2
<1>10. CASE pic_end_irq
  <2> USE <1>10 DEF pic_end_irq
  <2>1. in_service = Bits(handler.irq)
    BY DEF ServiceInv
  <2>2. in_service' = {}
    BY <1>8, <2>1, EndClears
  <2>3. handler'.step = "idle" /\ handler' \in [irq : 0 .. 15, step : {"idle", "begin", "dispatch", "end"}]
    BY DEF Idle
  <2>4. TypeOK'
    BY <1>2, <2>2, <2>3 DEF TypeOK
  <2>5. QED
    BY <1>4, <1>5, <2>2, <2>3, <2>4 DEF ServiceInv
<1>11. QED
  BY <1>4, <1>5, <1>6, <1>7, <1>9, <1>10

\* Reading the status of a device keeps its configuration event, in the entry.
LEMMA DispatchKeeps ==
  ASSUME RouteAssumption, IrqAssumption, IInv, virtio_irq_dispatch
  PROVE  IInv'
<1> USE DEF IInv, virtio_irq_dispatch
<1>1. Read \subseteq Routes /\ \A i \in Read : routes[i].io \in Devices
  BY DEF Read, Matched, TypeOK, RouteStates
<1>2. \A e \in Devices : /\ dev'[e] = [dev[e] EXCEPT !.status = {}] \/ dev'[e] = dev[e]
                         /\ dev'[e].status = IF \E i \in Read : routes[i].io = e THEN {} ELSE dev[e].status
  BY DEF TypeOK, DriverStates
<1>3. \A e \in Devices : dev'[e] \in DriverStates
  BY <1>2 DEF TypeOK, DriverStates
<1>4. \A i \in Routes : /\ routes'[i] \in RouteStates /\ routes'[i].io = routes[i].io
                        /\ routes'[i].config_pending = (routes[i].config_pending \/ (i \in Read /\ Noted(i)))
  BY <1>1 DEF TypeOK, RouteStates, Noted
<1>5. TypeOK'
  <2>1. dev' \in [Devices -> DriverStates] /\ routes' \in [Routes -> RouteStates]
    BY <1>3, <1>4
  <2>2. handler' \in [irq : 0 .. 15, step : {"idle", "begin", "dispatch", "end"}] /\ service' \in BOOLEAN
    BY DEF TypeOK
  <2>3. QED
    BY <2>1, <2>2 DEF TypeOK
<1>6. DriverInv'
  <2>1. \A e \in Devices : Registered(e)' <=> Registered(e)
    BY <1>4 DEF Registered
  <2>2. \A e \in Devices : /\ dev'[e].pc = dev[e].pc /\ dev'[e].masked = dev[e].masked
                           /\ dev'[e].irq_enabled = dev[e].irq_enabled /\ dev'[e].ready = dev[e].ready
    BY <1>2 DEF TypeOK, DriverStates
  <2>3. QED
    BY <2>1, <2>2 DEF DriverInv
<1>7. ServiceInv'
  BY DEF ServiceInv, TypeOK
<1>8. ConfigKept'
  <2> SUFFICES ASSUME NEW e \in Devices, owed[e], "config" \notin dev'[e].status
               PROVE  \E i \in Routes : routes'[i].io = e /\ routes'[i].config_pending
    BY DEF ConfigKept
  <2>1. CASE \E i \in Routes : routes[i].io = e /\ routes[i].config_pending
    BY <1>4, <2>1
  <2>2. CASE "config" \in dev[e].status
    <3>1. PICK i \in Read : routes[i].io = e
      BY <1>2, <2>2
    <3>2. QED
      BY <1>1, <1>4, <2>2, <3>1 DEF Noted
  <2>3. QED
    BY <2>1, <2>2 DEF ConfigKept
<1>9. QED
  BY <1>5, <1>6, <1>7, <1>8

LEMMA StepIInv ==
  ASSUME RouteAssumption, IrqAssumption, IInv, [Next]_vars
  PROVE  IInv'
<1>1. CASE UNCHANGED vars
  BY <1>1 DEF vars, IInv, TypeOK, DriverInv, Registered, ServiceInv, ConfigKept
<1>2. CASE ServiceWakes
  <2> USE <1>2 DEF ServiceWakes, IInv
  <2>1. TypeOK' BY DEF TypeOK
  <2>2. QED BY <2>1 DEF DriverInv, Registered, ServiceInv, ConfigKept
<1>3. ASSUME NEW d \in Devices,
             BringUp(d) \/ TakeDown(d) \/ QueueEvent(d) \/ ConfigEvent(d) \/ virtio_config_changed(d)
      PROVE  IInv'
  BY <1>3, BringUpKeeps, TakeDownKeeps, DeviceKeeps
<1>4. CASE \/ \E irq \in Lines : Deliver(irq)
           \/ \E irq \in {7, 15} : Spurious(irq)
           \/ Handler
  BY <1>4, HandlerKeeps, DispatchKeeps DEF Handler
<1>5. QED
  BY <1>1, <1>2, <1>3, <1>4 DEF Next

-----------------------------------------------------------------------------
LEMMA IInvGives ==
  ASSUME IInv
  PROVE  RoutesSafe
<1>1. NoOrphanInterrupt
  BY DEF IInv, DriverInv, NoOrphanInterrupt, Asserting
<1>2. NothingInService
  BY DEF IInv, ServiceInv, NothingInService, Idle
<1>3. QED
  BY <1>1, <1>2 DEF IInv, RoutesSafe

\* The steps alone keep the routes safe; fairness adds nothing to it.
LEMMA StepsStaySafe ==
  ASSUME RouteAssumption, IrqAssumption
  PROVE  Init /\ [][Next]_vars => []RoutesSafe
<1>1. Init => IInv
  BY InitIInv
<1>2. IInv /\ [Next]_vars => IInv'
  BY StepIInv
<1>3. IInv => RoutesSafe
  BY IInvGives
<1>4. QED
  BY <1>1, <1>2, <1>3, PTL


\* virtio_irq.c, virtio.c, isr.c, pic.c: whatever order drivers on other CPUs
\* bring devices up and down in while the boot processor handles interrupts,
\* a device pulls its line only while an entry of the table leads to it, no
\* in-service bit outlives its handler, spurious interrupts included, and a
\* change of configuration is in the register or in the entry until the
\* driver asks.
THEOREM RoutesStaySafe ==
  ASSUME RouteAssumption, IrqAssumption
  PROVE  Spec => []RoutesSafe
BY StepsStaySafe DEF Spec
=============================================================================
