------------------------------- MODULE Network -------------------------------
(***************************************************************************)
(* One network interface: drivers/net.c with its interrupt route           *)
(* (drivers/virtio_irq.c), the request slot for sending and the service    *)
(* task (drivers/io_request.c).  Tasks receive, waiting for a frame, or    *)
(* send; the device (external) delivers frames, loses its link, answers or *)
(* does not, and may ignore a reset.                                       *)
(*                                                                         *)
(* A section under the interface's lock is a step, written as functions    *)
(* from an interface to an interface; "ack" says whether the device        *)
(* acknowledges a reset in it.  The queues are counts here: VirtQueue has  *)
(* their detail, and BlockIo the admission tickets of blocking callers,    *)
(* which net_send shares with the disks; a sender that finds the slot      *)
(* taken returns here.  net_receive is one turn of net_receive_wait, and   *)
(* net_submit, net_collect and net_cancel are the steps of a sender.       *)
(***************************************************************************)
EXTENDS Naturals, FiniteSets

CONSTANTS
  Receiving, Sending,   \* tasks that receive, tasks that send
  Nobody,
  Slots,      \* receive buffers
  MaxId,      \* bound: requests
  MaxInits    \* bound: times the interface is set up

Callers == Receiving \cup Sending

NobodyAssumption == Nobody \notin Callers
BoundAssumption == Slots \in Nat \ {0} /\ MaxId \in Nat /\ MaxInits \in Nat

VARIABLES
  nic,          \* interfaces[i], requests[i] and the entry of routes[], see Nics
  device,       \* the device: link, whether it may use DMA, interrupt status
  initialized,
  pc,           \* idle, try or wait in net_receive_wait; collect or sent in net_send
  token,        \* the task's request
  older,        \* tasks in net_receive_wait whose epoch is not rx_epoch any more
  service,      \* locals of net_service and where it is
  next_id,
  inits, began, \* history: set-ups so far; the one in force, or next, when a task's call began
  sent          \* history: requests whose frame the device has sent

tasks == <<pc, token, older, began>>
vars == <<nic, device, initialized, tasks, service, next_id, inits, sent>>

(***************************************************************************)
(* rx: frames reported and not yet taken; unseen: used_idx # rx_seen;      *)
(* given, used: the send queue; woken: tasks that would return from a wait *)
(* on rx_changed, done: from a wait on the request's changed.              *)
(***************************************************************************)
Nics == [count : BOOLEAN, online : BOOLEAN, dma : BOOLEAN,
         rx : 0 .. Slots, unseen : BOOLEAN, id : 0 .. MaxId,
         owner : Callers \cup {Nobody}, pending : BOOLEAN, late : BOOLEAN,
         result : {"ok", "error"}, given : 0 .. MaxId, used : {"none", "ok", "bad"},
         route : BOOLEAN, config_pending : BOOLEAN,
         woken : SUBSET Callers, done : SUBSET Callers]

Absent == [count |-> FALSE, online |-> FALSE, dma |-> FALSE,
           rx |-> 0, unseen |-> FALSE, id |-> 0, owner |-> Nobody, pending |-> FALSE,
           late |-> FALSE, result |-> "error", given |-> 0, used |-> "none",
           route |-> FALSE, config_pending |-> FALSE, woken |-> {}, done |-> {}]

Init ==
  /\ nic = Absent /\ initialized = FALSE
  /\ device = [link |-> TRUE, running |-> FALSE, queue |-> FALSE, config |-> FALSE]
  /\ pc = [t \in Callers |-> "idle"] /\ token = [t \in Callers |-> 0]
  /\ older = {}
  /\ service = [at |-> "wait", id |-> 0, owner |-> Nobody]
  /\ next_id = 0 /\ inits = 0 /\ sent = {}
  /\ began = [t \in Callers |-> 0]

-----------------------------------------------------------------------------
Receivers == {t \in Callers : pc[t] = "wait"}
Waiting == {t \in Callers : pc[t] \in {"try", "wait"}}
Senders == {t \in Callers : pc[t] = "sleep"}

complete(n, result) ==
  IF n.pending THEN [n EXCEPT !.pending = FALSE, !.late = FALSE, !.result = result, !.done = Senders]
               ELSE n

release(n) == [n EXCEPT !.id = 0, !.owner = Nobody, !.pending = FALSE, !.late = FALSE,
                        !.result = "error", !.done = Senders]

\* Mutant: the buffers are freed although the reset is not acknowledged.
stop_Frees(n, ack) ==
  [complete(n, "error") EXCEPT
     !.online = FALSE, !.woken = Receivers, !.done = Senders,
     !.route = FALSE, !.config_pending = FALSE, !.dma = FALSE,
     !.rx = IF ack THEN 0 ELSE @, !.unseen = @ /\ ~ack,
     !.given = IF ack THEN 0 ELSE @, !.used = IF ack THEN "none" ELSE @]

stop(n, ack) ==
  [complete(n, "error") EXCEPT
     !.online = FALSE, !.woken = Receivers, !.done = Senders,
     !.route = FALSE, !.config_pending = FALSE, !.dma = @ /\ ~ack,
     !.rx = IF ack THEN 0 ELSE @, !.unseen = @ /\ ~ack,
     !.given = IF ack THEN 0 ELSE @, !.used = IF ack THEN "none" ELSE @]

\* Mutant: stopping does not begin a new epoch.
Stops_SameEpoch(s, ack) ==
  /\ device' = IF s /\ ack THEN [device EXCEPT !.running = FALSE, !.queue = FALSE, !.config = FALSE]
                           ELSE device
  /\ UNCHANGED older

(* What stop does outside the interface: a new epoch, a reset device       *)
Stops(s, ack) ==
  /\ device' = IF s /\ ack THEN [device EXCEPT !.running = FALSE, !.queue = FALSE, !.config = FALSE]
                           ELSE device
  /\ older' = IF s THEN Waiting ELSE older

poll_fails(n) == n.pending /\ (n.used = "bad" \/ (n.used = "none" /\ n.late))

\* Mutant: a request that is not answered in time leaves the device running.
poll_request_NoStop(n, ack) ==
  IF n.pending /\ n.used = "ok" THEN complete([n EXCEPT !.used = "none"], "ok")
  ELSE IF poll_fails(n) THEN complete([n EXCEPT !.used = "none"], "error")
  ELSE n

poll_request(n, ack) ==
  IF n.pending /\ n.used = "ok" THEN complete([n EXCEPT !.used = "none"], "ok")
  ELSE IF poll_fails(n) THEN stop(complete(n, "error"), ack)
  ELSE n

-----------------------------------------------------------------------------
net_init(ok, irq, ack) ==
  /\ ~initialized /\ inits < MaxInits
  /\ initialized' = TRUE /\ inits' = inits + 1
  /\ nic' = IF ok
              THEN [nic EXCEPT !.count = TRUE, !.online = TRUE,
                               !.dma = TRUE, !.rx = 0, !.unseen = FALSE, !.route = irq]
              ELSE [stop([nic EXCEPT !.dma = TRUE], ack) EXCEPT !.count = TRUE]
  /\ IF ok THEN device' = [device EXCEPT !.running = TRUE] /\ UNCHANGED older
           ELSE Stops(TRUE, ack)
  /\ UNCHANGED <<pc, token, began, service, next_id, sent>>

net_shutdown(ack) ==
  /\ nic.count
  /\ nic' = [release(stop(nic, ack)) EXCEPT !.count = ~ack]
  /\ initialized' = ~ack
  /\ Stops(TRUE, ack)
  /\ UNCHANGED <<pc, token, began, service, next_id, inits, sent>>

(***************************************************************************)
(* net_receive_wait                                                        *)
(***************************************************************************)
ReceiveBegin(t) ==
  /\ t \in Receiving /\ pc[t] = "idle"
  /\ pc' = [pc EXCEPT ![t] = "try"] /\ older' = older \ {t}
  /\ began' = [began EXCEPT ![t] = IF nic.online THEN inits ELSE inits + 1]
  /\ UNCHANGED <<nic, device, initialized, token, service, next_id, inits, sent>>

Returned(t) == pc' = [pc EXCEPT ![t] = "idle"] /\ began' = [began EXCEPT ![t] = 0]

(* The section of the loop: canceled, no interface or offline; a frame;    *)
(* a report that is refused; no link; or nothing yet.                      *)
ReceiveReturns(t) ==
  /\ pc[t] = "try"
  /\ t \in older \/ ~nic.count \/ ~nic.online \/ (nic.rx = 0 /\ ~device.link)
  /\ Returned(t) /\ older' = older \ {t}
  /\ UNCHANGED <<nic, device, initialized, token, service, next_id, inits, sent>>

ReceiveFrame(t) ==
  /\ pc[t] = "try" /\ t \notin older
  /\ nic.count /\ nic.online /\ nic.rx > 0
  /\ nic' = [nic EXCEPT !.rx = @ - 1]
  /\ Returned(t) /\ older' = older \ {t}
  /\ UNCHANGED <<device, initialized, token, service, next_id, inits, sent>>

ReceiveRefused(t, ack) ==
  /\ pc[t] = "try" /\ t \notin older
  /\ nic.count /\ nic.online /\ nic.rx > 0
  /\ nic' = stop(nic, ack) /\ Stops(TRUE, ack)
  /\ Returned(t)
  /\ UNCHANGED <<initialized, token, service, next_id, inits, sent>>

ReceiveEmpty(t) ==
  /\ pc[t] = "try" /\ t \notin older
  /\ nic.count /\ nic.online /\ nic.rx = 0 /\ device.link
  /\ pc' = [pc EXCEPT ![t] = "wait"]
  /\ UNCHANGED <<nic, device, initialized, token, older, began, service, next_id, inits, sent>>

ReceiveWakes(t) ==
  /\ pc[t] = "wait" /\ t \in nic.woken
  /\ pc' = [pc EXCEPT ![t] = "try"] /\ nic' = [nic EXCEPT !.woken = @ \ {t}]
  /\ UNCHANGED <<device, initialized, token, older, began, service, next_id, inits, sent>>

ReceiveTimeout(t) ==
  /\ pc[t] = "wait" /\ t \notin nic.woken
  /\ Returned(t) /\ older' = older \ {t}
  /\ UNCHANGED <<nic, device, initialized, token, service, next_id, inits, sent>>

(***************************************************************************)
(* net_send, without its queue: submit_owned and the loop of net_collect;  *)
(* net_cancel is for callers that submit and collect by themselves.        *)
(***************************************************************************)
Submit(t) ==
  /\ t \in Sending /\ pc[t] = "idle"
  /\ nic.count /\ nic.online /\ device.link /\ nic.id = 0 /\ next_id < MaxId
  /\ next_id' = next_id + 1
  /\ nic' = [nic EXCEPT !.id = next_id', !.owner = t, !.pending = TRUE, !.late = FALSE,
                        !.result = "error", !.given = next_id']
  /\ token' = [token EXCEPT ![t] = next_id'] /\ pc' = [pc EXCEPT ![t] = "collect"]
  /\ UNCHANGED <<device, initialized, older, began, service, inits, sent>>

Collected(t, n) == token[t] # n.id \/ ~n.pending

net_collect(t, ack) ==
  LET n == IF token[t] = nic.id THEN poll_request(nic, ack) ELSE nic IN
    /\ pc[t] = "collect"
    /\ nic' = IF token[t] = n.id /\ ~n.pending THEN release(n) ELSE n
    /\ Stops(token[t] = nic.id /\ poll_fails(nic), ack)
    /\ pc' = [pc EXCEPT ![t] = IF ~Collected(t, n) THEN "sleep"
                               ELSE IF token[t] = n.id /\ n.result = "ok" THEN "ok" ELSE "idle"]
    /\ token' = [token EXCEPT ![t] = IF pc'[t] = "idle" THEN 0 ELSE @]
    /\ UNCHANGED <<initialized, began, service, next_id, inits, sent>>

net_cancel(t, ack) ==
  /\ pc[t] = "collect"
  /\ nic' = IF token[t] # nic.id THEN nic
            ELSE release(IF nic.pending THEN stop(nic, ack) ELSE nic)
  /\ Stops(token[t] = nic.id /\ nic.pending, ack)
  /\ pc' = [pc EXCEPT ![t] = "idle"] /\ token' = [token EXCEPT ![t] = 0]
  /\ UNCHANGED <<initialized, began, service, next_id, inits, sent>>

SendWakes(t) ==
  /\ \/ /\ pc[t] = "sleep" /\ t \in nic.done /\ pc' = [pc EXCEPT ![t] = "collect"]
        /\ nic' = [nic EXCEPT !.done = @ \ {t}] /\ UNCHANGED token
     \/ /\ pc[t] = "ok" /\ pc' = [pc EXCEPT ![t] = "idle"]
        /\ token' = [token EXCEPT ![t] = 0] /\ UNCHANGED nic
  /\ UNCHANGED <<device, initialized, older, began, service, next_id, inits, sent>>

Dies(t) ==
  /\ pc[t] \notin {"idle", "dead"}
  /\ pc' = [pc EXCEPT ![t] = "dead"] /\ token' = [token EXCEPT ![t] = 0]
  /\ nic' = [nic EXCEPT !.woken = @ \ {t}, !.done = @ \ {t}]
  /\ began' = [began EXCEPT ![t] = 0] /\ older' = older \ {t}
  /\ UNCHANGED <<device, initialized, service, next_id, inits, sent>>

(***************************************************************************)
(* The service task: a snapshot of its event and of the request, then the  *)
(* pass itself if the lock is free, then a wait with a watchdog.           *)
(***************************************************************************)
ServiceFirst ==
  /\ service.at = "first"
  /\ service' = [service EXCEPT !.at = IF nic.count THEN "second" ELSE "wait",
                                !.id = nic.id, !.owner = nic.owner]
  /\ UNCHANGED <<nic, device, initialized, tasks, next_id, inits, sent>>

Abandoned == /\ service.owner # Nobody /\ pc[service.owner] = "dead"
             /\ nic.id = service.id /\ nic.owner = service.owner

\* Mutant: the pass does not look at the receive queue.
Looked_NoRx(n) ==
  LET config == IF n.route THEN n.config_pending ELSE device.config IN
    IF config THEN [n EXCEPT !.config_pending = FALSE, !.woken = Receivers] ELSE n

\* Mutant: a change of configuration wakes nobody.
Looked_Quiet(n) ==
  LET config == IF n.route THEN n.config_pending ELSE device.config IN
    [n EXCEPT !.config_pending = FALSE, !.unseen = FALSE,
              !.woken = IF n.unseen THEN Receivers ELSE @]

Looked(n) ==
  LET config == IF n.route THEN n.config_pending ELSE device.config IN
    [n EXCEPT !.config_pending = FALSE, !.unseen = FALSE,
              !.woken = IF config \/ n.unseen THEN Receivers ELSE @]

\* Mutant: the request of a dead task keeps its slot.
Swept_Keeps(ack) == nic

Swept(ack) ==
  IF Abandoned THEN release(IF nic.pending THEN stop(nic, ack) ELSE nic) ELSE nic

(* Between the two sections the request may have been collected and the    *)
(* slot given to another; then the snapshot is not acted on.               *)
ServiceSecond(ack) ==
  LET n == poll_request(Swept(ack), ack) IN
    /\ service.at = "second"
    /\ nic' = IF n.online THEN Looked(n) ELSE n
    /\ LET s == (Abandoned /\ nic.pending) \/ (~Abandoned /\ poll_fails(nic)) IN
         /\ older' = IF s THEN Waiting ELSE older
         /\ device' = IF s /\ ack
                        THEN [device EXCEPT !.running = FALSE, !.queue = FALSE, !.config = FALSE]
                      ELSE IF n.online /\ ~n.route
                        THEN [device EXCEPT !.queue = FALSE, !.config = FALSE]
                      ELSE device
    /\ service' = [service EXCEPT !.at = "wait", !.id = 0, !.owner = Nobody]
    /\ UNCHANGED <<initialized, pc, token, began, next_id, inits, sent>>

(* Somebody else holds the lock: the pass over this interface is skipped.  *)
ServiceSkips ==
  /\ service.at = "second"
  /\ service' = [service EXCEPT !.at = "wait", !.id = 0, !.owner = Nobody]
  /\ UNCHANGED <<nic, device, initialized, tasks, next_id, inits, sent>>

(* wait_queue_wait returns: notified, or after IO_WATCHDOG_TICKS           *)
ServiceWakes ==
  /\ service.at = "wait"
  /\ service' = [service EXCEPT !.at = "first"]
  /\ UNCHANGED <<nic, device, initialized, tasks, next_id, inits, sent>>

(* virtio_irq_dispatch: reading the status acknowledges it                 *)
virtio_irq_dispatch ==
  /\ nic.route /\ (device.queue \/ device.config)
  /\ device' = [device EXCEPT !.queue = FALSE, !.config = FALSE]
  /\ nic' = [nic EXCEPT !.config_pending = @ \/ device.config]
  /\ UNCHANGED <<initialized, tasks, service, next_id, inits, sent>>

-----------------------------------------------------------------------------
(* The device *)
DeviceReceives ==
  /\ device.running /\ nic.online /\ device.link /\ nic.rx < Slots
  /\ nic' = [nic EXCEPT !.rx = @ + 1, !.unseen = TRUE]
  /\ device' = [device EXCEPT !.queue = TRUE]
  /\ UNCHANGED <<initialized, tasks, service, next_id, inits, sent>>

DeviceSends(answer) ==
  /\ device.running /\ nic.given # 0
  /\ nic' = [nic EXCEPT !.given = 0, !.used = answer]
  /\ device' = [device EXCEPT !.queue = TRUE]
  /\ sent' = IF answer = "ok" THEN sent \cup {nic.given} ELSE sent
  /\ UNCHANGED <<initialized, tasks, service, next_id, inits>>

DeviceLink ==
  /\ device.running /\ nic.online
  /\ device' = [device EXCEPT !.link = ~@, !.config = TRUE]
  /\ UNCHANGED <<nic, initialized, tasks, service, next_id, inits, sent>>

RequestAges ==
  /\ nic.pending /\ ~nic.late
  /\ nic' = [nic EXCEPT !.late = TRUE]
  /\ UNCHANGED <<device, initialized, tasks, service, next_id, inits, sent>>

TaskStep(t) ==
  \/ ReceiveReturns(t) \/ ReceiveFrame(t) \/ ReceiveEmpty(t) \/ ReceiveWakes(t)
  \/ (\E ack \in BOOLEAN : net_collect(t, ack)) \/ SendWakes(t)

Next ==
  \/ \E ok, irq, ack \in BOOLEAN : net_init(ok, irq, ack)
  \/ \E ack \in BOOLEAN : net_shutdown(ack) \/ ServiceSecond(ack)
  \/ \E t \in Callers : \/ ReceiveBegin(t) \/ ReceiveTimeout(t) \/ Submit(t) \/ Dies(t)
                      \/ TaskStep(t)
                      \/ \E ack \in BOOLEAN : ReceiveRefused(t, ack) \/ net_cancel(t, ack)
  \/ ServiceFirst \/ ServiceSkips \/ ServiceWakes \/ virtio_irq_dispatch
  \/ DeviceReceives \/ (\E answer \in {"ok", "bad"} : DeviceSends(answer))
  \/ DeviceLink \/ RequestAges

Spec == Init /\ [][Next]_vars

(***************************************************************************)
(* The scheduler runs every task that can run, the service task wakes at   *)
(* the latest with its watchdog and finds the lock free again and again,   *)
(* and time passes.  The device and the tasks' deadlines promise nothing.  *)
(***************************************************************************)
Fairness ==
  /\ WF_vars(ServiceWakes) /\ WF_vars(ServiceFirst)
  /\ SF_vars(\E ack \in BOOLEAN : ServiceSecond(ack))
  /\ WF_vars(RequestAges) /\ WF_vars(virtio_irq_dispatch)
  /\ \A t \in Callers : WF_vars(TaskStep(t))

LiveSpec == Spec /\ Fairness

-----------------------------------------------------------------------------
(* The state of the interface and of the calls is one the code knows.      *)
TypeOK ==
  /\ nic \in Nics /\ initialized \in BOOLEAN
  /\ device \in [link : BOOLEAN, running : BOOLEAN, queue : BOOLEAN, config : BOOLEAN]
  /\ pc \in [Callers -> {"idle", "try", "wait", "collect", "sleep", "ok", "dead"}]
  /\ token \in [Callers -> 0 .. MaxId] /\ older \subseteq Callers
  /\ service \in [at : {"first", "second", "wait"}, id : 0 .. MaxId,
                  owner : Callers \cup {Nobody}]
  /\ next_id \in 0 .. MaxId /\ inits \in 0 .. MaxInits /\ sent \subseteq 1 .. MaxId
  /\ began \in [Callers -> 0 .. MaxInits + 1]

(* The buffers of an interface are not given back to the allocator while   *)
(* its device may still write into them.                                   *)
DmaPinned == device.running => nic.dma

(* net.h: "Reset cancels existing waiters."  A task that began to wait     *)
(* before a reset never gets a frame of the interface set up after it.     *)
ResetCancels == [][\A t \in Callers : ReceiveFrame(t) => began[t] = inits]_vars

(* net_send returns DRIVER_OK only for a frame the device has sent, never  *)
(* because of an answer to an earlier request.                             *)
OkIsSent == \A t \in Callers : pc[t] = "ok" => token[t] \in sent

(* A task that waits while a frame is there is woken, also when the        *)
(* interrupt's route could not be had or the service task found the lock   *)
(* taken.                                                                  *)
FrameWakes ==
  \A t \in Receiving : (pc[t] = "wait" /\ nic.rx > 0)
                         ~> (pc[t] # "wait" \/ nic.rx = 0)

(* A task that waits on an interface that lost its link hears of it.       *)
LinkLossWakes ==
  \A t \in Receiving : (pc[t] = "wait" /\ ~device.link)
                         ~> (pc[t] # "wait" \/ device.link)

(* The request of a task that died is taken back.                          *)
OrphanFreed == \A t \in Sending : (pc[t] = "dead" /\ nic.owner = t) ~> (nic.owner # t)

(* The safety invariants together: results and buffers stay with those     *)
(* they belong to.                                                         *)
Safety ==
  /\ TypeOK
  /\ OkIsSent
  /\ DmaPinned

(* net.c: an answer to an earlier request is never taken for a new one's,  *)
(* buffers are not given back while the device may write them, and nobody  *)
(* who waited before a reset gets a frame from after it.                   *)
NetSafe == []Safety /\ ResetCancels
=============================================================================
