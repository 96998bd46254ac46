------------------------------ MODULE BlockIo ------------------------------
(***************************************************************************)
(* One disk of drivers/block.c with its request slot (drivers/io_request.c)*)
(* and its virtio queue (drivers/virtio.c): blocking callers with their    *)
(* admission tickets, an asynchronous client, the service task, and a      *)
(* device that answers late, wrongly or never and may ignore a reset.      *)
(*                                                                         *)
(* A section under the device lock is one step.  What such a section does  *)
(* to the disk is written as functions from a disk to a disk, named after  *)
(* the C functions, so that a section that calls several composes them.    *)
(* "ack" says whether the device acknowledges the reset of this step.      *)
(*                                                                         *)
(* Time is a flag per deadline that may be raised at any moment; a wait    *)
(* queue is the set of callers whose snapshot is out of date.              *)
(***************************************************************************)
EXTENDS Naturals, Sequences, FiniteSets

CONSTANTS
  Tasks,      \* tasks that call block_read, block_write, block_flush
  Nobody,     \* owner_pid 0
  MaxId,      \* UINT64_MAX, the last request id
  MaxWaiters  \* IO_WAITERS_MAX

ASSUME TasksAssumption == Nobody \notin Tasks
ASSUME MaxIdAssumption == MaxId \in Nat
ASSUME MaxWaitersAssumption == MaxWaiters \in Nat \ {0}

Ids == 1 .. MaxId
OK == "ok"
PENDING == "pending"
CANCELED == "canceled"
TIMEOUT == "timeout"
IO == "io"
OFFLINE == "offline"
INVALID == "invalid"
Errors == {CANCELED, TIMEOUT, IO}

(***************************************************************************)
(* Where a caller is in request():                                         *)
(*   idle     not in a call, or back from one with an error                *)
(*   ok       back from a call with DRIVER_OK                              *)
(*   submit   has a snapshot, about to call submit_owned                   *)
(*   queue    in wait_queue_wait until its deadline                        *)
(*   giveup   about to drop its ticket and return                          *)
(*   collect  has a snapshot, about to call block_collect                  *)
(*   wait     in wait_queue_wait without a deadline                        *)
(***************************************************************************)
Places == {"idle", "ok", "submit", "queue", "giveup", "collect", "wait"}

VARIABLES
  disk,       \* disks[i] and requests[i], see Disks
  initialized,
  disk_count,
  next_id,
  pc,
  admission,  \* the caller's ticket, 0 for none
  token,      \* the id of the caller's accepted request, 0 for none
  late,       \* callers whose deadline has passed
  alive,      \* tasks not killed with their group
  client,     \* the asynchronous client: its token, and whether it has an OK
  service,    \* locals of block_service
  served      \* ids the device has carried out successfully

vars == <<disk, initialized, disk_count, next_id, pc, admission, token, late,
          alive, client, service, served>>
callerVars == <<pc, admission, token, late, alive>>

(***************************************************************************)
(* id .. late: the request; late: pending for 500 ticks.  waiters: the     *)
(* tickets and whether their deadline has passed.  A ticket enters the     *)
(* array at its end with the newest id and those behind one that leaves    *)
(* move up, so the array is in the order of the ids and a set stands for   *)
(* it.  given: ids of the commands in the hands of the device; used: its   *)
(* answers not yet popped.  dma: the buffers are allocated.  config: a     *)
(* change of capacity not looked at yet.  woken: tasks without a snapshot  *)
(* of the wait queue, or for whom it has been signalled since.             *)
(***************************************************************************)
Tickets == [id : Ids, late : BOOLEAN]
Answers == [id : Ids, status : {"ok", "err", "bad"}]
Disks == [id : Ids \cup {0}, owner : Tasks \cup {Nobody}, pending : BOOLEAN,
          result : Errors \cup {OK, PENDING}, late : BOOLEAN,
          waiters : SUBSET Tickets, online : BOOLEAN, dma : BOOLEAN,
          config : BOOLEAN, given : Seq(Ids), used : Seq(Answers),
          woken : SUBSET Tasks]

TypeOK ==
  /\ disk \in Disks /\ IsFiniteSet(disk.waiters)
  /\ Cardinality(disk.waiters) <= MaxWaiters
  /\ initialized \in BOOLEAN /\ disk_count \in {0, 1}
  /\ next_id \in 0 .. MaxId
  /\ pc \in [Tasks -> Places]
  /\ admission \in [Tasks -> Ids \cup {0}] /\ token \in [Tasks -> Ids \cup {0}]
  /\ late \subseteq Tasks /\ alive \subseteq Tasks /\ served \subseteq Ids
  /\ client \in [token : Ids \cup {0}, ok : BOOLEAN]
  /\ service \in [at : {"first", "check", "second"}, id : Ids \cup {0},
                  owner : Tasks \cup {Nobody}, dead : BOOLEAN]

Init ==
  /\ disk = [id |-> 0, owner |-> Nobody, pending |-> FALSE, result |-> OK,
             late |-> FALSE, waiters |-> {}, online |-> FALSE, dma |-> FALSE,
             config |-> FALSE, given |-> <<>>, used |-> <<>>, woken |-> Tasks]
  /\ initialized = FALSE /\ disk_count = 0 /\ next_id = 0
  /\ pc = [t \in Tasks |-> "idle"]
  /\ admission = [t \in Tasks |-> 0] /\ token = [t \in Tasks |-> 0]
  /\ late = {} /\ alive = Tasks /\ served = {}
  /\ client = [token |-> 0, ok |-> FALSE]
  /\ service = [at |-> "first", id |-> 0, owner |-> Nobody, dead |-> FALSE]
-----------------------------------------------------------------------------
(***************************************************************************)
(* io_request.c: the request slot and its tickets.                         *)
(***************************************************************************)
wait_queue_signal(d) == [d EXCEPT !.woken = Tasks]

HasTicket(d, id) == \E w \in d.waiters : w.id = id

io_request_cancel_waiter(d, id) ==
  IF HasTicket(d, id)
  THEN wait_queue_signal([d EXCEPT !.waiters = {w \in @ : w.id # id}])
  ELSE d

\* Mutant: expired tickets stay.
io_request_expire_waiters_Never(d) == d

io_request_expire_waiters(d) ==
  IF \E w \in d.waiters : w.late
  THEN wait_queue_signal([d EXCEPT !.waiters = {w \in @ : ~ w.late}])
  ELSE d

io_request_cancel_waiters(d) == wait_queue_signal([d EXCEPT !.waiters = {}])

\* Mutant: a completion that wakes nobody.
io_request_complete_Silent(d, res) ==
  IF d.pending THEN [d EXCEPT !.result = res, !.pending = FALSE, !.late = FALSE] ELSE d

io_request_complete(d, res) ==
  IF d.pending
  THEN wait_queue_signal([d EXCEPT !.result = res, !.pending = FALSE, !.late = FALSE])
  ELSE d

\* Replaces even a result that is complete and not collected.
io_request_abort(d, error) ==
  IF d.id # 0
  THEN wait_queue_signal([d EXCEPT !.result = error, !.pending = FALSE, !.late = FALSE])
  ELSE d

io_request_release(d) ==
  wait_queue_signal([d EXCEPT !.id = 0, !.pending = FALSE, !.owner = Nobody])

\* The slot is free and nobody else is first in line.
Admits(d, reserved) ==
  /\ d.id = 0
  /\ d.waiters # {} => HasTicket(d, reserved) /\ \A w \in d.waiters : reserved <= w.id

\* A ticket can be drawn.
Room(d) == Cardinality(d.waiters) < MaxWaiters

virtio_submit(d, id) == [d EXCEPT !.given = Append(@, id)]

(***************************************************************************)
(* The end of io_request_begin_owned and of submit_owned: the slot is      *)
(* taken and the command is in the hands of the device.                    *)
(***************************************************************************)
Begun(d, id, owner) ==
  [virtio_submit(io_request_cancel_waiter(d, id), id) EXCEPT
     !.id = id, !.owner = owner, !.late = FALSE, !.pending = TRUE,
     !.result = PENDING]
-----------------------------------------------------------------------------
(***************************************************************************)
(* block.c: the disk.                                                      *)
(***************************************************************************)

\* The reset takes the commands back; if it is not acknowledged the device
\* still has them.  Interrupt and configuration events are detached.
virtio_stop(d, ack) ==
  IF ack THEN [d EXCEPT !.config = FALSE, !.given = <<>>, !.used = <<>>]
         ELSE [d EXCEPT !.config = FALSE]

\* Mutant: the buffers are freed although the reset was not acknowledged.
stop_FreesAlways(d, ack) ==
  LET c == io_request_cancel_waiters(d)
      e == IF c.result = OK THEN io_request_abort(c, CANCELED)
                            ELSE io_request_complete(c, CANCELED)
  IN  [virtio_stop(e, ack) EXCEPT !.online = FALSE, !.dma = FALSE]

(***************************************************************************)
(* Tickets, request and result are canceled, the device is reset, and the  *)
(* buffers are freed only if it says so.                                   *)
(***************************************************************************)
stop(d, ack) ==
  LET c == io_request_cancel_waiters(d)
      e == IF c.result = OK THEN io_request_abort(c, CANCELED)
                            ELSE io_request_complete(c, CANCELED)
  IN  [virtio_stop(e, ack) EXCEPT !.online = FALSE, !.dma = @ /\ ~ ack]

check_configuration(d, ack) ==
  IF d.online /\ d.config
  THEN stop(io_request_abort([d EXCEPT !.config = FALSE], IO), ack)
  ELSE d

\* Mutant: a request that timed out leaves the device running.
poll_request_NoStop(d, ack) ==
  IF ~ d.pending THEN d
  ELSE IF d.used = <<>>
  THEN IF d.late THEN io_request_complete(d, TIMEOUT) ELSE d
  ELSE LET popped == [d EXCEPT !.used = Tail(@)]
           status == Head(d.used).status
       IN  IF status = "bad" THEN stop(io_request_complete(popped, IO), ack)
           ELSE io_request_complete(popped, IF status = "ok" THEN OK ELSE IO)

\* poll_request, with virtio_pop.
poll_request(d, ack) ==
  IF ~ d.pending THEN d
  ELSE IF d.used = <<>>
  THEN IF d.late THEN stop(io_request_complete(d, TIMEOUT), ack) ELSE d
  ELSE LET popped == [d EXCEPT !.used = Tail(@)]
           status == Head(d.used).status
       IN  IF status = "bad" THEN stop(io_request_complete(popped, IO), ack)
           ELSE io_request_complete(popped, IF status = "ok" THEN OK ELSE IO)

service_disk(d, ack) ==
  poll_request(check_configuration(io_request_expire_waiters(d), ack), ack)

\* block_cancel and the cancellation for a dead owner.
Canceled(d, ack) ==
  io_request_release(IF d.pending THEN stop(d, ack) ELSE d)

block_init(ok) ==
  /\ ~ initialized /\ initialized' = TRUE
  /\ disk_count' = 1
  /\ disk' = IF ok THEN [disk EXCEPT !.online = TRUE, !.dma = TRUE, !.config = FALSE]
                   ELSE stop(disk, TRUE)
  /\ UNCHANGED <<next_id, callerVars, client, service, served>>

block_shutdown(ack) ==
  /\ disk_count = 1
  /\ disk' = io_request_release(stop(disk, ack))
  /\ initialized' = ~ ack
  /\ disk_count' = IF ack THEN 0 ELSE 1
  /\ UNCHANGED <<next_id, callerVars, client, service, served>>
-----------------------------------------------------------------------------
(***************************************************************************)
(* request(): the blocking calls.  A caller whose wait returns takes its   *)
(* next snapshot in the same step.                                         *)
(***************************************************************************)
Outside(t) == pc[t] \in {"idle", "ok"}

Returns(t, result) ==
  /\ pc' = [pc EXCEPT ![t] = IF admission[t] # 0 THEN "giveup"
                             ELSE IF result = OK THEN "ok" ELSE "idle"]
  /\ token' = [token EXCEPT ![t] = IF result = OK THEN @ ELSE 0]
  /\ late' = late \ {t}

request(t) ==
  /\ t \in alive /\ Outside(t)
  /\ pc' = [pc EXCEPT ![t] = "submit"]
  /\ token' = [token EXCEPT ![t] = 0]
  /\ disk' = [disk EXCEPT !.woken = @ \ {t}]
  /\ UNCHANGED <<initialized, disk_count, next_id, admission, late, alive,
                 client, service, served>>

\* What submit_owned does to the disk before io_request_begin_owned decides.
Examined(ack) ==
  IF disk_count = 0 THEN disk ELSE check_configuration(disk, ack)
Ready(d) == disk_count = 1 /\ d.online

\* submit_owned refuses: no disk, offline, deadline passed, ticket gone, or
\* no id left.
SubmitRefused(t, ack) ==
  LET d == Examined(ack)
      e == io_request_expire_waiters(d)
  IN  /\ t \in alive /\ pc[t] = "submit"
      /\ \/ /\ ~ Ready(d) /\ disk' = d
            /\ Returns(t, IF disk_count = 0 THEN INVALID ELSE OFFLINE)
         \/ /\ Ready(d) /\ t \in late
            /\ disk' = io_request_cancel_waiter(e, admission[t])
            /\ Returns(t, TIMEOUT)
         \/ /\ Ready(d) /\ t \notin late
            /\ admission[t] # 0 /\ ~ HasTicket(e, admission[t])
            /\ disk' = e /\ Returns(t, CANCELED)
         \/ /\ Ready(d) /\ t \notin late
            /\ admission[t] = 0 /\ next_id = MaxId
            /\ Admits(e, 0) \/ Room(e)
            /\ disk' = e /\ Returns(t, INVALID)
      /\ UNCHANGED <<initialized, disk_count, next_id, admission, alive, client,
                     service, served>>

\* submit_owned returns BUSY; a caller without a ticket draws one if there
\* is room.
SubmitBusy(t, ack) ==
  LET e == io_request_expire_waiters(Examined(ack))
      draws == admission[t] = 0 /\ Room(e)
  IN  /\ t \in alive /\ pc[t] = "submit"
      /\ Ready(e) /\ t \notin late
      /\ admission[t] # 0 => HasTicket(e, admission[t])
      /\ ~ Admits(e, admission[t])
      /\ draws => next_id < MaxId
      /\ next_id' = IF draws THEN next_id + 1 ELSE next_id
      /\ admission' = [admission EXCEPT ![t] = IF draws THEN next_id + 1 ELSE @]
      /\ disk' = IF draws
                 THEN [e EXCEPT !.waiters = @ \cup {[id |-> next_id + 1, late |-> FALSE]}]
                 ELSE e
      /\ pc' = [pc EXCEPT ![t] = "queue"]
      /\ UNCHANGED <<initialized, disk_count, token, late, alive, client,
                     service, served>>

\* submit_owned succeeds; the ticket's id becomes the request's.
SubmitOk(t, ack) ==
  LET e == io_request_expire_waiters(Examined(ack))
      id == IF admission[t] # 0 THEN admission[t] ELSE next_id + 1
  IN  /\ t \in alive /\ pc[t] = "submit"
      /\ Ready(e) /\ t \notin late
      /\ admission[t] # 0 => HasTicket(e, admission[t])
      /\ Admits(e, admission[t])
      /\ id <= MaxId
      /\ next_id' = IF admission[t] # 0 THEN next_id ELSE id
      /\ disk' = [Begun(e, id, t) EXCEPT !.woken = @ \ {t}]
      /\ admission' = [admission EXCEPT ![t] = 0]
      /\ token' = [token EXCEPT ![t] = id]
      /\ pc' = [pc EXCEPT ![t] = "collect"]
      /\ UNCHANGED <<initialized, disk_count, late, alive, client,
                     service, served>>

\* wait_queue_wait for the slot returns: signalled, or at the deadline.
QueueReturn(t) ==
  /\ t \in alive /\ pc[t] = "queue"
  /\ \/ /\ t \in disk.woken
        /\ pc' = [pc EXCEPT ![t] = "submit"]
        /\ disk' = [disk EXCEPT !.woken = @ \ {t}]
        /\ UNCHANGED <<token, late>>
     \/ t \in late /\ Returns(t, TIMEOUT) /\ UNCHANGED disk
  /\ UNCHANGED <<initialized, disk_count, next_id, admission, alive, client,
                 service, served>>

\* Mutant: the ticket is forgotten, not canceled.
GiveUp_KeepsTicket(t) ==
  /\ t \in alive /\ pc[t] = "giveup"
  /\ admission' = [admission EXCEPT ![t] = 0]
  /\ pc' = [pc EXCEPT ![t] = "idle"]
  /\ UNCHANGED <<disk, initialized, disk_count, next_id, token, late, alive, client,
                 service, served>>

GiveUp(t) ==
  /\ t \in alive /\ pc[t] = "giveup"
  /\ disk' = io_request_cancel_waiter(disk, admission[t])
  /\ admission' = [admission EXCEPT ![t] = 0]
  /\ pc' = [pc EXCEPT ![t] = "idle"]
  /\ UNCHANGED <<initialized, disk_count, next_id, token, late, alive, client,
                 service, served>>

\* block_collect by the blocking caller.
Collect(t, ack) ==
  LET d == service_disk(disk, ack)
  IN  /\ t \in alive /\ pc[t] = "collect"
      /\ \/ /\ disk.id # token[t]
            /\ Returns(t, CANCELED) /\ UNCHANGED disk
         \/ /\ disk.id = token[t] /\ d.pending
            /\ pc' = [pc EXCEPT ![t] = "wait"]
            /\ disk' = d /\ UNCHANGED <<token, late>>
         \/ /\ disk.id = token[t] /\ ~ d.pending
            /\ disk' = io_request_release(d)
            /\ Returns(t, d.result)
      /\ UNCHANGED <<initialized, disk_count, next_id, admission, alive, client,
                     service, served>>

WaitReturn(t) ==
  /\ t \in alive /\ pc[t] = "wait" /\ t \in disk.woken
  /\ pc' = [pc EXCEPT ![t] = "collect"]
  /\ disk' = [disk EXCEPT !.woken = @ \ {t}]
  /\ UNCHANGED <<initialized, disk_count, next_id, admission, token, late,
                 alive, client, service, served>>
-----------------------------------------------------------------------------
(***************************************************************************)
(* The asynchronous client: submit, then collect or cancel when it likes.  *)
(* Refused submissions and repeated collections change nothing of it.      *)
(***************************************************************************)
block_submit(ack) ==
  LET e == io_request_expire_waiters(Examined(ack))
  IN  /\ client.token = 0
      /\ Ready(e) /\ Admits(e, 0) /\ next_id < MaxId
      /\ next_id' = next_id + 1
      /\ disk' = Begun(e, next_id + 1, Nobody)
      /\ client' = [token |-> next_id + 1, ok |-> FALSE]
      /\ UNCHANGED <<initialized, disk_count, callerVars, service, served>>

block_collect(ack) ==
  LET d == service_disk(disk, ack)
  IN  /\ client.token # 0 /\ ~ client.ok
      /\ \/ /\ disk.id # client.token
            /\ client' = [client EXCEPT !.token = 0] /\ UNCHANGED disk
         \/ disk.id = client.token /\ d.pending /\ disk' = d /\ UNCHANGED client
         \/ /\ disk.id = client.token /\ ~ d.pending
            /\ disk' = io_request_release(d)
            /\ client' = IF d.result = OK THEN [client EXCEPT !.ok = TRUE]
                                          ELSE [client EXCEPT !.token = 0]
      /\ UNCHANGED <<initialized, disk_count, next_id, callerVars, service, served>>

block_cancel(ack) ==
  /\ client.token # 0 /\ ~ client.ok
  /\ disk' = IF disk.id = client.token THEN Canceled(disk, ack) ELSE disk
  /\ client' = [client EXCEPT !.token = 0]
  /\ UNCHANGED <<initialized, disk_count, next_id, callerVars, service, served>>

\* The client is done with what it read.
ClientNext ==
  /\ client.ok
  /\ client' = [token |-> 0, ok |-> FALSE]
  /\ UNCHANGED <<disk, initialized, disk_count, next_id, callerVars, service, served>>
-----------------------------------------------------------------------------
(***************************************************************************)
(* block_service.  It looks at the owner under the device lock, asks       *)
(* without it whether the owner is dead, and takes the lock again.         *)
(***************************************************************************)
ServiceFirst(ack) ==
  /\ service.at = "first" /\ disk_count = 1
  /\ \/ /\ disk.owner = Nobody
        /\ disk' = service_disk(disk, ack) /\ UNCHANGED service
     \/ /\ disk.owner # Nobody
        /\ service' = [service EXCEPT !.at = "check", !.id = disk.id,
                                      !.owner = disk.owner]
        /\ UNCHANGED disk
  /\ UNCHANGED <<initialized, disk_count, next_id, callerVars, client, served>>

NoSnapshot == [at |-> "first", id |-> 0, owner |-> Nobody, dead |-> FALSE]

\* A snapshot whose owner is alive is not needed any more.
ServiceCheck ==
  /\ service.at = "check"
  /\ service' = IF service.owner \in alive THEN [NoSnapshot EXCEPT !.at = "second"]
                 ELSE [service EXCEPT !.at = "second", !.dead = TRUE]
  /\ UNCHANGED <<disk, initialized, disk_count, next_id, callerVars, client, served>>

\* Mutant: the slot is not checked again against the snapshot.
Abandoned_Unchecked == service.dead

\* Mutant: a completed request is left for its owner to collect.
Abandoned_PendingOnly ==
  /\ service.dead /\ disk.pending
  /\ disk.id = service.id /\ disk.owner = service.owner

\* The owner is dead and the slot still holds the request that was looked at.
Abandoned ==
  service.dead /\ disk.id = service.id /\ disk.owner = service.owner

ServiceSecond(ack) ==
  /\ service.at = "second"
  /\ disk' = service_disk(IF Abandoned THEN Canceled(disk, ack) ELSE disk, ack)
  /\ service' = NoSnapshot
  /\ UNCHANGED <<initialized, disk_count, next_id, callerVars, client, served>>

\* DEVICE_TRY_GUARD finds the lock taken.
ServiceBusy ==
  /\ service.at = "second"
  /\ service' = NoSnapshot
  /\ UNCHANGED <<disk, initialized, disk_count, next_id, callerVars, client, served>>
-----------------------------------------------------------------------------
(***************************************************************************)
(* Time, death and the device (not in the source: modelled as the drivers  *)
(* see them).                                                              *)
(***************************************************************************)
RequestAges ==
  /\ disk.pending /\ ~ disk.late
  /\ disk' = [disk EXCEPT !.late = TRUE]
  /\ UNCHANGED <<initialized, disk_count, next_id, callerVars, client, service, served>>

\* The deadline of t's call passes, and with it that of its ticket.
DeadlinePasses(t) ==
  /\ pc[t] \in {"submit", "queue"} \/ HasTicket(disk, admission[t])
  /\ t \notin late
  /\ late' = late \cup {t}
  /\ disk' = [disk EXCEPT !.waiters =
                {IF w.id = admission[t] THEN [w EXCEPT !.late = TRUE] ELSE w : w \in @}]
  /\ UNCHANGED <<initialized, disk_count, next_id, pc, admission, token, alive,
                 client, service, served>>

\* The task's group is killed (task_abort_current_group) while t is in a call.
\* Its locals are gone; admission[t] remembers the ticket it leaves behind.
Die(t) ==
  /\ t \in alive /\ ~ Outside(t)
  /\ alive' = alive \ {t}
  /\ pc' = [pc EXCEPT ![t] = "idle"]
  /\ token' = [token EXCEPT ![t] = 0]
  /\ UNCHANGED <<disk, initialized, disk_count, next_id, admission, late, client,
                 service, served>>

DeviceAnswers(status) ==
  /\ disk.given # <<>>
  /\ disk' = [disk EXCEPT !.given = Tail(@),
                          !.used = Append(@, [id |-> Head(disk.given), status |-> status])]
  /\ served' = IF status = "ok" THEN served \cup {Head(disk.given)} ELSE served
  /\ UNCHANGED <<initialized, disk_count, next_id, callerVars, client, service>>

DeviceResized ==
  /\ disk.online /\ ~ disk.config
  /\ disk' = [disk EXCEPT !.config = TRUE]
  /\ UNCHANGED <<initialized, disk_count, next_id, callerVars, client, service, served>>
-----------------------------------------------------------------------------
CallerStep(t) ==
  \/ QueueReturn(t) \/ GiveUp(t) \/ WaitReturn(t)
  \/ \E ack \in BOOLEAN : \/ SubmitRefused(t, ack) \/ SubmitBusy(t, ack)
                          \/ SubmitOk(t, ack) \/ Collect(t, ack)

Next ==
  \/ \E ok \in BOOLEAN : block_init(ok)
  \/ \E ack \in BOOLEAN :
       \/ block_shutdown(ack)
       \/ block_submit(ack) \/ block_collect(ack) \/ block_cancel(ack)
       \/ ServiceFirst(ack) \/ ServiceSecond(ack)
  \/ ServiceCheck \/ ServiceBusy \/ ClientNext
  \/ \E t \in Tasks : request(t) \/ CallerStep(t) \/ DeadlinePasses(t) \/ Die(t)
  \/ RequestAges \/ DeviceResized
  \/ \E status \in {"ok", "err", "bad"} : DeviceAnswers(status)

Spec == Init /\ [][Next]_vars

(***************************************************************************)
(* Fairness.  Time passes.  A caller that can go on is scheduled in the    *)
(* end.  The service runs at least every IO_WATCHDOG_TICKS, and finds the  *)
(* device lock, held for short sections only, free again and again.  The   *)
(* device, the client and whoever may shut the disk down owe nothing.      *)
(***************************************************************************)
Fairness ==
  /\ WF_vars(RequestAges)
  /\ \A t \in Tasks : WF_vars(DeadlinePasses(t)) /\ WF_vars(CallerStep(t))
  /\ SF_vars(\E ack \in BOOLEAN : ServiceFirst(ack))
  /\ WF_vars(ServiceCheck)
  /\ SF_vars(\E ack \in BOOLEAN : ServiceSecond(ack))

LiveSpec == Spec /\ Fairness
-----------------------------------------------------------------------------
(***************************************************************************)
(* A result belongs to the request it is collected for: a call that        *)
(* returned OK, and a collected OK of the client, means that the device    *)
(* carried out that very request, never that a late answer to an earlier   *)
(* request was taken for it (poll_request, stop).                          *)
(***************************************************************************)
OkIsServed ==
  /\ \A t \in Tasks : pc[t] = "ok" => token[t] \in served
  /\ client.ok => client.token \in served

(***************************************************************************)
(* Memory the device or a collector may still touch is not freed: not      *)
(* while the device holds a command, also after a reset it ignored, and    *)
(* not while a request is pending or a read result waits to be copied      *)
(* ("Frees DMA only after reset acknowledgment", block.h).                 *)
(***************************************************************************)
DmaPinned ==
  (disk.given # <<>> \/ disk.pending \/ (disk.id # 0 /\ disk.result = OK))
    => disk.dma

(***************************************************************************)
(* A request of a live task stays in its slot until the task collects it:  *)
(* only a shutdown takes it away.  The service's look at the owner may be  *)
(* old, and the slot another's, when it cancels (block_service).           *)
(***************************************************************************)
SlotKept ==
  [][\A t \in alive :
       disk.owner = t /\ disk'.id # disk.id
         => \/ pc[t] = "collect" /\ pc'[t] \in {"idle", "ok"}
            \/ \E ack \in BOOLEAN : block_shutdown(ack)]_vars

(***************************************************************************)
(* Every ticket in the line belongs to a caller that is still in line or   *)
(* died there, so that nobody waits behind a caller who has left (request  *)
(* cleans the list on every way out).                                      *)
(***************************************************************************)
TicketsOwned ==
  \A w \in disk.waiters : \E t \in Tasks :
    /\ admission[t] = w.id
    /\ pc[t] \in {"submit", "queue", "giveup"} \/ t \notin alive

(***************************************************************************)
(* A blocking call of a live task returns, although the device may never   *)
(* answer and the client may keep the slot for ever (request).             *)
(***************************************************************************)
CallReturns ==
  \A t \in Tasks : (t \in alive /\ ~ Outside(t)) ~> (t \notin alive \/ Outside(t))

(***************************************************************************)
(* The request of a task that died is taken out of its slot, and its       *)
(* ticket out of the line, by the service alone if need be.                *)
(***************************************************************************)
DeadLeaveSlot ==
  \A t \in Tasks : (t \notin alive /\ disk.owner = t) ~> (disk.owner # t)
DeadLeaveLine ==
  \A t \in Tasks : (t \notin alive /\ admission[t] # 0 /\ HasTicket(disk, admission[t]))
                     ~> ~ HasTicket(disk, admission[t])

(* A blocking call ends, and what dead tasks leave behind goes.            *)
NobodyWaitsForever == CallReturns /\ DeadLeaveSlot /\ DeadLeaveLine

(* The safety invariants together: results, buffers and tickets stay with  *)
(* those they belong to.                                                   *)
Safety ==
  /\ TypeOK
  /\ OkIsServed
  /\ DmaPinned
  /\ TicketsOwned

(* block.c, io_request.c: a result is that of the caller's own request and *)
(* nothing else's, buffers live while the device may write them, nobody    *)
(* holds a ticket that is not its own, and a live task's request stays in  *)
(* its slot until it is collected or the disk is shut down.                *)
DiskSafe == []Safety /\ SlotKept
=============================================================================
