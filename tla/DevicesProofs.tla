---------------------------- MODULE DevicesProofs ----------------------------
(***************************************************************************)
(* Theorems about the drivers.  First about BlockIo and then about the     *)
(* instance Net of Network, for any number of callers, any size of the     *)
(* line and any number of requests; then about a receive queue with any    *)
(* rings, buffers and width of the indices, and with a device that keeps   *)
(* the protocol or not; last about the drivers side by side (Devices),     *)
(* with those of IrqRoutesProofs.                                          *)
(***************************************************************************)
EXTENDS Devices, FiniteSetTheorems, SequenceTheorems, TLAPS

\* What holds of the disk also in the middle of a section.
Loose(d, sv) ==
  /\ d \in Disks
  /\ IsFiniteSet(d.waiters) /\ Cardinality(d.waiters) <= MaxWaiters
  /\ d.id = 0 => d.owner = Nobody /\ ~ d.pending
  /\ d.pending => d.online /\ d.result = PENDING
  /\ d.online => d.dma
  /\ d.given # <<>> => d.dma
  /\ d.id # 0 /\ d.result = OK => d.dma /\ d.id \in sv
  /\ \A i \in DOMAIN d.used : d.used[i].status = "ok" => d.used[i].id \in sv

\* The command of a pending request is with the device or answered, and is
\* the only one of a disk that is online.
Settled(d) ==
  /\ d.pending => \/ d.given = <<d.id>> /\ d.used = <<>>
                  \/ d.given = <<>> /\ \E a \in Answers : a.id = d.id /\ d.used = <<a>>
  /\ d.online /\ ~ d.pending => d.given = <<>> /\ d.used = <<>>

Whole(d, sv) == Loose(d, sv) /\ Settled(d)

\* A section that sets nothing under way.
Less(d, e) ==
  /\ \A w \in e.waiters : HasTicket(d, w.id)
  /\ e.online => d.online
  /\ (d.given = <<>> => e.given = <<>>) /\ (d.used = <<>> => e.used = <<>>)

\* Nor frees the slot.
Kept(d, e) == e.id = d.id /\ e.owner = d.owner /\ Less(d, e)

-----------------------------------------------------------------------------
(***************************************************************************)
(* The sections under the device lock.                                     *)
(***************************************************************************)
\* Tickets leave the line.
LEMMA FewerWaiters ==
  ASSUME NEW sv, NEW d, Loose(d, sv), NEW S \in SUBSET d.waiters
  PROVE  LET e == wait_queue_signal([d EXCEPT !.waiters = S])
         IN  /\ Loose(e, sv) /\ Kept(d, e) /\ e.waiters = S /\ e.pending = d.pending
             /\ e.online = d.online /\ e.result = d.result /\ e.given = d.given /\ e.used = d.used
<1>1. IsFiniteSet(S) /\ Cardinality(S) <= Cardinality(d.waiters) /\ Cardinality(S) \in Nat /\ Cardinality(d.waiters) \in Nat
  BY FS_Subset, FS_CardinalityType DEF Loose
<1>2. Cardinality(S) <= MaxWaiters
  BY <1>1, MaxWaitersAssumption DEF Loose
<1>3. S \in SUBSET Tickets
  BY DEF Loose, Disks
<1> DEFINE e == wait_queue_signal([d EXCEPT !.waiters = S])
<1>4. /\ e \in Disks /\ e.waiters = S /\ e.id = d.id /\ e.owner = d.owner /\ e.pending = d.pending
      /\ e.online = d.online /\ e.dma = d.dma /\ e.given = d.given /\ e.used = d.used /\ e.result = d.result
  BY <1>3 DEF Loose, Disks, wait_queue_signal
<1> HIDE DEF e
<1>5. Loose(e, sv) /\ Kept(d, e)
  BY <1>1, <1>2, <1>4 DEF Loose, Kept, Less, HasTicket
<1>6. QED
  BY <1>4, <1>5 DEF e

LEMMA ExpireKeeps ==
  ASSUME NEW sv, NEW d, Whole(d, sv)
  PROVE  LET e == io_request_expire_waiters(d)
         IN  Whole(e, sv) /\ Kept(d, e) /\ e.pending = d.pending /\ e.online = d.online
<1> DEFINE S == {w \in d.waiters : ~ w.late}
           f == wait_queue_signal([d EXCEPT !.waiters = S])
<1>1. S \in SUBSET d.waiters
  OBVIOUS
<1>2. /\ Loose(f, sv) /\ Kept(d, f) /\ f.pending = d.pending
      /\ f.online = d.online /\ f.result = d.result /\ f.given = d.given /\ f.used = d.used
  BY <1>1, FewerWaiters DEF Whole
<1>3. io_request_expire_waiters(d) = f \/ io_request_expire_waiters(d) = d
  BY DEF io_request_expire_waiters
<1> HIDE DEF f
<1>4. Whole(f, sv)
  BY <1>2 DEF Whole, Settled, Kept, Less, HasTicket
<1>5. Kept(d, d)
  BY DEF Kept, Less, HasTicket
<1>6. QED
  BY <1>2, <1>3, <1>4, <1>5

LEMMA CancelWaiterKeeps ==
  ASSUME NEW sv, NEW d, Whole(d, sv), NEW id
  PROVE  LET e == io_request_cancel_waiter(d, id)
         IN  /\ Whole(e, sv) /\ Kept(d, e) /\ ~ HasTicket(e, id)
             /\ e.pending = d.pending /\ e.online = d.online
<1> DEFINE S == {w \in d.waiters : w.id # id}
<1> DEFINE f == wait_queue_signal([d EXCEPT !.waiters = S])
<1>1. S \in SUBSET d.waiters /\ \A w \in S : w.id # id
  OBVIOUS
<1>0. Loose(d, sv)
  BY DEF Whole
<1>2. /\ Loose(f, sv) /\ Kept(d, f) /\ f.pending = d.pending /\ f.waiters = S
      /\ f.online = d.online /\ f.result = d.result /\ f.given = d.given /\ f.used = d.used
  <2> HIDE DEF S
  <2>1. QED BY <1>0, <1>1, FewerWaiters
<1>3. io_request_cancel_waiter(d, id) = IF HasTicket(d, id) THEN f ELSE d
  BY DEF io_request_cancel_waiter
<1> HIDE DEF f
<1>4. Whole(f, sv)
  BY <1>2 DEF Whole, Settled, Kept, Less, HasTicket
<1>5. ~ HasTicket(f, id)
  BY <1>1, <1>2 DEF HasTicket
<1>6. Kept(d, d)
  BY DEF Kept, Less, HasTicket
<1>7. CASE HasTicket(d, id)
  BY <1>2, <1>3, <1>4, <1>5, <1>7
<1>8. CASE ~ HasTicket(d, id)
  BY <1>3, <1>6, <1>8
<1>9. QED
  BY <1>7, <1>8

\* The request gets a result, whether it was asked to or not.
LEMMA CompleteKeeps ==
  ASSUME NEW sv, NEW d, Loose(d, sv), NEW res \in Errors \cup {OK},
         res = OK => d.id \in sv
  PROVE  LET e == io_request_complete(d, res)
         IN  /\ Loose(e, sv) /\ Kept(d, e) /\ ~ e.pending /\ e.online = d.online
             /\ e.given = d.given /\ e.used = d.used
             /\ res # OK => e.result = d.result \/ e.result # OK
<1> DEFINE f == wait_queue_signal([d EXCEPT !.result = res, !.pending = FALSE, !.late = FALSE])
<1>1. /\ f \in Disks /\ f.waiters = d.waiters /\ f.id = d.id /\ f.owner = d.owner /\ f.pending = FALSE
      /\ f.online = d.online /\ f.dma = d.dma /\ f.given = d.given /\ f.used = d.used /\ f.result = res
  BY DEF Loose, Disks, wait_queue_signal
<1>2. io_request_complete(d, res) = IF d.pending THEN f ELSE d
  BY DEF io_request_complete
<1> HIDE DEF f
<1>3. CASE d.pending
  <2>1. Loose(f, sv) /\ Kept(d, f)
    BY <1>1, <1>3 DEF Loose, Kept, Less, HasTicket
  <2>2. QED
    BY <1>1, <1>2, <1>3, <2>1
<1>4. CASE ~ d.pending
  BY <1>2, <1>4 DEF Kept, Less, HasTicket
<1>5. QED
  BY <1>3, <1>4

LEMMA AbortKeeps ==
  ASSUME NEW sv, NEW d, Loose(d, sv), NEW error \in Errors
  PROVE  LET e == io_request_abort(d, error)
         IN  /\ Loose(e, sv) /\ Kept(d, e) /\ ~ e.pending /\ e.online = d.online
             /\ e.given = d.given /\ e.used = d.used
             /\ e.id # 0 => e.result # OK
<1> DEFINE f == wait_queue_signal([d EXCEPT !.result = error, !.pending = FALSE, !.late = FALSE])
<1>1. /\ f \in Disks /\ f.waiters = d.waiters /\ f.id = d.id /\ f.owner = d.owner /\ f.pending = FALSE
      /\ f.online = d.online /\ f.dma = d.dma /\ f.given = d.given /\ f.used = d.used /\ f.result = error
  BY DEF Loose, Disks, wait_queue_signal
<1>2. io_request_abort(d, error) = IF d.id # 0 THEN f ELSE d
  BY DEF io_request_abort
<1>3. error # OK
  BY DEF Errors, OK, CANCELED, TIMEOUT, IO
<1> HIDE DEF f
<1>4. CASE d.id # 0
  <2>1. Loose(f, sv) /\ Kept(d, f)
    BY <1>1, <1>3 DEF Loose, Kept, Less, HasTicket
  <2>2. QED
    BY <1>1, <1>2, <1>3, <1>4, <2>1
<1>5. CASE d.id = 0
  BY <1>2, <1>5 DEF Kept, Less, HasTicket, Loose
<1>6. QED
  BY <1>4, <1>5

LEMMA StopKeeps ==
  ASSUME NEW sv, NEW d, Loose(d, sv), NEW ack \in BOOLEAN
  PROVE  LET e == stop(d, ack)
         IN  /\ Whole(e, sv) /\ Kept(d, e) /\ ~ e.pending /\ ~ e.online
             /\ e.id # 0 => e.result # OK
             /\ e.waiters = {}
             /\ ack => e.given = <<>> /\ e.used = <<>>
<1> DEFINE c == io_request_cancel_waiters(d)
           e == IF c.result = OK THEN io_request_abort(c, CANCELED) ELSE io_request_complete(c, CANCELED)
           f == [virtio_stop(e, ack) EXCEPT !.online = FALSE, !.dma = @ /\ ~ ack]
<1>1. Loose(c, sv) /\ Kept(d, c) /\ c.waiters = {}
  <2>1. {} \in SUBSET d.waiters
    OBVIOUS
  <2> DEFINE g == wait_queue_signal([d EXCEPT !.waiters = {}])
  <2>2. Loose(g, sv) /\ Kept(d, g) /\ g.waiters = {}
    BY <2>1, FewerWaiters
  <2>3. QED
    BY <2>2 DEF io_request_cancel_waiters
<1>2. CANCELED \in Errors /\ CANCELED # OK
  BY DEF Errors, CANCELED, OK
<1> HIDE DEF c
<1>3. Loose(e, sv) /\ Kept(c, e) /\ ~ e.pending /\ (e.id # 0 => e.result # OK)
  <2>1. CASE c.result = OK
    BY <1>1, <1>2, <2>1, AbortKeeps
  <2>2. CASE c.result # OK
    BY <1>1, <1>2, <2>2, CompleteKeeps
  <2>3. QED
    BY <2>1, <2>2
<1> HIDE DEF e
<1>4. /\ f \in Disks /\ f.waiters = e.waiters /\ f.id = e.id /\ f.owner = e.owner /\ f.pending = e.pending
      /\ f.result = e.result /\ f.online = FALSE /\ f.dma = (e.dma /\ ~ ack)
      /\ f.given = (IF ack THEN <<>> ELSE e.given) /\ f.used = (IF ack THEN <<>> ELSE e.used)
  <2>0. e \in Disks
    BY <1>3 DEF Loose
  <2>1. CASE ack
    <3>1. f = [[e EXCEPT !.config = FALSE, !.given = <<>>, !.used = <<>>] EXCEPT !.online = FALSE, !.dma = FALSE]
      BY <2>0, <2>1 DEF virtio_stop, Disks
    <3>2. <<>> \in Seq(Ids) /\ <<>> \in Seq(Answers)
      OBVIOUS
    <3>3. QED
      BY <2>0, <2>1, <3>1, <3>2 DEF Disks
  <2>2. CASE ~ ack
    <3>1. f = [[e EXCEPT !.config = FALSE] EXCEPT !.online = FALSE, !.dma = e.dma]
      BY <2>0, <2>2 DEF virtio_stop, Disks
    <3>2. QED
      BY <2>0, <2>2, <3>1 DEF Disks
  <2>3. QED
    BY <2>1, <2>2
<1>5. stop(d, ack) = f
  BY DEF stop, f, e, c
<1> HIDE DEF f
<1>6. e.waiters = {}
  BY <1>1, <1>3 DEF Kept, Less, HasTicket
<1>7. Loose(f, sv)
  <2>1. CASE ack
    BY <1>3, <1>4, <2>1 DEF Loose
  <2>2. CASE ~ ack
    BY <1>3, <1>4, <2>2 DEF Loose
  <2>3. QED
    BY <2>1, <2>2
<1>8. Settled(f)
  BY <1>3, <1>4 DEF Settled
<1>9. Kept(d, f)
  BY <1>1, <1>3, <1>4 DEF Kept, Less, HasTicket
<1>10. QED
  BY <1>3, <1>4, <1>5, <1>6, <1>7, <1>8, <1>9 DEF Whole

LEMMA CheckKeeps ==
  ASSUME NEW sv, NEW d, Whole(d, sv), NEW ack \in BOOLEAN
  PROVE  LET e == check_configuration(d, ack)
         IN  Whole(e, sv) /\ Kept(d, e)
<1> DEFINE c == [d EXCEPT !.config = FALSE]
           e == io_request_abort(c, IO)
<1>1. /\ c \in Disks /\ c.waiters = d.waiters /\ c.id = d.id /\ c.owner = d.owner /\ c.pending = d.pending
      /\ c.online = d.online /\ c.dma = d.dma /\ c.given = d.given /\ c.used = d.used /\ c.result = d.result
  BY DEF Whole, Loose, Disks
<1>2. check_configuration(d, ack) = IF d.online /\ d.config THEN stop(e, ack) ELSE d
  BY DEF check_configuration
<1> HIDE DEF c
<1>3. Loose(c, sv) /\ Kept(d, c)
  BY <1>1 DEF Whole, Loose, Kept, Less, HasTicket
<1>4. IO \in Errors
  BY DEF Errors
<1>5. Loose(e, sv) /\ Kept(c, e)
  BY <1>3, <1>4, AbortKeeps
<1> HIDE DEF e
<1>6. Whole(stop(e, ack), sv) /\ Kept(e, stop(e, ack))
  BY <1>5, StopKeeps
<1>7. Kept(d, stop(e, ack)) /\ Kept(d, d)
  BY <1>3, <1>5, <1>6 DEF Kept, Less, HasTicket
<1>8. QED
  BY <1>2, <1>6, <1>7

\* An answer is that to the pending request.
LEMMA PollKeeps ==
  ASSUME NEW sv, NEW d, Whole(d, sv), NEW ack \in BOOLEAN
  PROVE  LET e == poll_request(d, ack)
         IN  Whole(e, sv) /\ Kept(d, e) /\ (~ d.pending => e = d)
<1>1. CASE ~ d.pending
  BY <1>1 DEF poll_request, Kept, Less, HasTicket
<1>2. CASE d.pending /\ d.used = <<>>
  <2>1. TIMEOUT \in Errors
    BY DEF Errors
  <2> DEFINE e == io_request_complete(d, TIMEOUT)
  <2>2. Loose(e, sv) /\ Kept(d, e)
    BY <2>1, CompleteKeeps DEF Whole, Errors, TIMEOUT, OK, CANCELED, IO
  <2>3. poll_request(d, ack) = IF d.late THEN stop(e, ack) ELSE d
    BY <1>2 DEF poll_request
  <2> HIDE DEF e
  <2>4. Whole(stop(e, ack), sv) /\ Kept(e, stop(e, ack))
    BY <2>2, StopKeeps
  <2>5. QED
    BY <1>2, <2>2, <2>3, <2>4 DEF Kept, Less, HasTicket
<1>3. CASE d.pending /\ d.used # <<>>
  <2>1. PICK a \in Answers : d.given = <<>> /\ a.id = d.id /\ d.used = <<a>>
    BY <1>3 DEF Whole, Settled
  <2>2. Head(d.used) = a /\ Tail(d.used) = <<>> /\ DOMAIN d.used = {1} /\ d.used[1] = a
    BY <2>1
  <2>3. a.status = "ok" => d.id \in sv
    BY <2>1, <2>2 DEF Whole, Loose
  <2> DEFINE p == [d EXCEPT !.used = Tail(@)]
             r == IF a.status = "ok" THEN OK ELSE IO
             e == io_request_complete(p, r)
             b == io_request_complete(p, IO)
  <2>4. /\ p \in Disks /\ p.waiters = d.waiters /\ p.id = d.id /\ p.owner = d.owner /\ p.pending = d.pending
        /\ p.online = d.online /\ p.dma = d.dma /\ p.given = d.given /\ p.used = <<>> /\ p.result = d.result
    BY <2>2 DEF Whole, Loose, Disks
  <2>5. poll_request(d, ack) = IF a.status = "bad" THEN stop(b, ack) ELSE e
    BY <1>3, <2>2 DEF poll_request
  <2>6. IO \in Errors /\ r \in Errors \cup {OK} /\ (r = OK => a.status = "ok")
    BY DEF Errors, IO, OK
  <2> HIDE DEF p, r
  <2>7. Loose(p, sv) /\ Kept(d, p)
    BY <2>4 DEF Whole, Loose, Kept, Less, HasTicket
  <2>8. Loose(b, sv) /\ Kept(p, b)
    BY <2>6, <2>7, CompleteKeeps DEF Errors, IO, OK, CANCELED, TIMEOUT
  <2>9. Loose(e, sv) /\ Kept(p, e) /\ ~ e.pending /\ e.given = <<>> /\ e.used = <<>>
    BY <2>1, <2>3, <2>4, <2>6, <2>7, CompleteKeeps
  <2> HIDE DEF e, b
  <2>10. Whole(e, sv)
    BY <2>9 DEF Whole, Settled
  <2>11. Whole(stop(b, ack), sv) /\ Kept(b, stop(b, ack))
    BY <2>8, StopKeeps
  <2>12. Kept(d, e) /\ Kept(d, stop(b, ack))
    BY <2>7, <2>8, <2>9, <2>11 DEF Kept, Less, HasTicket
  <2>13. QED
    BY <1>3, <2>5, <2>10, <2>11, <2>12
<1>4. QED
  BY <1>1, <1>2, <1>3

LEMMA ServiceKeeps ==
  ASSUME NEW sv, NEW d, Whole(d, sv), NEW ack \in BOOLEAN
  PROVE  LET e == service_disk(d, ack)
         IN  Whole(e, sv) /\ Kept(d, e)
<1> DEFINE a == io_request_expire_waiters(d)
           b == check_configuration(a, ack)
<1>1. Whole(a, sv) /\ Kept(d, a)
  BY ExpireKeeps
<1> HIDE DEF a
<1>2. Whole(b, sv) /\ Kept(a, b)
  BY <1>1, CheckKeeps
<1> HIDE DEF b
<1>3. Whole(poll_request(b, ack), sv) /\ Kept(b, poll_request(b, ack))
  BY <1>2, PollKeeps
<1>4. service_disk(d, ack) = poll_request(b, ack)
  BY DEF service_disk, a, b
<1>5. QED
  BY <1>1, <1>2, <1>3, <1>4 DEF Kept, Less, HasTicket

\* The slot is freed.
LEMMA ReleaseKeeps ==
  ASSUME NEW sv, NEW d, Whole(d, sv), ~ d.pending
  PROVE  LET e == io_request_release(d)
         IN  /\ Whole(e, sv) /\ e.id = 0 /\ e.waiters = d.waiters
             /\ e.online = d.online /\ e.given = d.given /\ e.used = d.used
<1> DEFINE e == io_request_release(d)
<1>1. /\ e \in Disks /\ e.waiters = d.waiters /\ e.id = 0 /\ e.owner = Nobody /\ e.pending = FALSE
      /\ e.online = d.online /\ e.dma = d.dma /\ e.given = d.given /\ e.used = d.used /\ e.result = d.result
  BY DEF Whole, Loose, Disks, io_request_release, wait_queue_signal
<1> HIDE DEF e
<1>2. Whole(e, sv)
  BY <1>1 DEF Whole, Loose, Settled
<1>3. QED
  BY <1>1, <1>2 DEF e

LEMMA CanceledKeeps ==
  ASSUME NEW sv, NEW d, Whole(d, sv), NEW ack \in BOOLEAN
  PROVE  LET e == Canceled(d, ack)
         IN  Whole(e, sv) /\ e.id = 0 /\ Less(d, e)
<1> DEFINE s == IF d.pending THEN stop(d, ack) ELSE d
<1>0. Less(d, d)
  BY DEF Less, HasTicket
<1>1. Whole(s, sv) /\ ~ s.pending /\ Less(d, s)
  BY <1>0, StopKeeps DEF Whole, Kept
<1> HIDE DEF s
<1>2. Canceled(d, ack) = io_request_release(s)
  BY DEF Canceled, s
<1> DEFINE e == io_request_release(s)
<1>3. /\ Whole(e, sv) /\ e.id = 0 /\ e.waiters = s.waiters
      /\ e.online = s.online /\ e.given = s.given /\ e.used = s.used
  BY <1>1, ReleaseKeeps
<1> HIDE DEF e
<1>4. Less(d, e)
  BY <1>1, <1>3 DEF Less
<1>5. QED
  BY <1>2, <1>3, <1>4 DEF e

\* A caller takes a snapshot of the wait queue.
LEMMA SnapshotKeeps ==
  ASSUME NEW sv, NEW d, Whole(d, sv), NEW t
  PROVE  LET e == [d EXCEPT !.woken = @ \ {t}]
         IN  Whole(e, sv) /\ Kept(d, e) /\ e.waiters = d.waiters
<1> DEFINE e == [d EXCEPT !.woken = @ \ {t}]
<1>1. /\ e \in Disks /\ e.waiters = d.waiters /\ e.id = d.id /\ e.owner = d.owner /\ e.pending = d.pending
      /\ e.online = d.online /\ e.dma = d.dma /\ e.given = d.given /\ e.used = d.used /\ e.result = d.result
  BY DEF Whole, Loose, Disks
<1> HIDE DEF e
<1>2. Whole(e, sv) /\ Kept(d, e)
  BY <1>1 DEF Whole, Loose, Settled, Kept, Less, HasTicket
<1>3. QED
  BY <1>1, <1>2 DEF e

\* The slot is taken.
LEMMA BegunKeeps ==
  ASSUME NEW sv, NEW d, Whole(d, sv), d.id = 0, d.online,
         NEW id \in Ids, NEW owner \in Tasks \cup {Nobody}
  PROVE  LET e == Begun(d, id, owner)
         IN  /\ Whole(e, sv) /\ e.id = id /\ e.owner = owner
             /\ \A w \in e.waiters : HasTicket(d, w.id) /\ w.id # id
<1> DEFINE c == io_request_cancel_waiter(d, id)
           e == Begun(d, id, owner)
<1>1. Whole(c, sv) /\ Kept(d, c) /\ ~ HasTicket(c, id) /\ c.pending = d.pending /\ c.online = d.online
  BY CancelWaiterKeeps
<1> HIDE DEF c
<1>2. c.given = <<>> /\ c.used = <<>> /\ c \in Disks /\ c.dma
  BY <1>1 DEF Whole, Loose, Settled
<1>3. Append(<<>>, id) = <<id>> /\ <<id>> \in Seq(Ids) /\ id # 0 /\ <<id>> # <<>>
  BY DEF Ids
<1>4. /\ e = [[c EXCEPT !.given = <<id>>] EXCEPT
               !.id = id, !.owner = owner, !.late = FALSE, !.pending = TRUE, !.result = PENDING]
  BY <1>2, <1>3 DEF Begun, virtio_submit, c
<1>5. /\ e \in Disks /\ e.waiters = c.waiters /\ e.id = id /\ e.owner = owner /\ e.pending = TRUE
      /\ e.online = c.online /\ e.dma = c.dma /\ e.given = <<id>> /\ e.used = c.used /\ e.result = PENDING
  BY <1>2, <1>3, <1>4, ZenonT(30) DEF Disks
<1> HIDE DEF e
<1>6. PENDING # OK
  BY DEF PENDING, OK
<1>7. Whole(e, sv)
  BY <1>1, <1>2, <1>3, <1>5, <1>6 DEF Whole, Loose, Settled
<1>8. \A w \in e.waiters : HasTicket(d, w.id) /\ w.id # id
  BY <1>1, <1>5 DEF Kept, Less, HasTicket, HasTicket
<1>9. QED
  BY <1>5, <1>7, <1>8 DEF e

-----------------------------------------------------------------------------
(***************************************************************************)
(* The inductive invariant.                                                *)
(***************************************************************************)
\* Everything but the disk has its type.
OthersTyped ==
  /\ initialized \in BOOLEAN /\ disk_count \in {0, 1} /\ next_id \in 0 .. MaxId
  /\ pc \in [Tasks -> Places]
  /\ admission \in [Tasks -> Ids \cup {0}] /\ token \in [Tasks -> Ids \cup {0}]
  /\ late \subseteq Tasks /\ alive \subseteq Tasks /\ served \subseteq Ids
  /\ client \in [token : Ids \cup {0}, ok : BOOLEAN]
  /\ service \in [at : {"first", "check", "second"}, id : Ids \cup {0},
                  owner : Tasks \cup {Nobody}, dead : BOOLEAN]

\* A disk that is not set up has nothing under way.
SetUpInv ==
  /\ initialized <=> disk_count = 1
  /\ ~ initialized => disk.id = 0 /\ ~ disk.online /\ disk.given = <<>> /\ disk.used = <<>>

\* An id belongs to one ticket or one request, of one holder.
IdsInv ==
  /\ \A t \in Tasks : admission[t] <= next_id /\ token[t] <= next_id
  /\ client.token <= next_id
  /\ \A t, u \in Tasks :
       /\ admission[t] # 0 => admission[t] # token[u] /\ admission[t] # client.token
       /\ t # u /\ admission[t] # 0 => admission[t] # admission[u]
       /\ t # u /\ token[t] # 0 => token[t] # token[u]
       /\ token[t] # 0 => token[t] # client.token

\* Who holds the id in the slot is its owner.
OwnerInv ==
  disk.id # 0 =>
    /\ \A t \in Tasks : token[t] = disk.id => disk.owner = t
    /\ client.token = disk.id => disk.owner = Nobody

\* A live caller outside the line has no ticket, one that waits for a result
\* has an id, and the service knows the dead from the living.
CallerInv ==
  /\ \A t \in alive : /\ pc[t] \in {"idle", "ok", "collect", "wait"} => admission[t] = 0
                      /\ pc[t] \in {"collect", "wait"} => token[t] # 0
  /\ service.dead => service.owner \notin alive /\ service.at = "second"

IInv ==
  /\ Whole(disk, served) /\ OthersTyped /\ SetUpInv
  /\ IdsInv /\ OwnerInv /\ CallerInv
  /\ OkIsServed /\ TicketsOwned

LEMMA IInvGives == IInv => Safety
<1> SUFFICES ASSUME IInv PROVE Safety
  OBVIOUS
<1>1. TypeOK
  BY DEF IInv, Whole, Loose, OthersTyped, TypeOK
<1>2. DmaPinned
  BY DEF IInv, Whole, Loose, DmaPinned
<1>3. QED
  BY <1>1, <1>2 DEF IInv, Safety

LEMMA InitIInv == Init => IInv
<1> SUFFICES ASSUME Init PROVE IInv
  OBVIOUS
<1>1. disk \in Disks
  <2>1. {} \in SUBSET Tickets /\ <<>> \in Seq(Ids) /\ <<>> \in Seq(Answers) /\ Tasks \in SUBSET Tasks
    OBVIOUS
  <2>2. QED
    BY <2>1 DEF Init, Disks
<1>2. Whole(disk, served)
  <2>1. IsFiniteSet({}) /\ Cardinality({}) = 0
    BY FS_EmptySet
  <2>2. disk.waiters = {} /\ Cardinality(disk.waiters) <= MaxWaiters
    BY <2>1, MaxWaitersAssumption DEF Init
  <2>3. QED
    BY <1>1, <2>1, <2>2 DEF Init, Whole, Loose, Settled
<1>3. OthersTyped
  <2>1. next_id \in 0 .. MaxId
    BY MaxIdAssumption DEF Init
  <2>2. pc \in [Tasks -> Places] /\ admission \in [Tasks -> Ids \cup {0}] /\ token \in [Tasks -> Ids \cup {0}]
    BY DEF Init, Places
  <2>3. client \in [token : Ids \cup {0}, ok : BOOLEAN]
    BY DEF Init
  <2>4. service \in [at : {"first", "check", "second"}, id : Ids \cup {0},
                     owner : Tasks \cup {Nobody}, dead : BOOLEAN]
    BY DEF Init
  <2>5. QED
    BY <2>1, <2>2, <2>3, <2>4 DEF Init, OthersTyped
<1>4. SetUpInv /\ IdsInv /\ OwnerInv
  BY DEF Init, SetUpInv, IdsInv, OwnerInv
<1>6. CallerInv /\ OkIsServed /\ TicketsOwned
  BY DEF Init, CallerInv, OkIsServed, TicketsOwned
<1>5. QED
  BY <1>2, <1>3, <1>4, <1>6 DEF IInv

-----------------------------------------------------------------------------
(***************************************************************************)
(* Steps that let go of ids, tickets and commands, or leave them alone.    *)
(***************************************************************************)
LEMMA IdsKept ==
  ASSUME IInv, UNCHANGED next_id, client'.token \in {client.token, 0},
         \A t \in Tasks : admission'[t] \in {admission[t], 0} /\ token'[t] \in {token[t], 0}
  PROVE  IdsInv'
<1>1. /\ \A t \in Tasks : admission[t] \in Nat /\ token[t] \in Nat /\ 0 <= admission[t] /\ 0 <= token[t]
      /\ client.token \in Nat /\ next_id \in Nat
  BY MaxIdAssumption DEF IInv, OthersTyped, Ids
<1>2. /\ \A t \in Tasks : admission'[t] <= next_id' /\ token'[t] <= next_id'
      /\ client'.token <= next_id'
  BY <1>1 DEF IInv, IdsInv
<1>3. \A t, u \in Tasks :
       /\ admission'[t] # 0 => admission'[t] # token'[u] /\ admission'[t] # client'.token
       /\ t # u /\ admission'[t] # 0 => admission'[t] # admission'[u]
       /\ t # u /\ token'[t] # 0 => token'[t] # token'[u]
       /\ token'[t] # 0 => token'[t] # client'.token
  BY DEF IInv, IdsInv
<1>4. QED
  BY <1>2, <1>3 DEF IdsInv

LEMMA SlotKeptInv ==
  ASSUME IInv, disk'.id \in {disk.id, 0}, disk'.id # 0 => disk'.owner = disk.owner,
         client'.token \in {client.token, 0}, \A t \in Tasks : token'[t] \in {token[t], 0}
  PROVE  OwnerInv'
BY DEF IInv, OwnerInv

LEMMA SetUpKept ==
  ASSUME IInv, disk'.id \in {disk.id, 0}, Less(disk, disk'), UNCHANGED <<initialized, disk_count>>,
         disk' \in Disks
  PROVE  SetUpInv'
BY DEF IInv, Whole, Loose, Disks, SetUpInv, Less

LEMMA LineKept ==
  ASSUME IInv, \A w \in disk'.waiters : HasTicket(disk, w.id),
         \A t \in Tasks, w \in disk'.waiters :
           /\ admission[t] = w.id
           /\ pc[t] \in {"submit", "queue", "giveup"} \/ t \notin alive
           => /\ admission'[t] = w.id
              /\ pc'[t] \in {"submit", "queue", "giveup"} \/ t \notin alive'
  PROVE  TicketsOwned'
BY DEF IInv, TicketsOwned, HasTicket

\* Steps of the disk, the client and the service.
LEMMA DiskStepKeeps ==
  ASSUME IInv, Whole(disk', served), Less(disk, disk'),
         disk'.id \in {disk.id, 0}, disk'.id # 0 => disk'.owner = disk.owner,
         UNCHANGED <<initialized, disk_count, next_id, callerVars, served>>,
         client' \in [token : Ids \cup {0}, ok : BOOLEAN],
         client'.token \in {client.token, 0},
         client'.ok => client'.token \in served,
         service' \in [at : {"first", "check", "second"}, id : Ids \cup {0},
                       owner : Tasks \cup {Nobody}, dead : BOOLEAN],
         service'.dead => service'.owner \notin alive /\ service'.at = "second"
  PROVE  IInv'
<1> USE DEF callerVars
<1>1. OthersTyped' /\ Whole(disk, served)'
  BY DEF IInv, OthersTyped
<1>2. SetUpInv'
  BY SetUpKept DEF Whole, Loose
<1>3. IdsInv'
  BY IdsKept
<1>4. OwnerInv'
  BY SlotKeptInv
<1>5. CallerInv' /\ OkIsServed'
  BY DEF IInv, CallerInv, OkIsServed
<1>6. TicketsOwned'
  BY LineKept DEF Less
<1>7. QED
  BY <1>1, <1>2, <1>3, <1>4, <1>5, <1>6 DEF IInv

\* What submit_owned looks at first.
LEMMA ExaminedKeeps ==
  ASSUME IInv, NEW ack \in BOOLEAN
  PROVE  /\ Whole(Examined(ack), served) /\ Kept(disk, Examined(ack))
         /\ LET e == io_request_expire_waiters(Examined(ack))
            IN  Whole(e, served) /\ Kept(disk, e) /\ e.online = Examined(ack).online
<1>1. Whole(disk, served) /\ Kept(disk, disk)
  BY DEF IInv, Kept, Less, HasTicket
<1>2. Whole(Examined(ack), served) /\ Kept(disk, Examined(ack))
  BY <1>1, CheckKeeps DEF Examined
<1> DEFINE x == Examined(ack)
           e == io_request_expire_waiters(x)
<1> HIDE DEF x
<1>3. Whole(e, served) /\ Kept(x, e) /\ e.online = x.online
  BY <1>2, ExpireKeeps DEF x
<1> HIDE DEF e
<1>4. Kept(disk, e)
  BY <1>2, <1>3 DEF Kept, Less, HasTicket, x
<1>5. QED
  BY <1>2, <1>3, <1>4 DEF x, e

LEMMA SetUpSteps ==
  ASSUME IInv, \/ \E ok \in BOOLEAN : block_init(ok)
               \/ \E ack \in BOOLEAN : block_shutdown(ack)
  PROVE  IInv'
<1>1. UNCHANGED <<next_id, callerVars, client, service, served>> /\ initialized' \in BOOLEAN /\ disk_count' \in {0, 1}
  BY DEF block_init, block_shutdown
<1>2. OthersTyped'
  BY <1>1 DEF IInv, OthersTyped, callerVars
<1>3. IdsInv' /\ CallerInv' /\ OkIsServed'
  BY <1>1 DEF IInv, IdsInv, CallerInv, OkIsServed, callerVars
<1>4. Whole(disk, served)
  BY DEF IInv
<1>5. ASSUME NEW ok \in BOOLEAN, block_init(ok) PROVE IInv'
  <2>1. /\ disk.id = 0 /\ ~ disk.online /\ ~ disk.pending /\ disk.given = <<>> /\ disk.used = <<>> /\ disk.owner = Nobody
        /\ disk \in Disks
    BY <1>5 DEF block_init, IInv, SetUpInv, Whole, Loose
  <2>2. CASE ok
    <3> DEFINE e == [disk EXCEPT !.online = TRUE, !.dma = TRUE, !.config = FALSE]
    <3>1. /\ e \in Disks /\ e.waiters = disk.waiters /\ e.id = 0 /\ e.owner = Nobody /\ e.pending = FALSE
          /\ e.online = TRUE /\ e.dma = TRUE /\ e.given = <<>> /\ e.used = <<>>
      BY <2>1 DEF Disks
    <3>2. disk' = e
      BY <1>5, <2>2 DEF block_init
    <3> HIDE DEF e
    <3>3. Whole(e, served)
      BY <1>4, <3>1 DEF Whole, Loose, Settled
    <3>4. SetUpInv' /\ OwnerInv'
      BY <1>5, <3>1, <3>2 DEF block_init, SetUpInv, OwnerInv
    <3>5. TicketsOwned'
      BY <1>1, <3>1, <3>2 DEF IInv, TicketsOwned, callerVars
    <3>6. QED
      BY <1>1, <1>2, <1>3, <3>2, <3>3, <3>4, <3>5 DEF IInv
  <2>3. CASE ~ ok
    <3>1. disk' = stop(disk, TRUE)
      BY <1>5, <2>3 DEF block_init
    <3>2. Whole(disk', served) /\ disk'.id = 0 /\ disk'.waiters = {}
      BY <1>4, <2>1, <3>1, StopKeeps DEF Whole, Kept
    <3>3. SetUpInv' /\ OwnerInv' /\ TicketsOwned'
      BY <1>5, <3>2 DEF block_init, SetUpInv, OwnerInv, TicketsOwned
    <3>4. QED
      BY <1>1, <1>2, <1>3, <3>2, <3>3 DEF IInv
  <2>4. QED
    BY <2>2, <2>3
<1>6. ASSUME NEW ack \in BOOLEAN, block_shutdown(ack) PROVE IInv'
  <2> DEFINE s == stop(disk, ack)
  <2>1. /\ Whole(s, served) /\ ~ s.pending /\ ~ s.online /\ s.waiters = {}
        /\ ack => s.given = <<>> /\ s.used = <<>>
    BY <1>4, StopKeeps DEF Whole
  <2>2. disk' = io_request_release(s) /\ initialized' = ~ ack /\ disk_count' = IF ack THEN 0 ELSE 1
    BY <1>6 DEF block_shutdown
  <2> HIDE DEF s
  <2>3. /\ Whole(disk', served) /\ disk'.id = 0 /\ disk'.waiters = {} /\ ~ disk'.online
        /\ ack => disk'.given = <<>> /\ disk'.used = <<>>
    BY <2>1, <2>2, ReleaseKeeps
  <2>4. SetUpInv'
    <3>1. CASE ack
      <4>1. ~ initialized' /\ disk_count' = 0
        BY <2>2, <3>1
      <4>2. QED
        BY <2>3, <3>1, <4>1 DEF SetUpInv
    <3>2. CASE ~ ack
      <4>1. initialized' /\ disk_count' = 1
        BY <2>2, <3>2
      <4>2. QED
        BY <4>1 DEF SetUpInv
    <3>3. QED
      BY <3>1, <3>2
  <2>5. OwnerInv' /\ TicketsOwned'
    BY <2>3 DEF OwnerInv, TicketsOwned
  <2>6. QED
    BY <1>1, <1>2, <1>3, <2>3, <2>4, <2>5 DEF IInv
<1>7. QED
  BY <1>5, <1>6

LEMMA ServiceSteps ==
  ASSUME IInv, \/ \E ack \in BOOLEAN : ServiceFirst(ack) \/ ServiceSecond(ack)
               \/ ServiceCheck \/ ServiceBusy
  PROVE  IInv'
<1>1. /\ Whole(disk, served) /\ disk.id \in {disk.id, 0} /\ Kept(disk, disk)
      /\ client \in [token : Ids \cup {0}, ok : BOOLEAN] /\ (client.ok => client.token \in served)
      /\ disk \in Disks
  BY DEF IInv, Whole, Loose, OthersTyped, OkIsServed, Kept, Less, HasTicket
<1>2. /\ NoSnapshot \in [at : {"first", "check", "second"}, id : Ids \cup {0},
                         owner : Tasks \cup {Nobody}, dead : BOOLEAN]
      /\ ~ NoSnapshot.dead
  BY DEF NoSnapshot
<1>3. ASSUME NEW ack \in BOOLEAN, ServiceFirst(ack) PROVE IInv'
  <2>1. CASE disk.owner = Nobody
    <3>1. disk' = service_disk(disk, ack) /\ UNCHANGED service
      BY <1>3, <2>1 DEF ServiceFirst
    <3>2. Whole(disk', served) /\ Kept(disk, disk')
      BY <1>1, <3>1, ServiceKeeps
    <3>3. QED
      BY <1>1, <1>3, <3>1, <3>2, DiskStepKeeps DEF ServiceFirst, Kept, IInv, OthersTyped, CallerInv
  <2>2. CASE disk.owner # Nobody
    <3>1. service' = [service EXCEPT !.at = "check", !.id = disk.id, !.owner = disk.owner] /\ UNCHANGED disk
      BY <1>3, <2>2 DEF ServiceFirst
    <3>2. service' \in [at : {"first", "check", "second"}, id : Ids \cup {0},
                        owner : Tasks \cup {Nobody}, dead : BOOLEAN]
      BY <1>1, <3>1 DEF IInv, OthersTyped, Disks
    <3>3. ~ service'.dead
      BY <1>3, <3>1 DEF ServiceFirst, IInv, OthersTyped, CallerInv
    <3>4. QED
      BY <1>1, <1>3, <3>1, <3>2, <3>3, DiskStepKeeps DEF ServiceFirst, Kept
  <2>3. QED
    BY <2>1, <2>2
<1>4. ASSUME NEW ack \in BOOLEAN, ServiceSecond(ack) PROVE IInv'
  <2> DEFINE c == IF Abandoned THEN Canceled(disk, ack) ELSE disk
  <2>1. /\ Whole(c, served) /\ Less(disk, c) /\ c.id \in {disk.id, 0}
        /\ c.id # 0 => c.owner = disk.owner
    BY <1>1, CanceledKeeps DEF Kept
  <2>2. disk' = service_disk(c, ack) /\ service' = NoSnapshot
    BY <1>4 DEF ServiceSecond
  <2> HIDE DEF c
  <2>3. Whole(disk', served) /\ Kept(c, disk')
    BY <2>1, <2>2, ServiceKeeps
  <2>4. Less(disk, disk')
    BY <2>1, <2>3 DEF Kept, Less, HasTicket
  <2>5. disk'.id \in {disk.id, 0} /\ (disk'.id # 0 => disk'.owner = disk.owner)
    BY <2>1, <2>3 DEF Kept
  <2>6. QED
    BY <1>1, <1>2, <1>4, <2>2, <2>3, <2>4, <2>5, DiskStepKeeps DEF ServiceSecond
<1>5. CASE ServiceCheck
  <2>1. service' = IF service.owner \in alive THEN [NoSnapshot EXCEPT !.at = "second"]
                   ELSE [service EXCEPT !.at = "second", !.dead = TRUE]
    BY <1>5 DEF ServiceCheck
  <2>2. service' \in [at : {"first", "check", "second"}, id : Ids \cup {0},
                      owner : Tasks \cup {Nobody}, dead : BOOLEAN]
    BY <1>2, <2>1 DEF IInv, OthersTyped
  <2>3. service'.dead => service'.owner \notin alive /\ service'.at = "second"
    BY <1>2, <2>1 DEF IInv, OthersTyped
  <2>4. QED
    BY <1>1, <1>5, <2>2, <2>3, DiskStepKeeps DEF ServiceCheck, Kept
<1>6. CASE ServiceBusy
  BY <1>1, <1>2, <1>6, DiskStepKeeps DEF ServiceBusy, Kept
<1>7. QED
  BY <1>3, <1>4, <1>5, <1>6

LEMMA ClientSteps ==
  ASSUME IInv, \/ \E ack \in BOOLEAN : block_collect(ack) \/ block_cancel(ack)
               \/ ClientNext
  PROVE  IInv'
<1>1. /\ Whole(disk, served) /\ disk.id \in {disk.id, 0} /\ Kept(disk, disk)
      /\ client \in [token : Ids \cup {0}, ok : BOOLEAN] /\ (client.ok => client.token \in served)
      /\ service \in [at : {"first", "check", "second"}, id : Ids \cup {0},
                      owner : Tasks \cup {Nobody}, dead : BOOLEAN]
      /\ service.dead => service.owner \notin alive /\ service.at = "second"
  BY DEF IInv, OthersTyped, OkIsServed, CallerInv, Kept, Less, HasTicket
<1>2. [client EXCEPT !.token = 0] \in [token : Ids \cup {0}, ok : BOOLEAN] /\ [client EXCEPT !.token = 0].token = 0
      /\ [client EXCEPT !.token = 0].ok = client.ok
  BY <1>1
<1>3. ASSUME NEW ack \in BOOLEAN, block_collect(ack) PROVE IInv'
  <2> DEFINE d == service_disk(disk, ack)
  <2>1. Whole(d, served) /\ Kept(disk, d)
    BY <1>1, ServiceKeeps
  <2>2. /\ client.token # 0 /\ ~ client.ok
        /\ \/ disk.id # client.token /\ client' = [client EXCEPT !.token = 0] /\ UNCHANGED disk
           \/ disk.id = client.token /\ d.pending /\ disk' = d /\ UNCHANGED client
           \/ /\ disk.id = client.token /\ ~ d.pending /\ disk' = io_request_release(d)
              /\ client' = IF d.result = OK THEN [client EXCEPT !.ok = TRUE] ELSE [client EXCEPT !.token = 0]
        /\ UNCHANGED <<initialized, disk_count, next_id, callerVars, service, served>>
    BY <1>3 DEF block_collect
  <2> HIDE DEF d
  <2>3. CASE disk.id # client.token
    BY <1>1, <1>2, <2>2, <2>3, DiskStepKeeps DEF Kept
  <2>4. CASE disk.id = client.token /\ d.pending
    BY <1>1, <2>1, <2>2, <2>4, DiskStepKeeps DEF Kept
  <2>5. CASE disk.id = client.token /\ ~ d.pending
    <3>1. disk' = io_request_release(d)
      BY <2>2, <2>5
    <3>2. /\ Whole(disk', served) /\ disk'.id = 0 /\ disk'.waiters = d.waiters
          /\ disk'.online = d.online /\ disk'.given = d.given /\ disk'.used = d.used
      BY <2>1, <2>5, <3>1, ReleaseKeeps
    <3>3. Less(disk, disk')
      BY <2>1, <3>2 DEF Kept, Less
    <3>4. d.result = OK => client.token \in served
      BY <2>1, <2>2, <2>5 DEF Whole, Loose, Kept
    <3>5. client' \in [token : Ids \cup {0}, ok : BOOLEAN] /\ client'.token \in {client.token, 0}
          /\ (client'.ok => client'.token \in served)
      BY <1>1, <1>2, <2>2, <2>5, <3>4
    <3>6. QED
      BY <1>1, <2>2, <3>2, <3>3, <3>5, DiskStepKeeps
  <2>6. QED
    BY <2>3, <2>4, <2>5
<1>4. ASSUME NEW ack \in BOOLEAN, block_cancel(ack) PROVE IInv'
  <2>1. disk' = IF disk.id = client.token THEN Canceled(disk, ack) ELSE disk
    BY <1>4 DEF block_cancel
  <2>2. Whole(disk', served) /\ Less(disk, disk') /\ disk'.id \in {disk.id, 0} /\ (disk'.id # 0 => disk'.owner = disk.owner)
    BY <1>1, <2>1, CanceledKeeps DEF Kept
  <2>3. QED
    BY <1>1, <1>2, <1>4, <2>2, DiskStepKeeps DEF block_cancel
<1>5. CASE ClientNext
  <2>1. [token |-> 0, ok |-> FALSE] \in [token : Ids \cup {0}, ok : BOOLEAN]
    OBVIOUS
  <2>2. QED
    BY <1>1, <1>5, <2>1, DiskStepKeeps DEF ClientNext, Kept
<1>6. QED
  BY <1>3, <1>4, <1>5

-----------------------------------------------------------------------------
(***************************************************************************)
(* Steps that draw an id.                                                  *)
(***************************************************************************)
\* The next id is nobody's yet.
LEMMA FreshId ==
  ASSUME IInv, next_id < MaxId
  PROVE  /\ next_id + 1 \in Ids /\ next_id + 1 \in 0 .. MaxId /\ next_id + 1 # 0
         /\ \A t \in Tasks : admission[t] < next_id + 1 /\ token[t] < next_id + 1
         /\ client.token < next_id + 1
         /\ \A t \in Tasks : admission[t] # next_id + 1 /\ token[t] # next_id + 1
         /\ client.token # next_id + 1
<1>1. /\ next_id \in Nat /\ MaxId \in Nat
      /\ \A t \in Tasks : admission[t] \in Nat /\ token[t] \in Nat
      /\ client.token \in Nat
  BY MaxIdAssumption DEF IInv, OthersTyped, Ids
<1>2. QED
  BY <1>1 DEF IInv, IdsInv, Ids

LEMMA SubmitKeeps ==
  ASSUME IInv, NEW ack \in BOOLEAN, block_submit(ack)
  PROVE  IInv'
<1> DEFINE x == Examined(ack)
           e == io_request_expire_waiters(x)
           id == next_id + 1
<1>1. Whole(e, served) /\ Kept(disk, e) /\ e.online = x.online
  BY ExaminedKeeps
<1>2. /\ client.token = 0 /\ Ready(e) /\ Admits(e, 0) /\ next_id < MaxId
      /\ next_id' = id /\ disk' = Begun(e, id, Nobody)
      /\ client' = [token |-> id, ok |-> FALSE]
      /\ UNCHANGED <<initialized, disk_count, callerVars, service, served>>
  BY DEF block_submit
<1> HIDE DEF e
<1>3. e.id = 0 /\ e.online /\ disk_count = 1
  BY <1>2 DEF Admits, Ready
<1>4. /\ id \in Ids /\ id \in 0 .. MaxId /\ id # 0
      /\ \A t \in Tasks : admission[t] < id /\ token[t] < id
      /\ \A t \in Tasks : admission[t] # id /\ token[t] # id
  BY <1>2, FreshId
<1> HIDE DEF id
<1>5. /\ Whole(disk', served) /\ disk'.id = id /\ disk'.owner = Nobody
      /\ \A w \in disk'.waiters : HasTicket(e, w.id) /\ w.id # id
  BY <1>1, <1>2, <1>3, <1>4, BegunKeeps
<1>6. OthersTyped'
  BY <1>2, <1>4 DEF IInv, OthersTyped, callerVars
<1>7. SetUpInv'
  BY <1>2, <1>3 DEF IInv, SetUpInv
<1>8. IdsInv'
  <2>1. \A t \in Tasks : admission'[t] = admission[t] /\ token'[t] = token[t]
    BY <1>2 DEF callerVars
  <2>2. \A t \in Tasks : admission[t] <= id /\ token[t] <= id
    <3>1. \A t \in Tasks : admission[t] \in Nat /\ token[t] \in Nat
      BY DEF IInv, OthersTyped, Ids
    <3>2. id \in Nat
      BY <1>4
    <3>3. QED
      BY <1>4, <3>1, <3>2
  <2>3. client'.token = id /\ id <= id
    BY <1>2, <1>4
  <2>4. QED
    BY <1>2, <1>4, <2>1, <2>2, <2>3 DEF IInv, IdsInv
<1>9. OwnerInv' /\ CallerInv' /\ OkIsServed'
  BY <1>2, <1>4, <1>5 DEF IInv, OwnerInv, CallerInv, OkIsServed, callerVars
<1>10. TicketsOwned'
  <2>1. \A w \in disk'.waiters : HasTicket(disk, w.id)
    BY <1>1, <1>5 DEF Kept, Less, HasTicket
  <2>2. QED
    BY <1>2, <2>1, LineKept DEF callerVars
<1>11. QED
  BY <1>2, <1>5, <1>6, <1>7, <1>8, <1>9, <1>10 DEF IInv

LEMMA SubmitOkKeeps ==
  ASSUME IInv, NEW t \in Tasks, NEW ack \in BOOLEAN, SubmitOk(t, ack)
  PROVE  IInv'
<1> DEFINE x == Examined(ack)
           e == io_request_expire_waiters(x)
           id == IF admission[t] # 0 THEN admission[t] ELSE next_id + 1
<1>1. Whole(e, served) /\ Kept(disk, e) /\ e.online = x.online
  BY ExaminedKeeps
<1>2. /\ t \in alive /\ pc[t] = "submit" /\ Ready(e) /\ Admits(e, admission[t])
      /\ id <= MaxId
      /\ next_id' = IF admission[t] # 0 THEN next_id ELSE id
      /\ disk' = [Begun(e, id, t) EXCEPT !.woken = @ \ {t}]
      /\ admission' = [admission EXCEPT ![t] = 0]
      /\ token' = [token EXCEPT ![t] = id]
      /\ pc' = [pc EXCEPT ![t] = "collect"]
      /\ UNCHANGED <<initialized, disk_count, late, alive, client, service, served>>
  BY DEF SubmitOk
<1> HIDE DEF e
<1>3. e.id = 0 /\ e.online /\ disk_count = 1
  BY <1>2 DEF Admits, Ready
<1>4. /\ next_id \in Nat /\ MaxId \in Nat /\ next_id <= MaxId
      /\ admission \in [Tasks -> Ids \cup {0}] /\ token \in [Tasks -> Ids \cup {0}]
      /\ pc \in [Tasks -> Places]
      /\ \A u \in Tasks : admission[u] \in Nat /\ token[u] \in Nat
      /\ client.token \in Nat
  BY MaxIdAssumption DEF IInv, OthersTyped, Ids
\* The id is the caller's ticket or new, and nobody else's.
<1>5. /\ id \in Ids /\ id \in Nat /\ id # 0 /\ next_id' \in 0 .. MaxId /\ id <= next_id' /\ next_id <= next_id'
      /\ \A u \in Tasks : token[u] # id /\ (u # t => admission[u] # id)
      /\ client.token # id
  <2>1. CASE admission[t] # 0
    <3>1. id = admission[t] /\ next_id' = next_id
      BY <1>2, <2>1
    <3> HIDE DEF id
    <3>2. id \in Ids
      BY <1>4, <2>1, <3>1
    <3>3. QED
      BY <1>4, <2>1, <3>1, <3>2 DEF IInv, IdsInv, Ids
  <2>2. CASE admission[t] = 0
    <3>1. id = next_id + 1 /\ next_id' = id /\ next_id < MaxId
      BY <1>2, <1>4, <2>2
    <3>2. QED
      BY <1>4, <3>1, FreshId
  <2>3. QED
    BY <2>1, <2>2
<1> HIDE DEF id
<1>6. t \in Tasks \cup {Nobody}
  OBVIOUS
<1>7. /\ Whole(disk', served) /\ disk'.id = id /\ disk'.owner = t
      /\ \A w \in disk'.waiters : HasTicket(e, w.id) /\ w.id # id
  <2> DEFINE b == Begun(e, id, t)
  <2>1. /\ Whole(b, served) /\ b.id = id /\ b.owner = t
        /\ \A w \in b.waiters : HasTicket(e, w.id) /\ w.id # id
    BY <1>1, <1>3, <1>5, <1>6, BegunKeeps
  <2>2. disk' = [b EXCEPT !.woken = @ \ {t}]
    BY <1>2
  <2> HIDE DEF b
  <2>3. Whole(disk', served) /\ Kept(b, disk') /\ disk'.waiters = b.waiters
    BY <2>1, <2>2, SnapshotKeeps
  <2>4. QED
    BY <2>1, <2>3 DEF Kept
<1>8. OthersTyped'
  <2>1. /\ admission' \in [Tasks -> Ids \cup {0}] /\ token' \in [Tasks -> Ids \cup {0}]
        /\ pc' \in [Tasks -> Places]
    BY <1>2, <1>4, <1>5 DEF Places
  <2>2. QED
    BY <1>2, <1>5, <2>1 DEF IInv, OthersTyped
<1>9. SetUpInv'
  BY <1>2, <1>3 DEF IInv, SetUpInv
<1>10. \A u \in Tasks : /\ admission'[u] = (IF u = t THEN 0 ELSE admission[u])
                        /\ token'[u] = (IF u = t THEN id ELSE token[u])
                        /\ pc'[u] = (IF u = t THEN "collect" ELSE pc[u])
  BY <1>2, <1>4
<1>11. IdsInv'
  <2>1. \A u \in Tasks : admission'[u] <= next_id' /\ token'[u] <= next_id'
    <3>1. \A u \in Tasks : admission[u] <= next_id /\ token[u] <= next_id
      BY DEF IInv, IdsInv
    <3>2. next_id' \in Nat
      BY <1>5
    <3>3. QED
      BY <1>4, <1>5, <1>10, <3>1, <3>2
  <2>2. client'.token <= next_id'
    BY <1>2, <1>4, <1>5 DEF IInv, IdsInv
  <2>3. \A s, u \in Tasks :
          /\ admission'[s] # 0 => admission'[s] # token'[u] /\ admission'[s] # client'.token
          /\ s # u /\ admission'[s] # 0 => admission'[s] # admission'[u]
          /\ s # u /\ token'[s] # 0 => token'[s] # token'[u]
          /\ token'[s] # 0 => token'[s] # client'.token
    BY <1>2, <1>5, <1>10 DEF IInv, IdsInv
  <2>4. QED
    BY <2>1, <2>2, <2>3 DEF IdsInv
<1>12. OwnerInv'
  BY <1>2, <1>5, <1>7, <1>10 DEF IInv, OwnerInv
<1>13. CallerInv'
  BY <1>2, <1>4, <1>5, <1>10 DEF IInv, OthersTyped, CallerInv
<1>14. OkIsServed'
  BY <1>2, <1>10 DEF IInv, OkIsServed
<1>15. TicketsOwned'
  <2>1. \A w \in disk'.waiters : HasTicket(disk, w.id) /\ w.id # id /\ w.id # 0
    BY <1>1, <1>7 DEF Kept, Less, HasTicket, IInv, Whole, Loose, Disks, Tickets, Ids
  <2>2. \A w \in disk'.waiters : admission[t] # w.id
    BY <2>1 DEF id
  <2>3. QED
    BY <1>2, <1>10, <2>1, <2>2, LineKept
<1>16. QED
  BY <1>2, <1>7, <1>8, <1>9, <1>11, <1>12, <1>13, <1>14, <1>15 DEF IInv

LEMMA SubmitBusyKeeps ==
  ASSUME IInv, NEW t \in Tasks, NEW ack \in BOOLEAN, SubmitBusy(t, ack)
  PROVE  IInv'
<1> DEFINE x == Examined(ack)
           e == io_request_expire_waiters(x)
           draws == admission[t] = 0 /\ Room(e)
           w0 == [id |-> next_id + 1, late |-> FALSE]
<1>1. Whole(e, served) /\ Kept(disk, e) /\ e.online = x.online
  BY ExaminedKeeps
<1>2. /\ t \in alive /\ pc[t] = "submit" /\ Ready(e)
      /\ draws => next_id < MaxId
      /\ next_id' = IF draws THEN next_id + 1 ELSE next_id
      /\ admission' = [admission EXCEPT ![t] = IF draws THEN next_id + 1 ELSE @]
      /\ disk' = IF draws THEN [e EXCEPT !.waiters = @ \cup {w0}] ELSE e
      /\ pc' = [pc EXCEPT ![t] = "queue"]
      /\ UNCHANGED <<initialized, disk_count, token, late, alive, client, service, served>>
  BY DEF SubmitBusy
<1> HIDE DEF e
<1>3. /\ admission \in [Tasks -> Ids \cup {0}] /\ pc \in [Tasks -> Places] /\ next_id \in 0 .. MaxId
      /\ initialized
  BY <1>2 DEF IInv, OthersTyped, SetUpInv, Ready
<1>4. CASE ~ draws
  <2>1. next_id' = next_id /\ UNCHANGED admission /\ disk' = e
    BY <1>2, <1>3, <1>4
  <2>2. OthersTyped'
    BY <1>2, <1>3, <2>1 DEF IInv, OthersTyped, Places
  <2>3. IdsInv'
    BY <1>2, <2>1, IdsKept
  <2>4. OwnerInv'
    BY <1>1, <1>2, <2>1, SlotKeptInv DEF Kept
  <2>5. SetUpInv' /\ OkIsServed'
    BY <1>2, <1>3 DEF IInv, SetUpInv, OkIsServed
  <2>6. CallerInv'
    BY <1>2, <1>3, <2>1 DEF IInv, CallerInv, OthersTyped
  <2>7. TicketsOwned'
    BY <1>1, <1>2, <1>3, <2>1, LineKept DEF Kept, Less
  <2>8. QED
    BY <1>1, <1>2, <2>1, <2>2, <2>3, <2>4, <2>5, <2>6, <2>7 DEF IInv
<1>5. CASE draws
  <2> DEFINE id == next_id + 1
             W == e.waiters \cup {w0}
             f == [e EXCEPT !.waiters = W]
  <2>1. next_id' = id /\ admission' = [admission EXCEPT ![t] = id] /\ disk' = f /\ next_id < MaxId
    BY <1>2, <1>5
  <2>2. /\ id \in Ids /\ id \in 0 .. MaxId /\ id # 0
        /\ \A u \in Tasks : admission[u] < id /\ token[u] < id
        /\ client.token < id
        /\ \A u \in Tasks : admission[u] # id /\ token[u] # id
        /\ client.token # id
    BY <2>1, FreshId
  <2>3. IsFiniteSet(W) /\ Cardinality(W) <= MaxWaiters
    <3>1. IsFiniteSet(e.waiters) /\ Cardinality(e.waiters) < MaxWaiters /\ Cardinality(e.waiters) \in Nat
      BY <1>1, <1>5, FS_CardinalityType DEF Whole, Loose, Room
    <3>2. IsFiniteSet(W) /\ (Cardinality(W) = Cardinality(e.waiters) \/ Cardinality(W) = Cardinality(e.waiters) + 1)
      BY <3>1, FS_AddElement
    <3>3. QED
      BY <3>1, <3>2, MaxWaitersAssumption
  <2>4. W \in SUBSET Tickets /\ \A w \in W : w \in e.waiters \/ w.id = id
    <3>1. w0.id = id /\ w0 \in Tickets
      BY <2>2 DEF Tickets
    <3>2. e.waiters \in SUBSET Tickets
      BY <1>1 DEF Whole, Loose, Disks
    <3> HIDE DEF w0, id
    <3>3. QED
      BY <3>1, <3>2
  <2> HIDE DEF id, W
  <2>5. /\ f \in Disks /\ f.waiters = W /\ f.id = e.id /\ f.owner = e.owner /\ f.pending = e.pending
        /\ f.online = e.online /\ f.dma = e.dma /\ f.given = e.given /\ f.used = e.used /\ f.result = e.result
    BY <1>1, <2>4 DEF Whole, Loose, Disks
  <2> HIDE DEF f
  <2>6. Whole(f, served)
    BY <1>1, <2>3, <2>5 DEF Whole, Loose, Settled
  <2>7. \A u \in Tasks : /\ admission'[u] = (IF u = t THEN id ELSE admission[u])
                         /\ pc'[u] = (IF u = t THEN "queue" ELSE pc[u])
    BY <1>2, <1>3, <2>1
  <2>8. OthersTyped'
    <3>1. admission' \in [Tasks -> Ids \cup {0}] /\ pc' \in [Tasks -> Places]
      BY <1>2, <1>3, <2>1, <2>2 DEF Places
    <3>2. QED
      BY <1>2, <2>1, <2>2, <3>1 DEF IInv, OthersTyped
  <2>9. IdsInv'
    <3>1. \A u \in Tasks : admission[u] \in Nat /\ token[u] \in Nat
      BY DEF IInv, OthersTyped, Ids
    <3>2. client.token \in Nat /\ id \in Nat
      BY <2>2 DEF IInv, OthersTyped, Ids
    <3>3. /\ \A u \in Tasks : admission'[u] <= next_id' /\ token'[u] <= next_id'
          /\ client'.token <= next_id'
      BY <1>2, <2>1, <2>2, <2>7, <3>1, <3>2
    <3>4. \A s, u \in Tasks :
            /\ admission'[s] # 0 => admission'[s] # token'[u] /\ admission'[s] # client'.token
            /\ s # u /\ admission'[s] # 0 => admission'[s] # admission'[u]
            /\ s # u /\ token'[s] # 0 => token'[s] # token'[u]
            /\ token'[s] # 0 => token'[s] # client'.token
      BY <1>2, <2>2, <2>7 DEF IInv, IdsInv
    <3>5. QED
      BY <3>3, <3>4 DEF IdsInv
  <2>10. OwnerInv'
    BY <1>1, <1>2, <2>1, <2>5, SlotKeptInv DEF Kept
  <2>11. SetUpInv' /\ OkIsServed'
    BY <1>2, <1>3, <2>7 DEF IInv, SetUpInv, OkIsServed
  <2>12. CallerInv'
    BY <1>2, <1>3, <2>7 DEF IInv, CallerInv, OthersTyped
  <2>13. TicketsOwned'
    <3> SUFFICES ASSUME NEW w \in W
                 PROVE  \E u \in Tasks : /\ admission'[u] = w.id
                                         /\ pc'[u] \in {"submit", "queue", "giveup"} \/ u \notin alive
      BY <1>2, <2>1, <2>5 DEF TicketsOwned
    <3>1. CASE w.id = id
      BY <2>7, <3>1
    <3>2. CASE w.id # id
      <4>1. w \in e.waiters /\ w.id # 0
        BY <1>1, <2>4, <3>2 DEF Whole, Loose, Disks, Tickets, Ids
      <4>2. PICK v \in disk.waiters : v.id = w.id
        BY <1>1, <4>1 DEF Kept, Less, HasTicket
      <4>3. PICK u \in Tasks : admission[u] = w.id /\ (pc[u] \in {"submit", "queue", "giveup"} \/ u \notin alive)
        BY <4>2 DEF IInv, TicketsOwned
      <4>4. u # t
        BY <1>5, <4>1, <4>3
      <4>5. QED
        BY <2>7, <4>3, <4>4
    <3>3. QED
      BY <3>1, <3>2
  <2>14. QED
    BY <1>2, <2>1, <2>6, <2>8, <2>9, <2>10, <2>11, <2>12, <2>13 DEF IInv
<1>6. QED
  BY <1>4, <1>5

-----------------------------------------------------------------------------
(***************************************************************************)
(* The other steps of callers, of time and of the device.                  *)
(***************************************************************************)
\* A caller moves on and lets go of what it need not hold any more.
LEMMA CallerStepKeeps ==
  ASSUME IInv, NEW t \in Tasks, t \in alive, Whole(disk', served), Less(disk, disk'),
         disk'.id \in {disk.id, 0}, disk'.id # 0 => disk'.owner = disk.owner,
         UNCHANGED <<initialized, disk_count, next_id, alive, client, service, served>>,
         NEW p \in Places, pc' = [pc EXCEPT ![t] = p],
         NEW a \in {admission[t], 0}, admission' = [admission EXCEPT ![t] = a],
         NEW k \in {token[t], 0}, token' = [token EXCEPT ![t] = k],
         late' \subseteq Tasks,
         p \in {"idle", "ok", "collect", "wait"} => a = 0,
         p \in {"collect", "wait"} => k # 0,
         p = "ok" => k \in served,
         a # admission[t] => ~ HasTicket(disk', admission[t])
  PROVE  IInv'
<1>1. /\ pc \in [Tasks -> Places] /\ admission \in [Tasks -> Ids \cup {0}] /\ token \in [Tasks -> Ids \cup {0}]
      /\ alive \subseteq Tasks
  BY DEF IInv, OthersTyped
<1>2. \A u \in Tasks : /\ pc'[u] = (IF u = t THEN p ELSE pc[u])
                       /\ admission'[u] = (IF u = t THEN a ELSE admission[u])
                       /\ token'[u] = (IF u = t THEN k ELSE token[u])
  BY <1>1
<1>3. OthersTyped'
  <2>1. pc' \in [Tasks -> Places] /\ admission' \in [Tasks -> Ids \cup {0}] /\ token' \in [Tasks -> Ids \cup {0}]
    BY <1>1
  <2>2. QED
    BY <2>1 DEF IInv, OthersTyped
<1>4. SetUpInv'
  BY SetUpKept DEF Whole, Loose
<1>5. IdsInv' /\ OwnerInv'
  <2>1. \A u \in Tasks : admission'[u] \in {admission[u], 0} /\ token'[u] \in {token[u], 0}
    BY <1>2
  <2>2. QED
    BY <2>1, IdsKept, SlotKeptInv
<1>6. CallerInv' /\ OkIsServed'
  BY <1>1, <1>2 DEF IInv, CallerInv, OkIsServed
<1>7. TicketsOwned'
  <2>1. \A w \in disk'.waiters : admission[t] = w.id => a = w.id /\ w.id # 0
    <3>1. \A w \in disk'.waiters : w.id # 0
      BY DEF Whole, Loose, Disks, Tickets, Ids
    <3>2. \A w \in disk'.waiters : admission[t] = w.id => a = w.id
      BY DEF HasTicket
    <3>3. QED
      BY <3>1, <3>2
  <2>2. a # 0 => p \in {"submit", "queue", "giveup"}
    BY DEF Places
  <2>3. QED
    <3>1. \A u \in Tasks, w \in disk'.waiters :
            /\ admission[u] = w.id
            /\ pc[u] \in {"submit", "queue", "giveup"} \/ u \notin alive
            => /\ admission'[u] = w.id
               /\ pc'[u] \in {"submit", "queue", "giveup"} \/ u \notin alive'
      BY <1>2, <2>1, <2>2
    <3>2. QED
      BY <3>1, LineKept DEF Less
<1>8. QED
  BY <1>3, <1>4, <1>5, <1>6, <1>7 DEF IInv

\* The call returns: the caller gives up its ticket first, if it has one.
LEMMA ReturnKeeps ==
  ASSUME IInv, NEW t \in Tasks, t \in alive, Whole(disk', served), Less(disk, disk'),
         disk'.id \in {disk.id, 0}, disk'.id # 0 => disk'.owner = disk.owner,
         UNCHANGED <<initialized, disk_count, next_id, admission, alive, client, service, served>>,
         NEW result, Returns(t, result),
         result = OK => token[t] \in served
  PROVE  IInv'
<1> DEFINE p == IF admission[t] # 0 THEN "giveup" ELSE IF result = OK THEN "ok" ELSE "idle"
           k == IF result = OK THEN token[t] ELSE 0
<1>1. pc' = [pc EXCEPT ![t] = p] /\ token' = [token EXCEPT ![t] = k] /\ late' = late \ {t}
  BY DEF Returns
<1>2. /\ admission \in [Tasks -> Ids \cup {0}] /\ late \subseteq Tasks
  BY DEF IInv, OthersTyped
<1>3. /\ p \in Places /\ k \in {token[t], 0}
      /\ p \in {"idle", "ok", "collect", "wait"} => admission[t] = 0
      /\ p \notin {"collect", "wait"}
      /\ p = "ok" => k \in served
  BY DEF Places
<1> HIDE DEF p, k
<1>4. admission' = [admission EXCEPT ![t] = admission[t]] /\ admission[t] \in {admission[t], 0} /\ late' \subseteq Tasks
  BY <1>1, <1>2
<1>5. QED
  BY <1>1, <1>3, <1>4, CallerStepKeeps

LEMMA CallerSteps ==
  ASSUME IInv, NEW t \in Tasks,
         request(t) \/ QueueReturn(t) \/ GiveUp(t) \/ WaitReturn(t)
  PROVE  IInv'
<1>1. /\ Whole(disk, served) /\ Kept(disk, disk) /\ late \subseteq Tasks
      /\ pc \in [Tasks -> Places] /\ admission \in [Tasks -> Ids \cup {0}] /\ token \in [Tasks -> Ids \cup {0}]
  BY DEF IInv, OthersTyped, Kept, Less, HasTicket
<1>2. /\ admission = [admission EXCEPT ![t] = admission[t]] /\ admission[t] \in {admission[t], 0}
      /\ token = [token EXCEPT ![t] = token[t]] /\ token[t] \in {token[t], 0} /\ 0 \in {token[t], 0}
      /\ 0 \in {admission[t], 0}
      /\ "submit" \in Places /\ "idle" \in Places /\ "collect" \in Places
  BY <1>1 DEF Places
<1>3. CASE request(t)
  <2>1. t \in alive /\ disk' = [disk EXCEPT !.woken = @ \ {t}]
        /\ pc' = [pc EXCEPT ![t] = "submit"] /\ token' = [token EXCEPT ![t] = 0]
        /\ UNCHANGED <<initialized, disk_count, next_id, admission, late, alive, client, service, served>>
    BY <1>3 DEF request
  <2>2. Whole(disk', served) /\ Kept(disk, disk')
    BY <1>1, <2>1, SnapshotKeeps
  <2>3. QED
    BY <1>1, <1>2, <2>1, <2>2, CallerStepKeeps DEF Kept
<1>4. CASE QueueReturn(t)
  <2>1. t \in alive /\ UNCHANGED <<initialized, disk_count, next_id, admission, alive, client, service, served>>
    BY <1>4 DEF QueueReturn
  <2>2. CASE /\ pc' = [pc EXCEPT ![t] = "submit"]
             /\ disk' = [disk EXCEPT !.woken = @ \ {t}]
             /\ UNCHANGED <<token, late>>
    <3>1. Whole(disk', served) /\ Kept(disk, disk')
      BY <1>1, <2>2, SnapshotKeeps
    <3>2. QED
      BY <1>1, <1>2, <2>1, <2>2, <3>1, CallerStepKeeps DEF Kept
  <2>3. CASE Returns(t, TIMEOUT) /\ UNCHANGED disk
    <3>1. TIMEOUT # OK
      BY DEF TIMEOUT, OK
    <3>2. QED
      BY <1>1, <2>1, <2>3, <3>1, ReturnKeeps DEF Kept
  <2>4. QED
    BY <1>4, <2>2, <2>3 DEF QueueReturn
<1>5. CASE GiveUp(t)
  <2>1. /\ t \in alive /\ disk' = io_request_cancel_waiter(disk, admission[t])
        /\ admission' = [admission EXCEPT ![t] = 0] /\ pc' = [pc EXCEPT ![t] = "idle"]
        /\ UNCHANGED <<initialized, disk_count, next_id, token, late, alive, client, service, served>>
    BY <1>5 DEF GiveUp
  <2>2. Whole(disk', served) /\ Kept(disk, disk') /\ ~ HasTicket(disk', admission[t])
    BY <1>1, <2>1, CancelWaiterKeeps
  <2>3. QED
    BY <1>1, <1>2, <2>1, <2>2, CallerStepKeeps DEF Kept
<1>6. CASE WaitReturn(t)
  <2>1. /\ t \in alive /\ pc[t] = "wait" /\ disk' = [disk EXCEPT !.woken = @ \ {t}]
        /\ pc' = [pc EXCEPT ![t] = "collect"]
        /\ UNCHANGED <<initialized, disk_count, next_id, admission, token, late, alive, client, service, served>>
    BY <1>6 DEF WaitReturn
  <2>2. Whole(disk', served) /\ Kept(disk, disk')
    BY <1>1, <2>1, SnapshotKeeps
  <2>3. admission[t] = 0 /\ token[t] # 0
    BY <2>1 DEF IInv, CallerInv
  <2>4. QED
    BY <1>1, <1>2, <2>1, <2>2, <2>3, CallerStepKeeps, ZenonT(30) DEF Kept
<1>7. QED
  BY <1>3, <1>4, <1>5, <1>6

LEMMA RefusedKeeps ==
  ASSUME IInv, NEW t \in Tasks, NEW ack \in BOOLEAN, SubmitRefused(t, ack)
  PROVE  IInv'
<1> DEFINE d == Examined(ack)
           e == io_request_expire_waiters(d)
           c == io_request_cancel_waiter(e, admission[t])
<1>1. Whole(d, served) /\ Kept(disk, d) /\ Whole(e, served) /\ Kept(disk, e)
  BY ExaminedKeeps
<1>2. /\ t \in alive /\ UNCHANGED <<initialized, disk_count, next_id, admission, alive, client, service, served>>
      /\ \E result : Returns(t, result) /\ result # OK
      /\ disk' = d \/ disk' = e \/ disk' = c
  BY DEF SubmitRefused, OK, INVALID, OFFLINE, TIMEOUT, CANCELED
<1> HIDE DEF d, e
<1>3. Whole(c, served) /\ Kept(e, c)
  BY <1>1, CancelWaiterKeeps
<1> HIDE DEF c
<1>4. Kept(disk, c)
  BY <1>1, <1>3 DEF Kept, Less, HasTicket
<1>5. Whole(disk', served) /\ Kept(disk, disk')
  BY <1>1, <1>2, <1>3, <1>4
<1>6. PICK result : Returns(t, result) /\ result # OK
  BY <1>2
<1>7. QED
  BY <1>2, <1>5, <1>6, ReturnKeeps DEF Kept

LEMMA CollectKeeps ==
  ASSUME IInv, NEW t \in Tasks, NEW ack \in BOOLEAN, Collect(t, ack)
  PROVE  IInv'
<1> DEFINE d == service_disk(disk, ack)
<1>1. /\ Whole(disk, served) /\ Kept(disk, disk) /\ late \subseteq Tasks
      /\ pc \in [Tasks -> Places] /\ admission \in [Tasks -> Ids \cup {0}] /\ token \in [Tasks -> Ids \cup {0}]
  BY DEF IInv, OthersTyped, Kept, Less, HasTicket
<1>2. Whole(d, served) /\ Kept(disk, d)
  BY <1>1, ServiceKeeps
<1>3. /\ t \in alive /\ pc[t] = "collect"
      /\ \/ disk.id # token[t] /\ Returns(t, CANCELED) /\ UNCHANGED disk
         \/ /\ disk.id = token[t] /\ d.pending /\ pc' = [pc EXCEPT ![t] = "wait"]
            /\ disk' = d /\ UNCHANGED <<token, late>>
         \/ /\ disk.id = token[t] /\ ~ d.pending
            /\ disk' = io_request_release(d) /\ Returns(t, d.result)
      /\ UNCHANGED <<initialized, disk_count, next_id, admission, alive, client, service, served>>
  BY DEF Collect
<1> HIDE DEF d
<1>4. admission[t] = 0 /\ token[t] # 0
  BY <1>3 DEF IInv, CallerInv
<1>5. CASE disk.id # token[t] /\ Returns(t, CANCELED) /\ UNCHANGED disk
  <2>1. CANCELED # OK
    BY DEF CANCELED, OK
  <2>2. QED
    BY <1>1, <1>3, <1>5, <2>1, ReturnKeeps DEF Kept
<1>6. CASE /\ disk.id = token[t] /\ d.pending /\ pc' = [pc EXCEPT ![t] = "wait"]
           /\ disk' = d /\ UNCHANGED <<token, late>>
  <2>1. /\ admission = [admission EXCEPT ![t] = admission[t]] /\ admission[t] \in {admission[t], 0}
        /\ token = [token EXCEPT ![t] = token[t]] /\ token[t] \in {token[t], 0} /\ "wait" \in Places
    BY <1>1 DEF Places
  <2>2. QED
    BY <1>1, <1>2, <1>3, <1>4, <1>6, <2>1, CallerStepKeeps DEF Kept
<1>7. CASE /\ disk.id = token[t] /\ ~ d.pending
           /\ disk' = io_request_release(d) /\ Returns(t, d.result)
  <2>1. /\ Whole(disk', served) /\ disk'.id = 0 /\ disk'.waiters = d.waiters
        /\ disk'.online = d.online /\ disk'.given = d.given /\ disk'.used = d.used
    BY <1>2, <1>7, ReleaseKeeps
  <2>2. Less(disk, disk')
    BY <1>2, <2>1 DEF Kept, Less
  <2>3. d.result = OK => token[t] \in served
    BY <1>2, <1>4, <1>7 DEF Whole, Loose, Kept
  <2>4. QED
    BY <1>3, <1>7, <2>1, <2>2, <2>3, ReturnKeeps
<1>8. QED
  BY <1>3, <1>5, <1>6, <1>7

LEMMA DieKeeps ==
  ASSUME IInv, NEW t \in Tasks, Die(t)
  PROVE  IInv'
<1>1. /\ t \in alive /\ alive' = alive \ {t} /\ pc' = [pc EXCEPT ![t] = "idle"]
      /\ token' = [token EXCEPT ![t] = 0]
      /\ UNCHANGED <<disk, initialized, disk_count, next_id, admission, late, client, service, served>>
  BY DEF Die
<1>2. /\ pc \in [Tasks -> Places] /\ token \in [Tasks -> Ids \cup {0}] /\ alive \subseteq Tasks
  BY DEF IInv, OthersTyped
<1>3. \A u \in Tasks : /\ pc'[u] = (IF u = t THEN "idle" ELSE pc[u])
                       /\ token'[u] = (IF u = t THEN 0 ELSE token[u])
  BY <1>1, <1>2
<1>4. OthersTyped'
  <2>1. pc' \in [Tasks -> Places] /\ token' \in [Tasks -> Ids \cup {0}] /\ alive' \subseteq Tasks
    BY <1>1, <1>2 DEF Places
  <2>2. QED
    BY <1>1, <2>1 DEF IInv, OthersTyped
<1>5. SetUpInv' /\ Whole(disk, served)'
  BY <1>1 DEF IInv, SetUpInv
<1>6. IdsInv' /\ OwnerInv'
  BY <1>1, <1>3, IdsKept, SlotKeptInv
<1>7. CallerInv' /\ OkIsServed'
  BY <1>1, <1>2, <1>3 DEF IInv, CallerInv, OkIsServed
<1>8. TicketsOwned'
  BY <1>1, <1>3 DEF IInv, TicketsOwned
<1>9. QED
  BY <1>4, <1>5, <1>6, <1>7, <1>8 DEF IInv

LEMMA DeadlineKeeps ==
  ASSUME IInv, NEW t \in Tasks, DeadlinePasses(t)
  PROVE  IInv'
<1> DEFINE Aged(w) == IF w.id = admission[t] THEN [w EXCEPT !.late = TRUE] ELSE w
           W == {Aged(w) : w \in disk.waiters}
<1>1. /\ late' = late \cup {t} /\ disk' = [disk EXCEPT !.waiters = W]
      /\ UNCHANGED <<initialized, disk_count, next_id, pc, admission, token, alive, client, service, served>>
  BY DEF DeadlinePasses
<1>2. Whole(disk, served) /\ disk \in Disks /\ disk.waiters \in SUBSET Tickets /\ IsFiniteSet(disk.waiters)
  BY DEF IInv, Whole, Loose, Disks
<1>3. \A w \in disk.waiters : Aged(w) \in Tickets /\ Aged(w).id = w.id
  BY <1>2 DEF Tickets
<1>4. IsFiniteSet(W) /\ Cardinality(W) <= Cardinality(disk.waiters)
  <2> DEFINE f == [w \in disk.waiters |-> Aged(w)]
  <2>1. f \in Surjection(disk.waiters, W)
    BY DEF Surjection
  <2> HIDE DEF f, W
  <2>2. QED
    BY <1>2, <2>1, FS_Surjection
<1>5. Cardinality(W) <= MaxWaiters
  BY <1>2, <1>4, MaxWaitersAssumption, FS_CardinalityType DEF Whole, Loose
<1>6. W \in SUBSET Tickets /\ \A w \in W : \E v \in disk.waiters : v.id = w.id
  BY <1>3
<1> HIDE DEF W
<1>7. /\ disk' \in Disks /\ disk'.waiters = W /\ disk'.id = disk.id /\ disk'.owner = disk.owner /\ disk'.pending = disk.pending
      /\ disk'.online = disk.online /\ disk'.dma = disk.dma /\ disk'.given = disk.given /\ disk'.used = disk.used
      /\ disk'.result = disk.result
  BY <1>1, <1>2, <1>6 DEF Disks
<1>8. Whole(disk', served) /\ Kept(disk, disk')
  BY <1>2, <1>4, <1>5, <1>6, <1>7 DEF Whole, Loose, Settled, Kept, Less, HasTicket
<1>9. OthersTyped'
  BY <1>1 DEF IInv, OthersTyped
<1>10. SetUpInv' /\ IdsInv' /\ OwnerInv'
  BY <1>1, <1>7, <1>8, SetUpKept, IdsKept, SlotKeptInv DEF Kept
<1>11. CallerInv' /\ OkIsServed'
  BY <1>1 DEF IInv, CallerInv, OkIsServed
<1>12. TicketsOwned'
  BY <1>1, <1>8, LineKept DEF Kept, Less
<1>13. QED
  BY <1>1, <1>8, <1>9, <1>10, <1>11, <1>12 DEF IInv

LEMMA DeviceSteps ==
  ASSUME IInv, \/ RequestAges \/ DeviceResized
               \/ \E status \in {"ok", "err", "bad"} : DeviceAnswers(status)
  PROVE  IInv'
<1>1. /\ Whole(disk, served) /\ disk \in Disks /\ served \subseteq Ids
      /\ client \in [token : Ids \cup {0}, ok : BOOLEAN] /\ (client.ok => client.token \in served)
      /\ service \in [at : {"first", "check", "second"}, id : Ids \cup {0},
                      owner : Tasks \cup {Nobody}, dead : BOOLEAN]
      /\ service.dead => service.owner \notin alive /\ service.at = "second"
  BY DEF IInv, OthersTyped, OkIsServed, CallerInv, Whole, Loose
<1>2. CASE RequestAges \/ DeviceResized
  <2>1. /\ disk' \in Disks /\ disk'.waiters = disk.waiters /\ disk'.id = disk.id /\ disk'.owner = disk.owner
        /\ disk'.pending = disk.pending /\ disk'.online = disk.online /\ disk'.dma = disk.dma
        /\ disk'.given = disk.given /\ disk'.used = disk.used /\ disk'.result = disk.result
    <3>1. disk' = [disk EXCEPT !.late = TRUE] \/ disk' = [disk EXCEPT !.config = TRUE]
      BY <1>2 DEF RequestAges, DeviceResized
    <3>2. CASE disk' = [disk EXCEPT !.late = TRUE]
      BY <1>1, <3>2 DEF Disks
    <3>3. CASE disk' = [disk EXCEPT !.config = TRUE]
      BY <1>1, <3>3 DEF Disks
    <3>4. QED
      BY <3>1, <3>2, <3>3
  <2>2. Whole(disk', served) /\ Kept(disk, disk')
    BY <1>1, <2>1 DEF Whole, Loose, Settled, Kept, Less, HasTicket
  <2>3. UNCHANGED <<initialized, disk_count, next_id, callerVars, client, service, served>>
    BY <1>2 DEF RequestAges, DeviceResized
  <2>4. QED
    BY <1>1, <2>2, <2>3, DiskStepKeeps DEF Kept
<1>3. ASSUME NEW status \in {"ok", "err", "bad"}, DeviceAnswers(status) PROVE IInv'
  <2> DEFINE id == Head(disk.given)
             a == [id |-> id, status |-> status]
             e == [disk EXCEPT !.given = Tail(@), !.used = Append(@, a)]
  <2>1. /\ disk.given # <<>> /\ disk' = e
        /\ served' = IF status = "ok" THEN served \cup {id} ELSE served
        /\ UNCHANGED <<initialized, disk_count, next_id, callerVars, client, service>>
    BY <1>3 DEF DeviceAnswers
  <2>2. disk.given \in Seq(Ids) /\ disk.used \in Seq(Answers)
    BY <1>1 DEF Disks
  <2>3. id \in Ids /\ Tail(disk.given) \in Seq(Ids)
    BY <2>1, <2>2
  <2> HIDE DEF id
  <2>4. a \in Answers
    BY <2>3 DEF Answers
  <2>5. Append(disk.used, a) \in Seq(Answers) /\ DOMAIN Append(disk.used, a) = 1 .. Len(disk.used) + 1
        /\ DOMAIN disk.used = 1 .. Len(disk.used) /\ Len(disk.used) \in Nat
        /\ \A i \in DOMAIN Append(disk.used, a) :
             Append(disk.used, a)[i] = IF i = Len(disk.used) + 1 THEN a ELSE disk.used[i]
    BY <2>2, <2>4
  <2>6. /\ e \in Disks /\ e.waiters = disk.waiters /\ e.id = disk.id /\ e.owner = disk.owner
        /\ e.pending = disk.pending /\ e.online = disk.online /\ e.dma = disk.dma
        /\ e.given = Tail(disk.given) /\ e.used = Append(disk.used, a) /\ e.result = disk.result
    BY <1>1, <2>3, <2>5 DEF Disks
  <2>7. served \subseteq served' /\ served' \subseteq Ids /\ (status = "ok" => id \in served')
    BY <1>1, <2>1, <2>3
  <2>8. initialized
    BY <2>1 DEF IInv, SetUpInv
  <2>9. \A i \in DOMAIN e.used : e.used[i].status = "ok" => e.used[i].id \in served'
    <3> SUFFICES ASSUME NEW i \in 1 .. Len(disk.used) + 1, e.used[i].status = "ok"
                 PROVE  e.used[i].id \in served'
      BY <2>5, <2>6
    <3>1. CASE i = Len(disk.used) + 1
      BY <2>5, <2>6, <2>7, <3>1
    <3>2. CASE i # Len(disk.used) + 1
      <4>1. i \in DOMAIN disk.used /\ e.used[i] = disk.used[i]
        BY <2>5, <2>6, <3>2
      <4>2. QED
        BY <1>1, <2>7, <4>1 DEF Whole, Loose
    <3>3. QED
      BY <3>1, <3>2
  <2>10. Loose(e, served')
    <3> HIDE DEF e
    <3>1. QED
      BY <1>1, <2>1, <2>6, <2>7, <2>9 DEF Whole, Loose
  <2>11. Settled(e)
    <3>1. ASSUME disk.pending PROVE e.given = <<>> /\ a.id = disk.id /\ e.used = <<a>>
      <4>1. disk.given = <<disk.id>> /\ disk.used = <<>>
        BY <1>1, <2>1, <3>1 DEF Whole, Settled
      <4>2. Tail(disk.given) = <<>> /\ id = disk.id /\ Append(disk.used, a) = <<a>>
        BY <4>1 DEF id
      <4>3. QED
        BY <2>6, <4>2
    <3>2. ~ (disk.online /\ ~ disk.pending)
      BY <1>1, <2>1 DEF Whole, Settled
    <3> HIDE DEF e, a
    <3>3. QED
      BY <2>4, <2>6, <3>1, <3>2 DEF Settled
  <2> HIDE DEF e
  <2>12. OthersTyped'
    BY <2>1, <2>7 DEF IInv, OthersTyped, callerVars
  <2>13. SetUpInv' /\ IdsInv' /\ OwnerInv'
    BY <2>1, <2>6, <2>8, IdsKept, SlotKeptInv DEF IInv, SetUpInv, callerVars
  <2>14. CallerInv' /\ OkIsServed'
    BY <2>1, <2>7 DEF IInv, CallerInv, OkIsServed, callerVars
  <2>15. TicketsOwned'
    BY <2>1, <2>6 DEF IInv, TicketsOwned, callerVars
  <2>16. QED
    BY <2>1, <2>10, <2>11, <2>12, <2>13, <2>14, <2>15 DEF IInv, Whole
<1>4. QED
  BY <1>2, <1>3

LEMMA StepIInv == IInv /\ [Next]_vars => IInv'
<1> SUFFICES ASSUME IInv, [Next]_vars PROVE IInv'
  OBVIOUS
<1>1. CASE UNCHANGED vars
  <2> USE <1>1 DEF vars
  <2>1. (Whole(disk, served) /\ OthersTyped /\ SetUpInv)'
    BY DEF IInv, OthersTyped, SetUpInv
  <2>2. (IdsInv /\ OwnerInv /\ CallerInv /\ OkIsServed /\ TicketsOwned)'
    BY DEF IInv, IdsInv, OwnerInv, CallerInv, OkIsServed, TicketsOwned
  <2>3. QED
    BY <2>1, <2>2 DEF IInv
<1>2. CASE Next
  <2>1. ASSUME NEW ack \in BOOLEAN, \/ block_shutdown(ack)
               \/ block_submit(ack) \/ block_collect(ack) \/ block_cancel(ack)
               \/ ServiceFirst(ack) \/ ServiceSecond(ack)
        PROVE  IInv'
    BY <2>1, SetUpSteps, SubmitKeeps, ClientSteps, ServiceSteps
  <2>2. ASSUME NEW t \in Tasks, CallerStep(t) PROVE IInv'
    <3>1. ASSUME NEW ack \in BOOLEAN, \/ SubmitRefused(t, ack) \/ SubmitBusy(t, ack)
                                      \/ SubmitOk(t, ack) \/ Collect(t, ack)
          PROVE  IInv'
      BY <3>1, RefusedKeeps, SubmitBusyKeeps, SubmitOkKeeps, CollectKeeps
    <3>2. QED
      BY <2>2, <3>1, CallerSteps DEF CallerStep
  <2>3. ASSUME NEW t \in Tasks, request(t) \/ DeadlinePasses(t) \/ Die(t) PROVE IInv'
    BY <2>3, CallerSteps, DeadlineKeeps, DieKeeps
  <2>4. CASE \E ok \in BOOLEAN : block_init(ok)
    BY <2>4, SetUpSteps
  <2>5. CASE ServiceCheck \/ ServiceBusy \/ ClientNext
    BY <2>5, ServiceSteps, ClientSteps
  <2>6. CASE \/ RequestAges \/ DeviceResized
             \/ \E status \in {"ok", "err", "bad"} : DeviceAnswers(status)
    BY <2>6, DeviceSteps
  <2>7. QED
    BY <1>2, <2>1, <2>2, <2>3, <2>4, <2>5, <2>6 DEF Next
<1>3. QED
  BY <1>1, <1>2

-----------------------------------------------------------------------------
(***************************************************************************)
(* Whose request leaves the slot.                                          *)
(***************************************************************************)
LEMMA SameSlot ==
  ASSUME IInv, NEW ack \in BOOLEAN
  PROVE  /\ service_disk(disk, ack).id = disk.id
         /\ Examined(ack).id = disk.id
         /\ io_request_expire_waiters(Examined(ack)).id = disk.id
         /\ \A x : /\ io_request_cancel_waiter(disk, x).id = disk.id
                   /\ io_request_cancel_waiter(io_request_expire_waiters(Examined(ack)), x).id = disk.id
<1>1. Whole(disk, served)
  BY DEF IInv
<1>2. service_disk(disk, ack).id = disk.id
  BY <1>1, ServiceKeeps DEF Kept
<1>3. Examined(ack).id = disk.id /\ io_request_expire_waiters(Examined(ack)).id = disk.id
  BY ExaminedKeeps DEF Kept
<1>4. \A x : io_request_cancel_waiter(disk, x).id = disk.id
  BY <1>1, CancelWaiterKeeps DEF Kept
<1>5. Whole(io_request_expire_waiters(Examined(ack)), served)
  BY ExaminedKeeps
<1>6. \A x : io_request_cancel_waiter(io_request_expire_waiters(Examined(ack)), x).id = disk.id
  BY <1>3, <1>5, CancelWaiterKeeps DEF Kept
<1>7. QED
  BY <1>2, <1>3, <1>4, <1>6

\* The request of a live task leaves its slot by the task's own collection.
LEMMA StepSlotKept ==
  ASSUME IInv, [Next]_vars, NEW t \in alive, disk.owner = t, disk'.id # disk.id
  PROVE  \/ pc[t] = "collect" /\ pc'[t] \in {"idle", "ok"}
         \/ \E ack \in BOOLEAN : block_shutdown(ack)
<1>1. t \in Tasks /\ t # Nobody /\ disk.id # 0 /\ disk \in Disks
  BY TasksAssumption DEF IInv, OthersTyped, Whole, Loose
<1>2. Next
  BY DEF vars
<1>3. ~ \E ok \in BOOLEAN : block_init(ok)
  BY <1>1 DEF block_init, IInv, SetUpInv
<1>4. ASSUME NEW ack \in BOOLEAN PROVE ~ block_submit(ack)
  BY <1>1, SameSlot DEF block_submit, Admits
<1>5. ASSUME NEW ack \in BOOLEAN PROVE ~ block_collect(ack) /\ ~ block_cancel(ack)
  BY <1>1, <1>5, SameSlot DEF block_collect, block_cancel, IInv, OwnerInv
<1>6. ASSUME NEW ack \in BOOLEAN PROVE ~ ServiceFirst(ack)
  BY <1>6, SameSlot DEF ServiceFirst
<1>7. ASSUME NEW ack \in BOOLEAN PROVE ~ ServiceSecond(ack)
  <2>1. ~ Abandoned
    BY DEF Abandoned, IInv, CallerInv
  <2>2. QED
    BY <1>7, <2>1, SameSlot DEF ServiceSecond
<1>8. ~ ServiceCheck /\ ~ ServiceBusy /\ ~ ClientNext
  BY DEF ServiceCheck, ServiceBusy, ClientNext
<1>9. ~ RequestAges /\ ~ DeviceResized /\ ~ \E status \in {"ok", "err", "bad"} : DeviceAnswers(status)
  BY <1>1 DEF RequestAges, DeviceResized, DeviceAnswers, Disks
<1>10. ASSUME NEW u \in Tasks
       PROVE  ~ request(u) /\ ~ DeadlinePasses(u) /\ ~ Die(u) /\ ~ QueueReturn(u) /\ ~ GiveUp(u) /\ ~ WaitReturn(u)
  <2>1. ~ request(u) /\ ~ QueueReturn(u) /\ ~ WaitReturn(u)
    BY <1>1 DEF request, QueueReturn, WaitReturn, Disks
  <2>2. ~ DeadlinePasses(u)
    BY <1>1 DEF DeadlinePasses, Disks
  <2>3. ~ Die(u) /\ ~ GiveUp(u)
    <3>1. TRUE \in BOOLEAN
      OBVIOUS
    <3>2. QED
      BY <3>1, SameSlot DEF Die, GiveUp
  <2>4. QED
    BY <2>1, <2>2, <2>3
<1>11. ASSUME NEW u \in Tasks, NEW ack \in BOOLEAN
       PROVE  ~ SubmitRefused(u, ack) /\ ~ SubmitBusy(u, ack) /\ ~ SubmitOk(u, ack)
  <2> DEFINE e == io_request_expire_waiters(Examined(ack))
  <2>1. Whole(e, served) /\ e.id = disk.id /\ Examined(ack).id = disk.id
        /\ io_request_cancel_waiter(e, admission[u]).id = disk.id
    BY SameSlot, ExaminedKeeps
  <2> HIDE DEF e
  <2>2. ~ SubmitRefused(u, ack)
    BY <2>1 DEF SubmitRefused, e
  <2>3. ~ SubmitOk(u, ack)
    BY <1>1, <2>1 DEF SubmitOk, Admits, e
  <2>4. \A W : [e EXCEPT !.waiters = W].id = disk.id
    BY <2>1 DEF Whole, Loose, Disks
  <2>5. ~ SubmitBusy(u, ack)
    BY <2>1, <2>4 DEF SubmitBusy, e
  <2>6. QED
    BY <2>2, <2>3, <2>5
<1>12. ASSUME NEW u \in Tasks, NEW ack \in BOOLEAN, Collect(u, ack)
       PROVE  pc[t] = "collect" /\ pc'[t] \in {"idle", "ok"}
  <2>1. disk.id = token[u] /\ Returns(u, service_disk(disk, ack).result) /\ u \in alive /\ pc[u] = "collect"
    BY <1>12, SameSlot DEF Collect
  <2>2. u = t
    BY <1>1, <2>1 DEF IInv, OwnerInv
  <2>3. admission[t] = 0 /\ pc \in [Tasks -> Places]
    BY <2>1, <2>2 DEF IInv, CallerInv, OthersTyped
  <2>4. QED
    BY <1>1, <2>1, <2>2, <2>3 DEF Returns
<1>13. QED
  BY <1>2, <1>3, <1>4, <1>5, <1>6, <1>7, <1>8, <1>9, <1>10, <1>11, <1>12 DEF Next, CallerStep

\* block.c, io_request.c: whatever the callers, the client, the service and
\* the device do, and however late, an answer is taken for no other request
\* than its own, a device that ignored its reset keeps the buffers it may
\* write, no ticket outlives its owner's place in the line unless he died,
\* and a live task's request leaves the slot only when the task collects it
\* or the disk is shut down.
THEOREM DiskStaysSafe == Spec => DiskSafe
<1>1. Init => IInv
  BY InitIInv
<1>2. IInv /\ [Next]_vars => IInv'
  BY StepIInv
<1>3. IInv => Safety
  BY IInvGives
<1>4. IInv /\ [Next]_vars =>
        [\A t \in alive :
           disk.owner = t /\ disk'.id # disk.id
             => \/ pc[t] = "collect" /\ pc'[t] \in {"idle", "ok"}
                \/ \E ack \in BOOLEAN : block_shutdown(ack)]_vars
  BY StepSlotKept
<1>5. QED
  BY <1>1, <1>2, <1>3, <1>4, PTL DEF Spec, DiskSafe, SlotKept

-----------------------------------------------------------------------------
(***************************************************************************)
(* The network interface (Network), for any number of tasks that receive   *)
(* and send, any number of buffers, of requests and of set-ups (NetSafe):  *)
(* with MaxId and MaxInits arbitrary the bounds bound nothing.             *)
(***************************************************************************)
\* What holds of the interface also in the middle of a section.
NetLoose(n, sv) ==
  /\ n \in Net!Nics
  /\ n.pending => n.online /\ n.id # 0
  /\ n.result = "ok" => n.id \in sv

\* The frame of a pending request is with the device or answered, and is the
\* only one of an interface that is online.
NetSettled(n, sv) ==
  /\ n.pending => \/ n.given = n.id /\ n.used = "none"
                  \/ n.given = 0 /\ n.used # "none" /\ (n.used = "ok" => n.id \in sv)
  /\ n.online /\ ~n.pending => n.given = 0 /\ n.used = "none"

NetWhole(n, sv) == NetLoose(n, sv) /\ NetSettled(n, sv)

\* The rest of the state has its type.
NetOthersTyped ==
  /\ ready \in BOOLEAN
  /\ device \in [link : BOOLEAN, running : BOOLEAN, queue : BOOLEAN, config : BOOLEAN]
  /\ npc \in [Net!Callers -> {"idle", "try", "wait", "collect", "sleep", "ok", "dead"}]
  /\ ntoken \in [Net!Callers -> 0 .. MaxId] /\ older \subseteq Net!Callers
  /\ nservice \in [at : {"first", "second", "wait"}, id : 0 .. MaxId,
                  owner : Net!Callers \cup {Nobody}]
  /\ nnext_id \in 0 .. MaxId /\ inits \in 0 .. MaxInits /\ sent \subseteq 1 .. MaxId
  /\ began \in [Net!Callers -> 0 .. MaxInits + 1]

\* An interface that is not set up has nothing under way.
NetSetUpInv == ~ready => ~nic.online /\ nic.given = 0 /\ nic.used = "none"

\* A call that is not of an older epoch began under the set-up in force, or
\* while there was none.
NetEpochInv ==
  \A t \in Net!Callers : npc[t] \in {"try", "wait"} /\ t \notin older
    => began[t] = IF nic.online THEN inits ELSE inits + 1

NetIInv ==
  /\ NetWhole(nic, sent) /\ NetOthersTyped /\ NetSetUpInv /\ NetEpochInv
  /\ Net!OkIsSent /\ Net!DmaPinned

-----------------------------------------------------------------------------
(***************************************************************************)
(* The sections under the interface's lock.                                *)
(***************************************************************************)
LEMMA NetCompleteKeeps ==
  ASSUME NEW sv, NEW n, NetLoose(n, sv), NEW res \in {"ok", "error"},
         res = "ok" => n.id \in sv
  PROVE  LET e == Net!complete(n, res)
         IN  /\ NetLoose(e, sv) /\ ~e.pending
             /\ e.online = n.online /\ e.dma = n.dma /\ e.id = n.id
             /\ e.given = n.given /\ e.used = n.used
<1> DEFINE f == [n EXCEPT !.pending = FALSE, !.late = FALSE, !.result = res, !.done = Net!Senders]
<1>1. Net!Senders \in SUBSET Net!Callers
  BY DEF Net!Senders
<1>2. /\ f \in Net!Nics /\ f.pending = FALSE /\ f.online = n.online /\ f.dma = n.dma /\ f.id = n.id
      /\ f.given = n.given /\ f.used = n.used /\ f.result = res
  BY <1>1 DEF NetLoose, Net!Nics
<1>3. Net!complete(n, res) = IF n.pending THEN f ELSE n
  BY DEF Net!complete
<1> HIDE DEF f
<1>4. CASE n.pending
  BY <1>2, <1>3, <1>4 DEF NetLoose
<1>5. CASE ~n.pending
  BY <1>3, <1>5
<1>6. QED
  BY <1>4, <1>5

LEMMA NetReleaseKeeps ==
  ASSUME Net!BoundAssumption, NEW sv, NEW n, NetWhole(n, sv), ~n.pending
  PROVE  LET e == Net!release(n)
         IN  /\ NetWhole(e, sv) /\ ~e.pending
             /\ e.online = n.online /\ e.dma = n.dma /\ e.given = n.given /\ e.used = n.used
<1> DEFINE e == Net!release(n)
<1>1. Net!Senders \in SUBSET Net!Callers /\ 0 \in 0 .. MaxId
  BY Net!BoundAssumption DEF Net!Senders, Net!BoundAssumption
<1>2. /\ e \in Net!Nics /\ e.pending = FALSE /\ e.online = n.online /\ e.dma = n.dma
      /\ e.given = n.given /\ e.used = n.used /\ e.result = "error"
  BY <1>1 DEF Net!release, NetWhole, NetLoose, Net!Nics
<1> HIDE DEF e
<1>3. NetWhole(e, sv)
  BY <1>2 DEF NetWhole, NetLoose, NetSettled
<1>4. QED
  BY <1>2, <1>3 DEF e

LEMMA NetStopKeeps ==
  ASSUME Net!BoundAssumption, NEW sv, NEW n, NetLoose(n, sv), NEW ack \in BOOLEAN
  PROVE  LET e == Net!stop(n, ack)
         IN  /\ NetWhole(e, sv) /\ ~e.pending /\ ~e.online
             /\ e.dma = (n.dma /\ ~ack)
             /\ ack \/ (n.given = 0 /\ n.used = "none") => e.given = 0 /\ e.used = "none"
<1> DEFINE c == Net!complete(n, "error")
           e == Net!stop(n, ack)
<1>1. /\ NetLoose(c, sv) /\ ~c.pending /\ c.dma = n.dma /\ c.given = n.given /\ c.used = n.used
  BY NetCompleteKeeps
<1>2. e = [c EXCEPT
     !.online = FALSE, !.woken = Net!Receivers, !.done = Net!Senders,
     !.route = FALSE, !.config_pending = FALSE, !.dma = @ /\ ~ack,
     !.rx = IF ack THEN 0 ELSE @, !.unseen = @ /\ ~ack,
     !.given = IF ack THEN 0 ELSE @, !.used = IF ack THEN "none" ELSE @]
  BY DEF Net!stop
<1>3. Net!Senders \in SUBSET Net!Callers /\ Net!Receivers \in SUBSET Net!Callers /\ 0 \in 0 .. MaxId /\ 0 \in 0 .. NetSlots
  BY Net!BoundAssumption DEF Net!Senders, Net!Receivers, Net!BoundAssumption
<1> HIDE DEF c, e
<1>4. /\ e \in Net!Nics /\ e.pending = c.pending /\ e.online = FALSE /\ e.dma = (c.dma /\ ~ack)
      /\ e.result = c.result /\ e.id = c.id
      /\ e.given = (IF ack THEN 0 ELSE c.given) /\ e.used = (IF ack THEN "none" ELSE c.used)
  <2>0. c \in Net!Nics /\ c.dma \in BOOLEAN
    BY <1>1 DEF NetLoose, Net!Nics
  <2>1. CASE ack
    <3>1. e = [c EXCEPT !.online = FALSE, !.woken = Net!Receivers, !.done = Net!Senders,
                        !.route = FALSE, !.config_pending = FALSE, !.dma = FALSE,
                        !.rx = 0, !.unseen = FALSE, !.given = 0, !.used = "none"]
      BY <1>2, <2>0, <2>1 DEF Net!Nics
    <3>2. QED
      BY <1>3, <2>0, <2>1, <3>1 DEF Net!Nics
  <2>2. CASE ~ack
    <3>1. e = [c EXCEPT !.online = FALSE, !.woken = Net!Receivers, !.done = Net!Senders,
                        !.route = FALSE, !.config_pending = FALSE]
      BY <1>2, <2>0, <2>2, ZenonT(30) DEF Net!Nics
    <3>2. QED
      BY <1>3, <2>0, <2>2, <3>1 DEF Net!Nics
  <2>3. QED
    BY <2>1, <2>2
<1>5. NetWhole(e, sv)
  BY <1>1, <1>4 DEF NetWhole, NetLoose, NetSettled
<1>6. QED
  BY <1>1, <1>4, <1>5 DEF e

\* An answer is that to the pending request.
LEMMA NetPollKeeps ==
  ASSUME Net!BoundAssumption, NEW sv, NEW n, NetWhole(n, sv), NEW ack \in BOOLEAN
  PROVE  LET e == Net!poll_request(n, ack)
         IN  /\ NetWhole(e, sv)
             /\ e.online = (n.online /\ ~Net!poll_fails(n))
             /\ e.dma = (n.dma /\ ~(Net!poll_fails(n) /\ ack))
             /\ n.given = 0 /\ n.used = "none" /\ ~n.pending => e.given = 0 /\ e.used = "none"
<1>1. n \in Net!Nics /\ n.dma \in BOOLEAN /\ n.online \in BOOLEAN
  BY DEF NetWhole, NetLoose, Net!Nics
<1>2. CASE n.pending /\ n.used = "ok"
  <2> DEFINE p == [n EXCEPT !.used = "none"]
             e == Net!complete(p, "ok")
  <2>1. /\ p \in Net!Nics /\ p.pending = n.pending /\ p.online = n.online /\ p.dma = n.dma /\ p.id = n.id
        /\ p.given = n.given /\ p.used = "none" /\ p.result = n.result
    BY <1>1 DEF Net!Nics
  <2>2. n.given = 0 /\ n.id \in sv /\ ~Net!poll_fails(n)
    BY <1>2 DEF NetWhole, NetSettled, Net!poll_fails
  <2>3. Net!poll_request(n, ack) = e
    BY <1>2 DEF Net!poll_request
  <2> HIDE DEF p
  <2>4. NetLoose(p, sv)
    BY <2>1 DEF NetWhole, NetLoose
  <2>5. /\ NetLoose(e, sv) /\ ~e.pending /\ e.online = n.online /\ e.dma = n.dma
        /\ e.given = 0 /\ e.used = "none"
    BY <2>1, <2>2, <2>4, NetCompleteKeeps
  <2> HIDE DEF e
  <2>6. NetWhole(e, sv)
    BY <2>5 DEF NetWhole, NetSettled
  <2>7. QED
    BY <1>1, <2>2, <2>3, <2>5, <2>6
<1>3. CASE Net!poll_fails(n)
  <2> DEFINE c == Net!complete(n, "error")
  <2>1. NetLoose(c, sv) /\ c.dma = n.dma /\ c.online = n.online
    BY NetCompleteKeeps DEF NetWhole
  <2>2. Net!poll_request(n, ack) = Net!stop(c, ack) /\ n.pending
    BY <1>3 DEF Net!poll_request, Net!poll_fails
  <2> HIDE DEF c
  <2>3. NetWhole(Net!stop(c, ack), sv) /\ Net!stop(c, ack).dma = (c.dma /\ ~ack) /\ ~Net!stop(c, ack).online
        /\ Net!stop(c, ack) \in Net!Nics
    BY <2>1, NetStopKeeps DEF NetWhole, NetLoose
  <2>4. Net!stop(c, ack).online = FALSE
    BY <2>3 DEF Net!Nics
  <2>5. QED
    BY <1>1, <1>3, <2>1, <2>2, <2>3, <2>4
<1>4. CASE ~(n.pending /\ n.used = "ok") /\ ~Net!poll_fails(n)
  BY <1>1, <1>4 DEF Net!poll_request
<1>5. QED
  BY <1>2, <1>3, <1>4

\* Fields that no part of the invariant reads.
LEMMA NetQuietKeeps ==
  ASSUME NEW sv, NEW n, NetWhole(n, sv), NEW e \in Net!Nics,
         e.pending = n.pending, e.online = n.online, e.result = n.result, e.id = n.id,
         e.given = n.given, e.used = n.used
  PROVE  NetWhole(e, sv)
BY DEF NetWhole, NetLoose, NetSettled

-----------------------------------------------------------------------------
(***************************************************************************)
(* Each step keeps the invariant.                                          *)
(***************************************************************************)
\* A step that sets nothing up: s says whether it stops the interface.
LEMMA NetStepKeeps ==
  ASSUME NetIInv, NEW s \in BOOLEAN, NEW ack \in BOOLEAN,
         NetWhole(nic', sent), NetOthersTyped', Net!OkIsSent',
         UNCHANGED <<ready, inits, sent>>,
         nic'.online = (nic.online /\ ~s),
         nic'.dma = (nic.dma /\ ~(s /\ ack)),
         device'.running = (device.running /\ ~(s /\ ack)),
         ~nic.online /\ nic.given = 0 /\ nic.used = "none" => nic'.given = 0 /\ nic'.used = "none",
         \A t \in Net!Callers : npc'[t] \in {"try", "wait"} /\ t \notin older'
           => ~s /\ npc[t] \in {"try", "wait"} /\ t \notin older /\ began'[t] = began[t]
  PROVE  NetIInv'
<1>1. NetSetUpInv'
  BY DEF NetIInv, NetSetUpInv
<1>2. NetEpochInv'
  BY DEF NetIInv, NetEpochInv
<1>3. Net!DmaPinned'
  BY DEF NetIInv, Net!DmaPinned
<1>4. QED
  BY <1>1, <1>2, <1>3 DEF NetIInv

LEMMA NetInitIInv == ASSUME Net!NobodyAssumption, Net!BoundAssumption, Net!Init PROVE NetIInv
<1>1. 0 \in 0 .. NetSlots /\ 0 \in 0 .. MaxId /\ 0 \in 0 .. MaxInits /\ 0 \in 0 .. MaxInits + 1
  BY DEF Net!BoundAssumption
<1>2. Net!Absent \in Net!Nics
  BY <1>1 DEF Net!Absent, Net!Nics
<1>3. NetWhole(nic, sent)
  BY <1>2 DEF Net!Init, NetWhole, NetLoose, NetSettled, Net!Absent
<1>4. NetOthersTyped
  BY <1>1 DEF Net!Init, NetOthersTyped
<1>5. NetSetUpInv /\ NetEpochInv /\ Net!OkIsSent /\ Net!DmaPinned
  BY DEF Net!Init, NetSetUpInv, NetEpochInv, Net!OkIsSent, Net!DmaPinned, Net!Absent
<1>6. QED
  BY <1>3, <1>4, <1>5 DEF NetIInv

LEMMA NetInitKeeps ==
  ASSUME Net!BoundAssumption, NetIInv, NEW ok \in BOOLEAN, NEW irq \in BOOLEAN, NEW ack \in BOOLEAN,
         Net!net_init(ok, irq, ack)
  PROVE  NetIInv'
<1>1. /\ NetWhole(nic, sent) /\ nic \in Net!Nics /\ NetOthersTyped /\ ~ready /\ ~nic.online /\ ~nic.pending
      /\ nic.given = 0 /\ nic.used = "none" /\ inits < MaxInits
      /\ ready' = TRUE /\ inits' = inits + 1
      /\ UNCHANGED <<npc, ntoken, began, nservice, nnext_id, sent>>
  BY DEF NetIInv, NetSetUpInv, NetWhole, NetLoose, Net!net_init
<1>2. 0 \in 0 .. NetSlots /\ inits' \in 0 .. MaxInits /\ inits \in Nat
  BY <1>1 DEF Net!BoundAssumption, NetOthersTyped
<1>3. Net!OkIsSent'
  BY <1>1 DEF NetIInv, Net!OkIsSent
<1>4. CASE ok
  <2>1. /\ nic' = [nic EXCEPT !.count = TRUE, !.online = TRUE,
                              !.dma = TRUE, !.rx = 0, !.unseen = FALSE, !.route = irq]
        /\ device' = [device EXCEPT !.running = TRUE] /\ older' = older
    BY <1>4 DEF Net!net_init
  <2>2. /\ nic' \in Net!Nics /\ nic'.online = TRUE /\ nic'.dma = TRUE /\ nic'.pending = nic.pending
        /\ nic'.result = nic.result /\ nic'.id = nic.id /\ nic'.given = nic.given /\ nic'.used = nic.used
    BY <1>1, <1>2, <2>1 DEF Net!Nics
  <2>3. NetWhole(nic', sent')
    BY <1>1, <2>2 DEF NetWhole, NetLoose, NetSettled
  <2>4. NetOthersTyped'
    BY <1>1, <1>2, <2>1 DEF NetOthersTyped
  <2>5. NetSetUpInv' /\ Net!DmaPinned'
    BY <1>1, <2>2 DEF NetSetUpInv, Net!DmaPinned
  <2>6. NetEpochInv'
    BY <1>1, <2>1, <2>2 DEF NetIInv, NetEpochInv
  <2>7. QED
    BY <1>3, <2>3, <2>4, <2>5, <2>6 DEF NetIInv
<1>5. CASE ~ok
  <2> DEFINE d == [nic EXCEPT !.dma = TRUE]
             e == Net!stop(d, ack)
  <2>1. nic' = [e EXCEPT !.count = TRUE] /\ Net!Stops(TRUE, ack)
    BY <1>5 DEF Net!net_init
  <2>2. /\ d \in Net!Nics /\ d.dma = TRUE /\ d.online = nic.online /\ d.pending = nic.pending
        /\ d.result = nic.result /\ d.id = nic.id /\ d.given = 0 /\ d.used = "none"
    BY <1>1 DEF Net!Nics
  <2> HIDE DEF d
  <2>3. NetLoose(d, sent)
    BY <1>1, <2>2 DEF NetWhole, NetLoose
  <2>4. /\ NetWhole(e, sent) /\ ~e.pending /\ ~e.online /\ e.dma = ~ack /\ e.given = 0 /\ e.used = "none"
    BY <2>2, <2>3, NetStopKeeps
  <2> HIDE DEF e
  <2>5. e \in Net!Nics
    BY <2>4 DEF NetWhole, NetLoose
  <2>6. /\ nic' \in Net!Nics /\ nic'.online = e.online /\ nic'.dma = e.dma /\ nic'.pending = e.pending
        /\ nic'.result = e.result /\ nic'.id = e.id /\ nic'.given = e.given /\ nic'.used = e.used
    BY <2>1, <2>5 DEF Net!Nics
  <2>7. NetWhole(nic', sent')
    BY <1>1, <2>4, <2>6, NetQuietKeeps
  <2>8. /\ device' \in [link : BOOLEAN, running : BOOLEAN, queue : BOOLEAN, config : BOOLEAN]
        /\ device'.running => ~ack
        /\ older' = Net!Waiting
    BY <1>1, <2>1 DEF Net!Stops, NetOthersTyped, NetIInv, Net!DmaPinned
  <2>9. NetOthersTyped'
    BY <1>1, <1>2, <2>8 DEF NetOthersTyped, Net!Waiting
  <2>10. NetSetUpInv' /\ Net!DmaPinned'
    BY <1>1, <2>4, <2>6, <2>8 DEF NetSetUpInv, Net!DmaPinned
  <2>11. NetEpochInv'
    BY <1>1, <2>8 DEF NetEpochInv, Net!Waiting
  <2>12. QED
    BY <1>3, <2>7, <2>9, <2>10, <2>11 DEF NetIInv
<1>6. QED
  BY <1>4, <1>5

LEMMA NetShutdownKeeps ==
  ASSUME Net!BoundAssumption, NetIInv, NEW ack \in BOOLEAN, Net!net_shutdown(ack)
  PROVE  NetIInv'
<1> DEFINE e == Net!release(Net!stop(nic, ack))
<1>1. NetWhole(nic, sent) /\ NetOthersTyped
  BY DEF NetIInv
<1>2. /\ NetWhole(e, sent) /\ ~e.pending /\ ~e.online /\ e.dma = (nic.dma /\ ~ack)
      /\ ack => e.given = 0 /\ e.used = "none"
  <2>1. /\ NetWhole(Net!stop(nic, ack), sent) /\ ~Net!stop(nic, ack).pending /\ ~Net!stop(nic, ack).online
        /\ Net!stop(nic, ack).dma = (nic.dma /\ ~ack)
        /\ ack => Net!stop(nic, ack).given = 0 /\ Net!stop(nic, ack).used = "none"
    BY <1>1, NetStopKeeps DEF NetWhole
  <2>2. QED
    BY <2>1, NetReleaseKeeps
<1>3. /\ nic' = [e EXCEPT !.count = ~ack] /\ ready' = ~ack /\ Net!Stops(TRUE, ack)
      /\ UNCHANGED <<npc, ntoken, began, nservice, nnext_id, inits, sent>>
  BY DEF Net!net_shutdown
<1> HIDE DEF e
<1>4. e \in Net!Nics
  BY <1>2 DEF NetWhole, NetLoose
<1>5. /\ nic' \in Net!Nics /\ nic'.online = e.online /\ nic'.dma = e.dma /\ nic'.pending = e.pending
      /\ nic'.result = e.result /\ nic'.id = e.id /\ nic'.given = e.given /\ nic'.used = e.used
  BY <1>3, <1>4 DEF Net!Nics
<1>6. NetWhole(nic', sent')
  BY <1>2, <1>3, <1>5, NetQuietKeeps
<1>7. /\ device' \in [link : BOOLEAN, running : BOOLEAN, queue : BOOLEAN, config : BOOLEAN]
      /\ device'.running => device.running /\ ~ack
      /\ older' = Net!Waiting
  BY <1>1, <1>3 DEF Net!Stops, NetOthersTyped
<1>8. NetOthersTyped'
  BY <1>1, <1>3, <1>7 DEF NetOthersTyped, Net!Waiting
<1>9. NetSetUpInv' /\ Net!DmaPinned'
  BY <1>2, <1>3, <1>5, <1>7 DEF NetSetUpInv, Net!DmaPinned, NetIInv
<1>10. NetEpochInv' /\ Net!OkIsSent'
  BY <1>3, <1>7 DEF NetEpochInv, Net!Waiting, Net!OkIsSent, NetIInv
<1>11. QED
  BY <1>6, <1>8, <1>9, <1>10 DEF NetIInv

\* A section that leaves the interface as it is, but for what is quiet.
LEMMA NetQuietStepKeeps ==
  ASSUME NetIInv, NetOthersTyped', Net!OkIsSent', UNCHANGED <<ready, inits, sent>>,
         nic' \in Net!Nics, nic'.dma = nic.dma, nic'.pending = nic.pending, nic'.online = nic.online,
         nic'.result = nic.result, nic'.id = nic.id, nic'.given = nic.given, nic'.used = nic.used,
         device'.running = device.running,
         \A t \in Net!Callers : npc'[t] \in {"try", "wait"} /\ t \notin older'
           => npc[t] \in {"try", "wait"} /\ t \notin older /\ began'[t] = began[t]
  PROVE  NetIInv'
<1>1. NetWhole(nic', sent)
  BY NetQuietKeeps DEF NetIInv
<1>2. nic.online \in BOOLEAN /\ nic.dma \in BOOLEAN /\ device.running \in BOOLEAN
  BY DEF NetIInv, NetWhole, NetLoose, Net!Nics, NetOthersTyped
<1>3. QED
  BY <1>1, <1>2, NetStepKeeps, Zenon

LEMMA NetReceiveSteps ==
  ASSUME Net!BoundAssumption, NetIInv, NEW t \in Net!Callers,
         \/ Net!ReceiveReturns(t) \/ Net!ReceiveFrame(t) \/ Net!ReceiveEmpty(t)
         \/ Net!ReceiveWakes(t) \/ Net!ReceiveTimeout(t)
  PROVE  NetIInv'
<1>1. nic \in Net!Nics /\ NetWhole(nic, sent) /\ NetOthersTyped /\ Net!OkIsSent /\ 0 \in 0 .. MaxInits + 1
  BY DEF NetIInv, NetWhole, NetLoose, Net!BoundAssumption
<1>2. UNCHANGED <<device, ready, ntoken, nservice, nnext_id, inits, sent>>
  BY DEF Net!ReceiveReturns, Net!ReceiveFrame, Net!ReceiveEmpty, Net!ReceiveWakes, Net!ReceiveTimeout
<1>3. /\ nic' \in Net!Nics /\ nic'.dma = nic.dma /\ nic'.pending = nic.pending /\ nic'.online = nic.online
      /\ nic'.result = nic.result /\ nic'.id = nic.id /\ nic'.given = nic.given /\ nic'.used = nic.used
  <2>1. CASE nic' = nic
    BY <1>1, <2>1
  <2>2. CASE nic.rx > 0 /\ nic' = [nic EXCEPT !.rx = @ - 1]
    <3>1. nic.rx \in 0 .. NetSlots
      BY <1>1 DEF Net!Nics
    <3>2. nic.rx - 1 \in 0 .. NetSlots
      BY <2>2, <3>1 DEF Net!BoundAssumption
    <3>3. QED
      BY <1>1, <2>2, <3>2 DEF Net!Nics
  <2>3. CASE nic' = [nic EXCEPT !.woken = @ \ {t}]
    BY <1>1, <2>3 DEF Net!Nics
  <2>4. QED
    BY <2>1, <2>2, <2>3 DEF Net!ReceiveReturns, Net!ReceiveFrame, Net!ReceiveEmpty, Net!ReceiveWakes, Net!ReceiveTimeout
<1>4. \/ /\ \E p \in {"try", "wait"} : npc' = [npc EXCEPT ![t] = p] /\ UNCHANGED <<older, began>>
         /\ npc[t] \in {"try", "wait"}
      \/ Net!Returned(t) /\ older' = older \ {t}
  BY DEF Net!ReceiveReturns, Net!ReceiveFrame, Net!ReceiveEmpty, Net!ReceiveWakes, Net!ReceiveTimeout
<1>5. /\ NetOthersTyped' /\ Net!OkIsSent'
      /\ \A u \in Net!Callers : npc'[u] \in {"try", "wait"} /\ u \notin older'
           => npc[u] \in {"try", "wait"} /\ u \notin older /\ began'[u] = began[u]
  <2>1. CASE /\ \E p \in {"try", "wait"} : npc' = [npc EXCEPT ![t] = p] /\ UNCHANGED <<older, began>>
             /\ npc[t] \in {"try", "wait"}
    BY <1>1, <1>2, <2>1 DEF NetOthersTyped, Net!OkIsSent
  <2>2. CASE Net!Returned(t) /\ older' = older \ {t}
    BY <1>1, <1>2, <2>2 DEF NetOthersTyped, Net!OkIsSent, Net!Returned
  <2>3. QED
    BY <1>4, <2>1, <2>2
<1>6. QED
  BY <1>2, <1>3, <1>5, NetQuietStepKeeps

LEMMA NetReceiveBeginKeeps ==
  ASSUME Net!BoundAssumption, NetIInv, NEW t \in Net!Callers, Net!ReceiveBegin(t)
  PROVE  NetIInv'
<1>1. NetWhole(nic, sent) /\ NetOthersTyped /\ Net!OkIsSent
  BY DEF NetIInv
<1>2. inits \in 0 .. MaxInits + 1 /\ inits + 1 \in 0 .. MaxInits + 1
  BY <1>1 DEF NetOthersTyped, Net!BoundAssumption
<1>3. NetOthersTyped' /\ Net!OkIsSent'
  BY <1>1, <1>2 DEF Net!ReceiveBegin, NetOthersTyped, Net!OkIsSent
<1>4. NetSetUpInv' /\ Net!DmaPinned' /\ NetWhole(nic', sent')
  BY <1>1 DEF Net!ReceiveBegin, NetIInv, NetSetUpInv, Net!DmaPinned
<1>5. NetEpochInv'
  BY <1>1 DEF Net!ReceiveBegin, NetIInv, NetEpochInv, NetOthersTyped
<1>6. QED
  BY <1>3, <1>4, <1>5 DEF NetIInv

\* A step of t's that may stop the interface.
LEMMA NetStoppingStepKeeps ==
  ASSUME Net!BoundAssumption, NetIInv, NEW t \in Net!Callers, NEW s \in BOOLEAN, NEW ack \in BOOLEAN, NEW n,
         NetWhole(n, sent), nic' = n, Net!Stops(s, ack),
         n.online = (nic.online /\ ~s), n.dma = (nic.dma /\ ~(s /\ ack)),
         nic.given = 0 /\ nic.used = "none" /\ ~nic.pending => n.given = 0 /\ n.used = "none",
         NEW p \in {"idle", "sleep", "ok"}, npc' = [npc EXCEPT ![t] = p],
         ntoken' \in [Net!Callers -> 0 .. MaxId],
         \A u \in Net!Callers \ {t} : ntoken'[u] = ntoken[u],
         p = "ok" => ntoken'[t] \in sent,
         began' \in [Net!Callers -> 0 .. MaxInits + 1],
         \A u \in Net!Callers \ {t} : began'[u] = began[u],
         UNCHANGED <<ready, nservice, nnext_id, inits, sent>>
  PROVE  NetIInv'
<1>1. NetOthersTyped /\ Net!OkIsSent /\ NetWhole(nic, sent) /\ device.running \in BOOLEAN
  BY DEF NetIInv, NetOthersTyped
<1>2. /\ device' \in [link : BOOLEAN, running : BOOLEAN, queue : BOOLEAN, config : BOOLEAN]
      /\ device'.running = (device.running /\ ~(s /\ ack))
      /\ older' = IF s THEN Net!Waiting ELSE older
  BY <1>1 DEF Net!Stops, NetOthersTyped
<1>3. NetOthersTyped'
  BY <1>1, <1>2 DEF NetOthersTyped, Net!Waiting
<1>4. Net!OkIsSent'
  BY <1>1 DEF Net!OkIsSent, NetOthersTyped
<1>5. \A u \in Net!Callers : npc'[u] \in {"try", "wait"} /\ u \notin older'
           => ~s /\ npc[u] \in {"try", "wait"} /\ u \notin older /\ began'[u] = began[u]
  BY <1>1, <1>2 DEF Net!Waiting, NetOthersTyped
<1>6. ~nic.online => ~nic.pending
  BY <1>1 DEF NetWhole, NetLoose
<1>7. QED
  BY <1>2, <1>3, <1>4, <1>5, <1>6, NetStepKeeps

LEMMA NetRefusedKeeps ==
  ASSUME Net!BoundAssumption, NetIInv, NEW t \in Net!Callers, NEW ack \in BOOLEAN, Net!ReceiveRefused(t, ack)
  PROVE  NetIInv'
<1>1. NetWhole(nic, sent) /\ NetOthersTyped /\ 0 \in 0 .. MaxInits + 1
  BY DEF NetIInv, Net!BoundAssumption
<1> DEFINE n == Net!stop(nic, ack)
<1>2. /\ NetWhole(n, sent) /\ ~n.online /\ n.dma = (nic.dma /\ ~ack)
      /\ nic.given = 0 /\ nic.used = "none" => n.given = 0 /\ n.used = "none"
  BY <1>1, NetStopKeeps DEF NetWhole
<1>3. n.online = FALSE
  BY <1>2 DEF NetWhole, NetLoose, Net!Nics
<1>4. /\ nic' = n /\ Net!Stops(TRUE, ack) /\ npc' = [npc EXCEPT ![t] = "idle"]
      /\ began' = [began EXCEPT ![t] = 0]
      /\ UNCHANGED <<ready, ntoken, nservice, nnext_id, inits, sent>>
  BY DEF Net!ReceiveRefused, Net!Returned
<1> HIDE DEF n
<1>5. ntoken' \in [Net!Callers -> 0 .. MaxId] /\ began' \in [Net!Callers -> 0 .. MaxInits + 1]
      /\ \A u \in Net!Callers \ {t} : ntoken'[u] = ntoken[u] /\ began'[u] = began[u]
  BY <1>1, <1>4 DEF NetOthersTyped
<1>6. QED
  BY <1>2, <1>3, <1>4, <1>5, NetStoppingStepKeeps


LEMMA NetSubmitKeeps ==
  ASSUME Net!BoundAssumption, NetIInv, NEW t \in Net!Callers, Net!Submit(t)
  PROVE  NetIInv'
<1>1. /\ NetWhole(nic, sent) /\ nic \in Net!Nics /\ NetOthersTyped /\ Net!OkIsSent
      /\ nic.online /\ ~nic.pending /\ nic.given = 0 /\ nic.used = "none"
  BY DEF NetIInv, NetWhole, NetLoose, NetSettled, Net!Submit
<1>2. /\ nnext_id' = nnext_id + 1
      /\ nic' = [nic EXCEPT !.id = nnext_id', !.owner = t, !.pending = TRUE, !.late = FALSE,
                            !.result = "error", !.given = nnext_id']
      /\ ntoken' = [ntoken EXCEPT ![t] = nnext_id'] /\ npc' = [npc EXCEPT ![t] = "collect"]
      /\ UNCHANGED <<device, ready, older, began, nservice, inits, sent>>
  BY DEF Net!Submit
<1>3. nnext_id' \in 0 .. MaxId /\ nnext_id' # 0
  BY <1>1 DEF Net!Submit, NetOthersTyped, Net!BoundAssumption
<1>4. /\ nic' \in Net!Nics /\ nic'.id = nnext_id' /\ nic'.pending = TRUE /\ nic'.result = "error"
      /\ nic'.given = nnext_id' /\ nic'.used = nic.used /\ nic'.online = nic.online /\ nic'.dma = nic.dma
  BY <1>1, <1>2, <1>3, ZenonT(30) DEF Net!Nics
<1>5. NetWhole(nic', sent)
  BY <1>1, <1>3, <1>4 DEF NetWhole, NetLoose, NetSettled
<1>6. NetOthersTyped' /\ Net!OkIsSent'
  BY <1>1, <1>2, <1>3 DEF NetOthersTyped, Net!OkIsSent
<1>7. \A u \in Net!Callers : npc'[u] \in {"try", "wait"} /\ u \notin older'
           => npc[u] \in {"try", "wait"} /\ u \notin older /\ began'[u] = began[u]
  BY <1>1, <1>2 DEF NetOthersTyped
<1>8. nic.online \in BOOLEAN /\ nic.dma \in BOOLEAN /\ device.running \in BOOLEAN
  BY <1>1 DEF Net!Nics, NetOthersTyped
<1>9. QED
  BY <1>1, <1>2, <1>4, <1>5, <1>6, <1>7, <1>8, NetStepKeeps


LEMMA NetCollectKeeps ==
  ASSUME Net!BoundAssumption, NetIInv, NEW t \in Net!Callers, NEW ack \in BOOLEAN, Net!net_collect(t, ack)
  PROVE  NetIInv'
<1> DEFINE own == ntoken[t] = nic.id
           n == IF own THEN Net!poll_request(nic, ack) ELSE nic
           s == own /\ Net!poll_fails(nic)
           e == IF ntoken[t] = n.id /\ ~n.pending THEN Net!release(n) ELSE n
           p == IF ~Net!Collected(t, n) THEN "sleep"
                ELSE IF ntoken[t] = n.id /\ n.result = "ok" THEN "ok" ELSE "idle"
<1>1. NetWhole(nic, sent) /\ nic \in Net!Nics /\ NetOthersTyped /\ 0 \in 0 .. MaxId
  BY DEF NetIInv, NetWhole, NetLoose, Net!BoundAssumption
<1>2. /\ nic' = e /\ Net!Stops(s, ack) /\ npc' = [npc EXCEPT ![t] = p]
      /\ ntoken' = [ntoken EXCEPT ![t] = IF npc'[t] = "idle" THEN 0 ELSE @]
      /\ UNCHANGED <<ready, began, nservice, nnext_id, inits, sent>>
  BY DEF Net!net_collect
<1>3. /\ NetWhole(n, sent) /\ n.online = (nic.online /\ ~s) /\ n.dma = (nic.dma /\ ~(s /\ ack))
      /\ nic.given = 0 /\ nic.used = "none" /\ ~nic.pending => n.given = 0 /\ n.used = "none"
  <2>1. CASE own
    BY <1>1, <2>1, NetPollKeeps
  <2>2. CASE ~own
    BY <1>1, <2>2 DEF Net!Nics
  <2>3. QED
    BY <2>1, <2>2
<1>4. s \in BOOLEAN /\ p \in {"idle", "sleep", "ok"}
  BY DEF Net!poll_fails
<1>5. p = "ok" => ntoken[t] \in sent
  BY <1>3 DEF NetWhole, NetLoose
<1> HIDE DEF n, s, p
<1>6. /\ NetWhole(e, sent) /\ e.online = (nic.online /\ ~s) /\ e.dma = (nic.dma /\ ~(s /\ ack))
      /\ nic.given = 0 /\ nic.used = "none" /\ ~nic.pending => e.given = 0 /\ e.used = "none"
  <2>1. CASE ntoken[t] = n.id /\ ~n.pending
    BY <1>3, <2>1, NetReleaseKeeps
  <2>2. CASE ~(ntoken[t] = n.id /\ ~n.pending)
    BY <1>3, <2>2
  <2>3. QED
    BY <2>1, <2>2
<1> HIDE DEF e
<1>7. /\ ntoken' \in [Net!Callers -> 0 .. MaxId]
      /\ \A u \in Net!Callers \ {t} : ntoken'[u] = ntoken[u]
      /\ p = "ok" => ntoken'[t] \in sent
  BY <1>1, <1>2, <1>5 DEF NetOthersTyped
<1>8. began' \in [Net!Callers -> 0 .. MaxInits + 1] /\ \A u \in Net!Callers \ {t} : began'[u] = began[u]
  BY <1>1, <1>2 DEF NetOthersTyped
<1>9. QED
  BY <1>2, <1>4, <1>6, <1>7, <1>8, NetStoppingStepKeeps

\* The request, if it is still pending, is stopped and the slot given back.
LEMMA NetDropKeeps ==
  ASSUME Net!BoundAssumption, NEW sv, NEW n, NetWhole(n, sv), NEW ack \in BOOLEAN
  PROVE  LET e == Net!release(IF n.pending THEN Net!stop(n, ack) ELSE n)
         IN  /\ NetWhole(e, sv) /\ ~e.pending
             /\ e.online = (n.online /\ ~n.pending) /\ e.dma = (n.dma /\ ~(n.pending /\ ack))
             /\ n.given = 0 /\ n.used = "none" /\ ~n.pending => e.given = 0 /\ e.used = "none"
<1> DEFINE d == IF n.pending THEN Net!stop(n, ack) ELSE n
<1>1. n.online \in BOOLEAN /\ n.dma \in BOOLEAN /\ NetLoose(n, sv)
  BY DEF NetWhole, NetLoose, Net!Nics
<1>2. CASE n.pending
  <2>1. NetWhole(d, sv) /\ ~d.pending /\ ~d.online /\ d.dma = (n.dma /\ ~ack)
    BY <1>1, <1>2, NetStopKeeps
  <2>2. d.online = FALSE
    BY <2>1 DEF NetWhole, NetLoose, Net!Nics
  <2> HIDE DEF d
  <2>3. QED
    BY <1>1, <1>2, <2>1, <2>2, NetReleaseKeeps DEF d
<1>3. CASE ~n.pending
  BY <1>1, <1>3, NetReleaseKeeps
<1>4. QED
  BY <1>2, <1>3

LEMMA NetCancelKeeps ==
  ASSUME Net!BoundAssumption, NetIInv, NEW t \in Net!Callers, NEW ack \in BOOLEAN, Net!net_cancel(t, ack)
  PROVE  NetIInv'
<1> DEFINE own == ntoken[t] = nic.id
           e == IF ~own THEN nic ELSE Net!release(IF nic.pending THEN Net!stop(nic, ack) ELSE nic)
           s == own /\ nic.pending
<1>1. NetWhole(nic, sent) /\ nic \in Net!Nics /\ NetOthersTyped /\ 0 \in 0 .. MaxId
  BY DEF NetIInv, NetWhole, NetLoose, Net!BoundAssumption
<1>2. /\ nic' = e /\ Net!Stops(s, ack) /\ npc' = [npc EXCEPT ![t] = "idle"]
      /\ ntoken' = [ntoken EXCEPT ![t] = 0]
      /\ UNCHANGED <<ready, began, nservice, nnext_id, inits, sent>>
  BY DEF Net!net_cancel
<1>3. /\ NetWhole(e, sent) /\ e.online = (nic.online /\ ~s) /\ e.dma = (nic.dma /\ ~(s /\ ack))
      /\ nic.given = 0 /\ nic.used = "none" /\ ~nic.pending => e.given = 0 /\ e.used = "none"
  <2>1. CASE own
    BY <1>1, <2>1, NetDropKeeps
  <2>2. CASE ~own
    BY <1>1, <2>2 DEF Net!Nics
  <2>3. QED
    BY <2>1, <2>2
<1>4. s \in BOOLEAN
  BY <1>1 DEF Net!Nics
<1> HIDE DEF e, s
<1>5. /\ ntoken' \in [Net!Callers -> 0 .. MaxId]
      /\ \A u \in Net!Callers \ {t} : ntoken'[u] = ntoken[u]
      /\ began' \in [Net!Callers -> 0 .. MaxInits + 1] /\ \A u \in Net!Callers \ {t} : began'[u] = began[u]
  BY <1>1, <1>2 DEF NetOthersTyped
<1>6. QED
  BY <1>2, <1>3, <1>4, <1>5, NetStoppingStepKeeps

LEMMA NetTaskSteps ==
  ASSUME Net!BoundAssumption, NetIInv, NEW t \in Net!Callers, Net!SendWakes(t) \/ Net!Dies(t)
  PROVE  NetIInv'
<1>1. nic \in Net!Nics /\ NetOthersTyped /\ Net!OkIsSent /\ 0 \in 0 .. MaxId /\ 0 \in 0 .. MaxInits + 1
  BY DEF NetIInv, NetWhole, NetLoose, Net!BoundAssumption
<1>2. UNCHANGED <<device, ready, nservice, nnext_id, inits, sent>>
  BY DEF Net!SendWakes, Net!Dies
<1>3. /\ nic' \in Net!Nics /\ nic'.dma = nic.dma /\ nic'.pending = nic.pending /\ nic'.online = nic.online
      /\ nic'.result = nic.result /\ nic'.id = nic.id /\ nic'.given = nic.given /\ nic'.used = nic.used
  <2>1. CASE nic' = nic
    BY <1>1, <2>1
  <2>2. CASE nic' = [nic EXCEPT !.done = @ \ {t}]
    BY <1>1, <2>2 DEF Net!Nics
  <2>3. CASE nic' = [nic EXCEPT !.woken = @ \ {t}, !.done = @ \ {t}]
    BY <1>1, <2>3 DEF Net!Nics
  <2>4. QED
    BY <2>1, <2>2, <2>3 DEF Net!SendWakes, Net!Dies
<1>4. /\ NetOthersTyped' /\ Net!OkIsSent'
      /\ \A u \in Net!Callers : npc'[u] \in {"try", "wait"} /\ u \notin older'
           => npc[u] \in {"try", "wait"} /\ u \notin older /\ began'[u] = began[u]
  <2>1. CASE Net!SendWakes(t)
    <3>1. \/ npc' = [npc EXCEPT ![t] = "collect"] /\ ntoken' = ntoken
          \/ npc' = [npc EXCEPT ![t] = "idle"] /\ ntoken' = [ntoken EXCEPT ![t] = 0]
      BY <2>1 DEF Net!SendWakes
    <3>2. UNCHANGED <<older, began>>
      BY <2>1 DEF Net!SendWakes
    <3>3. QED
      BY <1>1, <1>2, <3>1, <3>2 DEF NetOthersTyped, Net!OkIsSent
  <2>2. CASE Net!Dies(t)
    <3>1. /\ npc' = [npc EXCEPT ![t] = "dead"] /\ ntoken' = [ntoken EXCEPT ![t] = 0]
          /\ began' = [began EXCEPT ![t] = 0] /\ older' = older \ {t}
      BY <2>2 DEF Net!Dies
    <3>2. QED
      BY <1>1, <1>2, <3>1 DEF NetOthersTyped, Net!OkIsSent
  <2>3. QED
    BY <2>1, <2>2
<1>5. QED
  BY <1>2, <1>3, <1>4, NetQuietStepKeeps

\* A step of the service task, the handler or the device that only reads the
\* receive queue and the configuration.
LEMMA NetOtherQuietSteps ==
  ASSUME Net!BoundAssumption, NetIInv,
         Net!ServiceFirst \/ Net!ServiceSkips \/ Net!ServiceWakes \/ Net!virtio_irq_dispatch
           \/ Net!DeviceReceives \/ Net!DeviceLink \/ Net!RequestAges
  PROVE  NetIInv'
<1>1. /\ nic \in Net!Nics /\ NetOthersTyped /\ Net!OkIsSent /\ 0 \in 0 .. MaxId
      /\ device \in [link : BOOLEAN, running : BOOLEAN, queue : BOOLEAN, config : BOOLEAN]
      /\ nservice \in [at : {"first", "second", "wait"}, id : 0 .. MaxId, owner : Net!Callers \cup {Nobody}]
  BY DEF NetIInv, NetWhole, NetLoose, Net!BoundAssumption, NetOthersTyped
<1>2. UNCHANGED <<ready, Net!tasks, nnext_id, inits, sent>>
  BY DEF Net!ServiceFirst, Net!ServiceSkips, Net!ServiceWakes, Net!virtio_irq_dispatch, Net!DeviceReceives,
         Net!DeviceLink, Net!RequestAges
<1>3. /\ nic' \in Net!Nics /\ nic'.dma = nic.dma /\ nic'.pending = nic.pending /\ nic'.online = nic.online
      /\ nic'.result = nic.result /\ nic'.id = nic.id /\ nic'.given = nic.given /\ nic'.used = nic.used
  <2>1. CASE nic' = nic
    BY <1>1, <2>1
  <2>2. CASE Net!virtio_irq_dispatch
    <3>1. nic' = [nic EXCEPT !.config_pending = nic.config_pending \/ device.config]
      BY <2>2 DEF Net!virtio_irq_dispatch
    <3>2. (nic.config_pending \/ device.config) \in BOOLEAN
      OBVIOUS
    <3>3. QED
      BY <1>1, <3>1, <3>2 DEF Net!Nics
  <2>3. CASE Net!DeviceReceives
    <3>1. nic' = [nic EXCEPT !.rx = @ + 1, !.unseen = TRUE] /\ nic.rx < NetSlots /\ nic.rx \in 0 .. NetSlots
      BY <1>1, <2>3 DEF Net!DeviceReceives, Net!Nics
    <3>2. nic.rx + 1 \in 0 .. NetSlots
      BY <3>1 DEF Net!BoundAssumption
    <3>3. QED
      BY <1>1, <3>1, <3>2 DEF Net!Nics
  <2>4. CASE Net!RequestAges
    <3>1. nic' = [nic EXCEPT !.late = TRUE]
      BY <2>4 DEF Net!RequestAges
    <3>2. QED
      BY <1>1, <3>1 DEF Net!Nics
  <2>5. QED
    BY <2>1, <2>2, <2>3, <2>4 DEF Net!ServiceFirst, Net!ServiceSkips, Net!ServiceWakes, Net!DeviceLink
<1>4. /\ device' \in [link : BOOLEAN, running : BOOLEAN, queue : BOOLEAN, config : BOOLEAN]
      /\ device'.running = device.running
  BY <1>1 DEF Net!ServiceFirst, Net!ServiceSkips, Net!ServiceWakes, Net!virtio_irq_dispatch, Net!DeviceReceives,
              Net!DeviceLink, Net!RequestAges
<1>5. nservice' \in [at : {"first", "second", "wait"}, id : 0 .. MaxId, owner : Net!Callers \cup {Nobody}]
  <2>1. nic.id \in 0 .. MaxId /\ nic.owner \in Net!Callers \cup {Nobody}
    BY <1>1 DEF Net!Nics
  <2>2. QED
    BY <1>1, <2>1 DEF Net!ServiceFirst, Net!ServiceSkips, Net!ServiceWakes, Net!virtio_irq_dispatch, Net!DeviceReceives,
                      Net!DeviceLink, Net!RequestAges
<1>6. NetOthersTyped' /\ Net!OkIsSent'
  BY <1>1, <1>2, <1>4, <1>5 DEF NetOthersTyped, Net!OkIsSent, Net!tasks
<1>7. \A t \in Net!Callers : npc'[t] \in {"try", "wait"} /\ t \notin older'
           => npc[t] \in {"try", "wait"} /\ t \notin older /\ began'[t] = began[t]
  BY <1>2 DEF Net!tasks
<1>8. QED
  BY <1>2, <1>3, <1>4, <1>6, <1>7, NetQuietStepKeeps

LEMMA NetSweptKeeps ==
  ASSUME Net!BoundAssumption, NetIInv, NEW ack \in BOOLEAN
  PROVE  LET n == Net!poll_request(Net!Swept(ack), ack)
             s == (Net!Abandoned /\ nic.pending) \/ (~Net!Abandoned /\ Net!poll_fails(nic))
         IN  /\ NetWhole(n, sent)
             /\ n.online = (nic.online /\ ~s) /\ n.dma = (nic.dma /\ ~(s /\ ack))
             /\ nic.given = 0 /\ nic.used = "none" /\ ~nic.pending => n.given = 0 /\ n.used = "none"
<1>1. NetWhole(nic, sent) /\ nic.online \in BOOLEAN /\ nic.dma \in BOOLEAN
  BY DEF NetIInv, NetWhole, NetLoose, Net!Nics
<1>2. CASE Net!Abandoned
  <2> DEFINE d == Net!release(IF nic.pending THEN Net!stop(nic, ack) ELSE nic)
  <2>1. /\ NetWhole(d, sent) /\ ~d.pending
        /\ d.online = (nic.online /\ ~nic.pending) /\ d.dma = (nic.dma /\ ~(nic.pending /\ ack))
        /\ nic.given = 0 /\ nic.used = "none" /\ ~nic.pending => d.given = 0 /\ d.used = "none"
    BY <1>1, NetDropKeeps
  <2>2. Net!Swept(ack) = d
    BY <1>2 DEF Net!Swept
  <2> HIDE DEF d
  <2>3. Net!poll_request(d, ack) = d
    BY <2>1 DEF Net!poll_request, Net!poll_fails
  <2>4. QED
    BY <1>2, <2>1, <2>2, <2>3
<1>3. CASE ~Net!Abandoned
  <2>1. Net!Swept(ack) = nic
    BY <1>3 DEF Net!Swept
  <2>2. QED
    BY <1>1, <1>3, <2>1, NetPollKeeps
<1>4. QED
  BY <1>2, <1>3

LEMMA NetServiceSecondKeeps ==
  ASSUME Net!BoundAssumption, NetIInv, NEW ack \in BOOLEAN, Net!ServiceSecond(ack)
  PROVE  NetIInv'
<1> DEFINE n == Net!poll_request(Net!Swept(ack), ack)
           s == (Net!Abandoned /\ nic.pending) \/ (~Net!Abandoned /\ Net!poll_fails(nic))
           e == IF n.online THEN Net!Looked(n) ELSE n
<1>1. /\ NetOthersTyped /\ Net!OkIsSent /\ NetWhole(nic, sent) /\ 0 \in 0 .. MaxId
      /\ device \in [link : BOOLEAN, running : BOOLEAN, queue : BOOLEAN, config : BOOLEAN]
  BY DEF NetIInv, Net!BoundAssumption, NetOthersTyped
<1>2. /\ NetWhole(n, sent)
      /\ n.online = (nic.online /\ ~s) /\ n.dma = (nic.dma /\ ~(s /\ ack))
      /\ nic.given = 0 /\ nic.used = "none" /\ ~nic.pending => n.given = 0 /\ n.used = "none"
  BY NetSweptKeeps
<1>3. /\ nic' = e /\ older' = (IF s THEN Net!Waiting ELSE older)
      /\ device' = IF s /\ ack
                     THEN [device EXCEPT !.running = FALSE, !.queue = FALSE, !.config = FALSE]
                   ELSE IF n.online /\ ~n.route
                     THEN [device EXCEPT !.queue = FALSE, !.config = FALSE]
                   ELSE device
      /\ nservice' = [nservice EXCEPT !.at = "wait", !.id = 0, !.owner = Nobody]
      /\ UNCHANGED <<ready, npc, ntoken, began, nnext_id, inits, sent>>
  BY DEF Net!ServiceSecond
<1>4. s \in BOOLEAN
  OBVIOUS
<1> HIDE DEF n, s
<1>5. /\ NetWhole(e, sent) /\ e.online = n.online /\ e.dma = n.dma
      /\ e.given = n.given /\ e.used = n.used
  <2>1. n \in Net!Nics
    BY <1>2 DEF NetWhole, NetLoose
  <2>2. Net!Receivers \in SUBSET Net!Callers /\ n.woken \in SUBSET Net!Callers
    BY <2>1 DEF Net!Receivers, Net!Nics
  <2> DEFINE l == Net!Looked(n)
  <2>3. PICK w \in SUBSET Net!Callers : l = [n EXCEPT !.config_pending = FALSE, !.unseen = FALSE, !.woken = w]
    BY <2>2 DEF Net!Looked
  <2>4. /\ l \in Net!Nics /\ l.online = n.online /\ l.dma = n.dma /\ l.pending = n.pending
        /\ l.result = n.result /\ l.id = n.id /\ l.given = n.given /\ l.used = n.used
    BY <2>1, <2>3 DEF Net!Nics
  <2> HIDE DEF l
  <2>5. NetWhole(l, sent)
    BY <1>2, <2>4, NetQuietKeeps
  <2>6. QED
    BY <1>2, <2>4, <2>5 DEF l
<1> HIDE DEF e
<1>6. /\ device' \in [link : BOOLEAN, running : BOOLEAN, queue : BOOLEAN, config : BOOLEAN]
      /\ device'.running = (device.running /\ ~(s /\ ack))
  BY <1>1, <1>3
<1>7. NetOthersTyped' /\ Net!OkIsSent'
  BY <1>1, <1>3, <1>6 DEF NetOthersTyped, Net!OkIsSent, Net!Waiting
<1>8. \A t \in Net!Callers : npc'[t] \in {"try", "wait"} /\ t \notin older'
           => ~s /\ npc[t] \in {"try", "wait"} /\ t \notin older /\ began'[t] = began[t]
  BY <1>1, <1>3 DEF Net!Waiting
<1>9. ~nic.online => ~nic.pending
  BY <1>1 DEF NetWhole, NetLoose
<1>10. QED
  BY <1>2, <1>3, <1>4, <1>5, <1>6, <1>7, <1>8, <1>9, NetStepKeeps

LEMMA NetDeviceSendsKeeps ==
  ASSUME Net!BoundAssumption, NetIInv, NEW answer \in {"ok", "bad"}, Net!DeviceSends(answer)
  PROVE  NetIInv'
<1>1. /\ nic \in Net!Nics /\ NetWhole(nic, sent) /\ NetOthersTyped /\ 0 \in 0 .. MaxId
      /\ nic.given # 0 /\ nic.given \in 0 .. MaxId
  BY DEF NetIInv, NetWhole, NetLoose, Net!BoundAssumption, Net!DeviceSends, Net!Nics
<1>2. /\ nic' = [nic EXCEPT !.given = 0, !.used = answer]
      /\ device' = [device EXCEPT !.queue = TRUE]
      /\ sent' = IF answer = "ok" THEN sent \cup {nic.given} ELSE sent
      /\ UNCHANGED <<ready, Net!tasks, nservice, nnext_id, inits>>
  BY DEF Net!DeviceSends
<1>3. /\ nic' \in Net!Nics /\ nic'.dma = nic.dma /\ nic'.pending = nic.pending /\ nic'.online = nic.online
      /\ nic'.result = nic.result /\ nic'.id = nic.id /\ nic'.given = 0 /\ nic'.used = answer
  BY <1>1, <1>2 DEF Net!Nics
<1>4. sent \subseteq sent' /\ sent' \subseteq 1 .. MaxId /\ (answer = "ok" => nic.given \in sent')
  BY <1>1, <1>2 DEF NetOthersTyped, Net!BoundAssumption
<1>5. NetWhole(nic', sent')
  BY <1>1, <1>3, <1>4 DEF NetWhole, NetLoose, NetSettled
<1>6. NetOthersTyped'
  BY <1>1, <1>2, <1>4 DEF NetOthersTyped, Net!tasks
<1>7. NetSetUpInv' /\ NetEpochInv' /\ Net!OkIsSent' /\ Net!DmaPinned'
  <2>1. device'.running = device.running
    BY <1>1, <1>2 DEF NetOthersTyped
  <2>2. QED
    BY <1>1, <1>2, <1>3, <1>4, <2>1 DEF NetIInv, NetSetUpInv, NetEpochInv, Net!OkIsSent, Net!DmaPinned, Net!tasks
<1>8. QED
  BY <1>5, <1>6, <1>7 DEF NetIInv

-----------------------------------------------------------------------------
LEMMA NetStepIInv == ASSUME Net!BoundAssumption, NetIInv, [Net!Next]_(Net!vars) PROVE NetIInv'
<1>1. CASE UNCHANGED Net!vars
  <2> USE <1>1 DEF Net!vars, Net!tasks
  <2>1. (NetWhole(nic, sent) /\ NetOthersTyped /\ NetSetUpInv)'
    BY DEF NetIInv, NetOthersTyped, NetSetUpInv
  <2>2. (NetEpochInv /\ Net!OkIsSent /\ Net!DmaPinned)'
    BY DEF NetIInv, NetEpochInv, Net!OkIsSent, Net!DmaPinned
  <2>3. QED
    BY <2>1, <2>2 DEF NetIInv
<1>2. CASE Net!Next
  <2>1. ASSUME NEW ok \in BOOLEAN, NEW irq \in BOOLEAN, NEW ack \in BOOLEAN, Net!net_init(ok, irq, ack)
        PROVE  NetIInv'
    BY <2>1, NetInitKeeps
  <2>2. ASSUME NEW ack \in BOOLEAN, Net!net_shutdown(ack) \/ Net!ServiceSecond(ack) PROVE NetIInv'
    BY <2>2, NetShutdownKeeps, NetServiceSecondKeeps
  <2>3. ASSUME NEW t \in Net!Callers, Net!TaskStep(t) PROVE NetIInv'
    BY <2>3, NetReceiveSteps, NetCollectKeeps, NetTaskSteps DEF Net!TaskStep
  <2>4. ASSUME NEW t \in Net!Callers, Net!ReceiveBegin(t) \/ Net!ReceiveTimeout(t) \/ Net!Submit(t) \/ Net!Dies(t)
        PROVE  NetIInv'
    BY <2>4, NetReceiveBeginKeeps, NetReceiveSteps, NetSubmitKeeps, NetTaskSteps
  <2>5. ASSUME NEW t \in Net!Callers, NEW ack \in BOOLEAN, Net!ReceiveRefused(t, ack) \/ Net!net_cancel(t, ack)
        PROVE  NetIInv'
    BY <2>5, NetRefusedKeeps, NetCancelKeeps
  <2>6. ASSUME NEW answer \in {"ok", "bad"}, Net!DeviceSends(answer) PROVE NetIInv'
    BY <2>6, NetDeviceSendsKeeps
  <2>7. CASE Net!ServiceFirst \/ Net!ServiceSkips \/ Net!ServiceWakes \/ Net!virtio_irq_dispatch
               \/ Net!DeviceReceives \/ Net!DeviceLink \/ Net!RequestAges
    BY <2>7, NetOtherQuietSteps
  <2>8. QED
    BY <1>2, <2>1, <2>2, <2>3, <2>4, <2>5, <2>6, <2>7 DEF Net!Next
<1>3. QED
  BY <1>1, <1>2

\* net.h, net.c: however many tasks wait and send, and whenever the service
\* task, the handler and the device come in between, net_send's DRIVER_OK is
\* for a frame the device sent, a device that ignored its reset keeps the
\* buffers it may write, and no task that waited before a reset is given a
\* frame of the interface set up after it.
THEOREM NetStaysSafe == ASSUME Net!NobodyAssumption, Net!BoundAssumption PROVE Net!Spec => Net!NetSafe
<1>1. Net!Init => NetIInv
  BY NetInitIInv
<1>2. NetIInv /\ [Net!Next]_(Net!vars) => NetIInv'
  BY NetStepIInv
<1>3. NetIInv => Net!Safety
  BY DEF NetIInv, Net!Safety, Net!TypeOK, NetOthersTyped, NetWhole, NetLoose
<1>4. NetIInv /\ [Net!Next]_(Net!vars) => [\A t \in Net!Callers : Net!ReceiveFrame(t) => began[t] = inits]_(Net!vars)
  BY DEF NetIInv, NetEpochInv, Net!ReceiveFrame
<1>5. QED
  BY <1>1, <1>2, <1>3, <1>4, PTL DEF Net!Spec, Net!NetSafe, Net!ResetCancels

-----------------------------------------------------------------------------
(***************************************************************************)
(* Indices that wrap.                                                      *)
(***************************************************************************)
\* Division with remainder, in the parts the solver finds by itself.
LEMMA Parts ==
  ASSUME NEW A \in Nat \ {0}, NEW x \in Int, NEW q \in Int, q = x \div A,
         NEW r \in Int, r = x % A, NEW z \in Int, z = A * q
  PROVE  x = z + r
BY Z3

\* A number is its quotient times the divisor, and the remainder.
LEMMA DivMod ==
  ASSUME NEW A \in Nat \ {0}, NEW x \in Int
  PROVE  \E q \in Int : \E r \in 0 .. A - 1 : q = x \div A /\ r = x % A /\ x = A * q + r
<1>1. x \div A \in Int /\ x % A \in 0 .. A - 1
  BY SMT
<1>2. PICK q \in Int : q = x \div A
  BY <1>1
<1>3. PICK r \in 0 .. A - 1 : r = x % A
  BY <1>1
<1>4. PICK z \in Int : z = A * q
  BY <1>2
<1>5. x = z + r
  BY <1>2, <1>3, <1>4, Parts
<1>. QED
  BY <1>2, <1>3, <1>4, <1>5

\* What remains of a multiple is what was added to it.
LEMMA Rest ==
  ASSUME NEW A \in Nat \ {0}, NEW q \in Int, NEW r \in 0 .. A - 1
  PROVE  (A * q + r) % A = r
BY SMT

\* Two numbers less than S apart have different remainders.
LEMMA Apart ==
  ASSUME NEW S \in Nat \ {0}, NEW x \in Int, NEW y \in Int, x < y, y - x < S
  PROVE  x % S # y % S
<1> SUFFICES ASSUME x % S = y % S PROVE FALSE
  OBVIOUS
<1>1. PICK q \in Int : \E r \in 0 .. S - 1 : r = x % S /\ x = S * q + r
  BY DivMod
<1>2. PICK p \in Int : \E r \in 0 .. S - 1 : r = y % S /\ y = S * p + r
  BY DivMod
<1>3. y - x = S * (p - q)
  BY <1>1, <1>2
<1>4. PICK d \in Int : d = p - q
  OBVIOUS
<1>5. S * d > 0 /\ S * d < S
  BY <1>3, <1>4
<1>6. d >= 1
  BY <1>5
<1>7. S * d >= S
  BY <1>6
<1> QED
  BY <1>5, <1>7

\* The entries in use are less than the size of the ring apart.
LEMMA Within ==
  ASSUME NEW a \in Int, NEW n \in Nat, NEW i \in 0 .. n - 1, NEW S \in Nat, n < S
  PROVE  a + i \in Int /\ a + n \in Int /\ a + i < a + n /\ (a + n) - (a + i) < S
OBVIOUS

\* A number that is a multiple of S away has the same.
LEMMA Around ==
  ASSUME NEW S \in Nat \ {0}, NEW M \in Nat, M % S = 0, NEW x \in Int
  PROVE  (x + M) % S = x % S
<1>1. PICK q \in Int : \E r \in 0 .. S - 1 : q = x \div S /\ r = x % S /\ x = S * q + r
  BY DivMod
<1>2. PICK r \in 0 .. S - 1 : r = x % S /\ x = S * q + r
  BY <1>1
<1>3. PICK p \in Int : M = S * p
  BY DivMod
<1>4. PICK d \in Int : d = q + p
  OBVIOUS
<1>5. S * d = S * q + S * p
  BY <1>4
<1>6. x + M = S * d + r
  BY <1>2, <1>3, <1>5
<1>7. (S * d + r) % S = r
  BY Rest
<1> QED
  BY <1>2, <1>6, <1>7

\* Indices of M values, M a multiple of S, and how far apart they are.
LEMMA Indices ==
  ASSUME NEW M \in Nat \ {0}, NEW x \in 0 .. M - 1, NEW y \in 0 .. M - 1
  PROVE  /\ (y - x) % M = (IF x <= y THEN y - x ELSE y - x + M)
         /\ (y - x) % M \in 0 .. M - 1
OBVIOUS

LEMMA NextIndex ==
  ASSUME NEW M \in Nat \ {0}, NEW x \in 0 .. M - 1
  PROVE  /\ (x + 1) % M = (IF x = M - 1 THEN 0 ELSE x + 1)
         /\ (x + 1) % M \in 0 .. M - 1
<1>1. CASE x = M - 1
  BY <1>1
<1>2. CASE x # M - 1
  BY <1>2
<1>3. QED
  BY <1>1, <1>2

\* One further, and one closer.
LEMMA Further ==
  ASSUME NEW M \in Nat \ {0}, NEW x \in 0 .. M - 1, NEW y \in 0 .. M - 1
  PROVE  /\ (y - x) % M < M - 1 => (((y + 1) % M) - x) % M = ((y - x) % M) + 1
         /\ (y - x) % M > 0 => (y - ((x + 1) % M)) % M = ((y - x) % M) - 1
         /\ (y - x) % M = 0 <=> x = y
<1> DEFINE s == (x + 1) % M
           t == (y + 1) % M
<1>1. s = (IF x = M - 1 THEN 0 ELSE x + 1) /\ s \in 0 .. M - 1
      /\ t = (IF y = M - 1 THEN 0 ELSE y + 1) /\ t \in 0 .. M - 1
  BY NextIndex
<1>2. (y - x) % M = IF x <= y THEN y - x ELSE y - x + M
  BY Indices
<1>3. (t - x) % M = (IF x <= t THEN t - x ELSE t - x + M)
      /\ (y - s) % M = IF s <= y THEN y - s ELSE y - s + M
  BY <1>1, Indices
<1> HIDE DEF s, t
<1>4. (y - x) % M < M - 1 => (t - x) % M = ((y - x) % M) + 1
  BY <1>1, <1>2, <1>3
<1>5. (y - x) % M > 0 => (y - s) % M = ((y - x) % M) - 1
  BY <1>1, <1>2, <1>3
<1>6. (y - x) % M = 0 <=> x = y
  BY <1>2
<1> QED
  BY <1>4, <1>5, <1>6 DEF s, t

\* The entry i places on, also past the last index.
LEMMA PlacesNext ==
  ASSUME NEW S \in Nat \ {0}, NEW M \in Nat \ {0}, M % S = 0, NEW x \in 0 .. M - 1
  PROVE  \A i \in Nat : (((x + 1) % M) + i) % S = (x + (i + 1)) % S
<1> SUFFICES ASSUME NEW i \in Nat PROVE (((x + 1) % M) + i) % S = (x + (i + 1)) % S
  OBVIOUS
<1> DEFINE s == (x + 1) % M
<1>1. s = (IF x = M - 1 THEN 0 ELSE x + 1) /\ s \in 0 .. M - 1
  BY NextIndex
<1> HIDE DEF s
<1>2. CASE x = M - 1
  <2>1. x + (i + 1) = i + M /\ s + i = i
    BY <1>1, <1>2
  <2>2. (i + M) % S = i % S
    <3>1. i \in Int /\ M \in Nat
      OBVIOUS
    <3>2. QED
      BY <3>1, Around, Zenon
  <2>3. QED
    BY <2>1, <2>2 DEF s
<1>3. CASE x # M - 1
  <2>1. x + (i + 1) = s + i
    BY <1>1, <1>3
  <2>2. QED
    BY <2>1 DEF s
<1>4. QED
  BY <1>2, <1>3

\* The entry as far on as the other index is that index's own.
LEMMA PlaceOf ==
  ASSUME NEW S \in Nat \ {0}, NEW M \in Nat \ {0}, M % S = 0, NEW x \in 0 .. M - 1, NEW y \in 0 .. M - 1
  PROVE  (x + ((y - x) % M)) % S = y % S
<1> DEFINE d == (y - x) % M
<1>1. d = IF x <= y THEN y - x ELSE y - x + M
  BY Indices
<1> HIDE DEF d
<1>2. CASE x <= y
  <2>1. x + d = y
    BY <1>1, <1>2
  <2>2. QED
    BY <2>1 DEF d
<1>3. CASE ~ (x <= y)
  <2>1. x + d = y + M
    BY <1>1, <1>3
  <2>2. (y + M) % S = y % S
    <3>1. y \in Int /\ M \in Nat
      OBVIOUS
    <3>2. QED
      BY <3>1, Around, Zenon
  <2>3. QED
    BY <2>1, <2>2 DEF d
<1>4. QED
  BY <1>2, <1>3

-----------------------------------------------------------------------------
(***************************************************************************)
(* The owners of the receive buffers.                                      *)
(***************************************************************************)
\* Every buffer of B has one owner: it is made available (the first n of g),
\* reported or about to be (the first m of u), held by the device (h) or in
\* the driver's hand (k).
EachOnce(n, g, h, k, B) ==
  /\ \A i \in 0 .. n - 1 : g[i] \in B /\ g[i] \notin h /\ g[i] \notin k
  /\ \A i, j \in 0 .. n - 1 : g[i] = g[j] => i = j

OneOwner(n, g, m, u, h, k, B) ==
  /\ EachOnce(n, g, h, k, B) /\ EachOnce(m, u, h, k, B)
  /\ \A i \in 0 .. n - 1, j \in 0 .. m - 1 : g[i] # u[j]
  /\ h \subseteq B /\ k \subseteq B /\ h \cap k = {}
  /\ \A b \in B : \/ b \in h \/ b \in k
                  \/ \E i \in 0 .. n - 1 : g[i] = b
                  \/ \E i \in 0 .. m - 1 : u[i] = b

\* The device takes the next buffer.
LEMMA OwnerTakes ==
  ASSUME NEW n \in Nat, NEW g, NEW m \in Nat, NEW u, NEW h, NEW k, NEW B, NEW f,
         OneOwner(n, g, m, u, h, k, B), n > 0,
         \A i \in 0 .. n - 2 : f[i] = g[i + 1]
  PROVE  g[0] \notin h /\ OneOwner(n - 1, f, m, u, h \cup {g[0]}, k, B)
<1>1. \A i \in 0 .. n - 2 : f[i] = g[i + 1] /\ i + 1 \in 0 .. n - 1 /\ i + 1 # 0
  OBVIOUS
<1>2. 0 \in 0 .. n - 1 /\ (n - 1) - 1 = n - 2
  OBVIOUS
<1>3. \A i \in 0 .. n - 1 : i = 0 \/ \E j \in 0 .. n - 2 : i = j + 1
  <2>1. \A i \in 0 .. n - 1 : i # 0 => i - 1 \in 0 .. n - 2 /\ i = (i - 1) + 1
    OBVIOUS
  <2>2. QED
    BY <2>1
<1>4. EachOnce(n - 1, f, h \cup {g[0]}, k, B)
  <2>1. \A i \in 0 .. n - 2 : f[i] \in B /\ f[i] \notin h /\ f[i] \notin k /\ f[i] # g[0]
    BY <1>1, <1>2 DEF OneOwner, EachOnce
  <2>2. \A i, j \in 0 .. n - 2 : f[i] = f[j] => i = j
    BY <1>1 DEF OneOwner, EachOnce
  <2>3. QED
    BY <1>2, <2>1, <2>2 DEF EachOnce
<1>5. EachOnce(m, u, h \cup {g[0]}, k, B)
  BY <1>2 DEF OneOwner, EachOnce
<1>6. \A i \in 0 .. n - 2, j \in 0 .. m - 1 : f[i] # u[j]
  BY <1>1 DEF OneOwner
<1>7. \A b \in B : \/ b \in h \cup {g[0]} \/ b \in k
                   \/ \E i \in 0 .. n - 2 : f[i] = b
                   \/ \E i \in 0 .. m - 1 : u[i] = b
  <2>1. SUFFICES ASSUME NEW b \in B, b \notin h, b \notin k, ~ \E i \in 0 .. m - 1 : u[i] = b, b # g[0]
                 PROVE  \E i \in 0 .. n - 2 : f[i] = b
    OBVIOUS
  <2>2. PICK i \in 0 .. n - 1 : g[i] = b
    BY <2>1 DEF OneOwner
  <2>3. PICK j \in 0 .. n - 2 : i = j + 1
    BY <1>3, <2>1, <2>2
  <2>4. QED
    BY <1>1, <2>2, <2>3
<1>8. QED
  BY <1>2, <1>4, <1>5, <1>6, <1>7 DEF OneOwner, EachOnce

\* It writes one and prepares the report.
LEMMA OwnerWrites ==
  ASSUME NEW n \in Nat, NEW g, NEW m \in Nat, NEW u, NEW h, NEW k, NEW B, NEW b \in h, NEW f,
         OneOwner(n, g, m, u, h, k, B),
         \A i \in 0 .. m - 1 : f[i] = u[i], f[m] = b
  PROVE  OneOwner(n, g, m + 1, f, h \ {b}, k, B)
<1>1. (m + 1) - 1 = m /\ m \in 0 .. m /\ \A i \in 0 .. m : i \in 0 .. m - 1 \/ i = m
  OBVIOUS
<1>2. \A i \in 0 .. m - 1 : i \in 0 .. m /\ i # m
  OBVIOUS
<1>3. EachOnce(m + 1, f, h \ {b}, k, B)
  <2>1. \A i \in 0 .. m : f[i] \in B /\ f[i] \notin h \ {b} /\ f[i] \notin k
    BY <1>1 DEF OneOwner, EachOnce
  <2>2. \A i, j \in 0 .. m : f[i] = f[j] => i = j
    BY <1>1 DEF OneOwner, EachOnce
  <2>3. QED
    BY <1>1, <2>1, <2>2 DEF EachOnce
<1>4. \A i \in 0 .. n - 1, j \in 0 .. m : g[i] # f[j]
  BY <1>1 DEF OneOwner, EachOnce
<1>5. \A c \in B : \/ c \in h \ {b} \/ c \in k
                   \/ \E i \in 0 .. n - 1 : g[i] = c
                   \/ \E i \in 0 .. m : f[i] = c
  BY <1>1, <1>2 DEF OneOwner
<1>6. QED
  BY <1>1, <1>3, <1>4, <1>5 DEF OneOwner, EachOnce

\* The driver takes the oldest report into its hand.
LEMMA OwnerPops ==
  ASSUME NEW n \in Nat, NEW g, NEW m \in Nat, NEW u, NEW h, NEW B, NEW f,
         OneOwner(n, g, m, u, h, {}, B), m > 0,
         \A i \in 0 .. m - 2 : f[i] = u[i + 1]
  PROVE  OneOwner(n, g, m - 1, f, h, {u[0]}, B)
<1>1. \A i \in 0 .. m - 2 : f[i] = u[i + 1] /\ i + 1 \in 0 .. m - 1 /\ i + 1 # 0
  OBVIOUS
<1>2. 0 \in 0 .. m - 1 /\ (m - 1) - 1 = m - 2
  OBVIOUS
<1>3. \A i \in 0 .. m - 1 : i = 0 \/ \E j \in 0 .. m - 2 : i = j + 1
  <2>1. \A i \in 0 .. m - 1 : i # 0 => i - 1 \in 0 .. m - 2 /\ i = (i - 1) + 1
    OBVIOUS
  <2>2. QED
    BY <2>1
<1>4. EachOnce(m - 1, f, h, {u[0]}, B)
  <2>1. \A i \in 0 .. m - 2 : f[i] \in B /\ f[i] \notin h /\ f[i] # u[0]
    BY <1>1, <1>2 DEF OneOwner, EachOnce
  <2>2. \A i, j \in 0 .. m - 2 : f[i] = f[j] => i = j
    BY <1>1 DEF OneOwner, EachOnce
  <2>3. QED
    BY <1>2, <2>1, <2>2 DEF EachOnce
<1>5. EachOnce(n, g, h, {u[0]}, B)
  BY <1>2 DEF OneOwner, EachOnce
<1>6. \A i \in 0 .. n - 1, j \in 0 .. m - 2 : g[i] # f[j]
  BY <1>1 DEF OneOwner
<1>7. \A b \in B : \/ b \in h \/ b \in {u[0]}
                   \/ \E i \in 0 .. n - 1 : g[i] = b
                   \/ \E i \in 0 .. m - 2 : f[i] = b
  BY <1>1, <1>3 DEF OneOwner
<1>8. QED
  BY <1>2, <1>4, <1>5, <1>6, <1>7 DEF OneOwner, EachOnce

\* It makes it available again.
LEMMA OwnerGives ==
  ASSUME NEW n \in Nat, NEW g, NEW m \in Nat, NEW u, NEW h, NEW B, NEW b, NEW f,
         OneOwner(n, g, m, u, h, {b}, B),
         \A i \in 0 .. n - 1 : f[i] = g[i], f[n] = b
  PROVE  OneOwner(n + 1, f, m, u, h, {}, B)
<1>1. (n + 1) - 1 = n /\ n \in 0 .. n /\ \A i \in 0 .. n : i \in 0 .. n - 1 \/ i = n
  OBVIOUS
<1>2. \A i \in 0 .. n - 1 : i \in 0 .. n /\ i # n
  OBVIOUS
<1>3. EachOnce(n + 1, f, h, {}, B)
  <2>1. \A i \in 0 .. n : f[i] \in B /\ f[i] \notin h
    BY <1>1 DEF OneOwner, EachOnce
  <2>2. \A i, j \in 0 .. n : f[i] = f[j] => i = j
    BY <1>1 DEF OneOwner, EachOnce
  <2>3. QED
    BY <1>1, <2>1, <2>2 DEF EachOnce
<1>4. \A i \in 0 .. n, j \in 0 .. m - 1 : f[i] # u[j]
  BY <1>1 DEF OneOwner, EachOnce
<1>5. \A c \in B : \/ c \in h \/ c \in {}
                   \/ \E i \in 0 .. n : f[i] = c
                   \/ \E i \in 0 .. m - 1 : u[i] = c
  BY <1>1, <1>2 DEF OneOwner
<1>6. QED
  BY <1>1, <1>3, <1>4, <1>5 DEF OneOwner, EachOnce

\* It depends on no more than the entries in use.
LEMMA OwnerSame ==
  ASSUME NEW n \in Nat, NEW g, NEW m \in Nat, NEW u, NEW h, NEW k, NEW B, NEW f, NEW v,
         OneOwner(n, g, m, u, h, k, B),
         \A i \in 0 .. n - 1 : f[i] = g[i], \A i \in 0 .. m - 1 : v[i] = u[i]
  PROVE  OneOwner(n, f, m, v, h, k, B)
<1>1. EachOnce(n, f, h, k, B) /\ EachOnce(m, v, h, k, B)
  BY DEF OneOwner, EachOnce
<1>2. QED
  BY <1>1 DEF OneOwner

-----------------------------------------------------------------------------
(***************************************************************************)
(* The invariant of a receive queue.                                       *)
(***************************************************************************)
\* The constants of a queue.
QueueConfigured(q) ==
  Queue(q)!SizeAssumption /\ Queue(q)!IndexAssumption /\ Queue(q)!NoneAssumption

\* The entries from the one the device takes next, and from the one the
\* driver takes next.
GivenEntries(q) == [i \in Nat |-> avail_ring[(seen + i) % q.size]]
UsedEntries(q) == [i \in Nat |-> used_ring[(consumed + i) % q.size]]

\* The reports published, and the one about to be.
Reports(q) == Queue(q)!Count + (IF writing THEN 1 ELSE 0)

QueueOwned(q) ==
  /\ OneOwner(Queue(q)!Pending, GivenEntries(q), Reports(q), UsedEntries(q), held,
              Queue(q)!InHand, Queue(q)!Buffers)
  /\ Queue(q)!Pending + Cardinality(held) + Reports(q) + (IF qpc = "idle" THEN 0 ELSE 1) = q.slots
  /\ writing => data[used_ring[used_idx % q.size]] \in q.frames

\* What the driver relies on whatever the device reports, and more of a
\* device that keeps the protocol.
QueueDriverInv(q) ==
  /\ Queue(q)!TypeOK
  /\ Queue(q)!CountsAgree
  /\ qpc # "idle" => qonline
  /\ qpc = "submitted" => avail_ring[available % q.size] = qid

QueueInv(q) ==
  /\ QueueDriverInv(q)
  /\ ~ q.faulty => qonline /\ QueueOwned(q)

\* The constants, and where a remainder lies.
LEMMA QueueConstants ==
  ASSUME NEW CONSTANT q, QueueConfigured(q)
  PROVE  /\ q.size \in Nat \ {0} /\ q.slots \in 1 .. q.size /\ q.faulty \in BOOLEAN
         /\ IndexMod \in Nat \ {0} /\ IndexMod % q.size = 0 /\ IndexMod > q.size
         /\ Nobody \notin q.frames
         /\ Queue(q)!Index = 0 .. IndexMod - 1 /\ Queue(q)!Entries = 0 .. q.size - 1
         /\ Queue(q)!Buffers = 0 .. q.slots - 1
         /\ \A x \in Int : x % q.size \in 0 .. q.size - 1
<1>1. /\ q.size \in Nat \ {0} /\ q.slots \in 1 .. q.size /\ q.faulty \in BOOLEAN
      /\ IndexMod \in Nat \ {0} /\ IndexMod % q.size = 0 /\ IndexMod > q.size
      /\ Nobody \notin q.frames
  BY DEF QueueConfigured, Queue!SizeAssumption, Queue!IndexAssumption, Queue!NoneAssumption
<1>2. ASSUME NEW S \in Nat \ {0} PROVE \A x \in Int : x % S \in 0 .. S - 1
  OBVIOUS
<1>3. QED
  BY <1>1, <1>2 DEF Queue!Index, Queue!Entries, Queue!Buffers

\* A difference, and one more.
LEMMA OneMore ==
  ASSUME NEW M \in Nat \ {0}, NEW a \in 0 .. M - 1, NEW c \in 0 .. M - 1
  PROVE  /\ (a - c + 0) % M = (a - c) % M
         /\ (a - c + 1) % M = IF (a - c) % M = M - 1 THEN 0 ELSE ((a - c) % M) + 1
<1>1. a - c + 0 = a - c
  OBVIOUS
<1>2. CASE c = 0
  <2>1. a - c + 1 = a + 1 /\ a - c = a
    BY <1>2
  <2>2. (a - c) % M = a
    BY <2>1
  <2>3. QED
    BY <1>1, <2>1, <2>2, NextIndex
<1>3. CASE c # 0
  <2>1. c - 1 \in 0 .. M - 1 /\ a - c + 1 = a - (c - 1)
    BY <1>3
  <2>2. (a - (c - 1)) % M = IF c - 1 <= a THEN a - (c - 1) ELSE a - (c - 1) + M
    BY <2>1, Indices
  <2>3. (a - c) % M = IF c <= a THEN a - c ELSE a - c + M
    BY Indices
  <2>4. QED
    BY <1>1, <1>3, <2>1, <2>2, <2>3
<1>4. QED
  BY <1>2, <1>3

\* The driver's counts, without a remainder of a sum of three.
LEMMA CountsAre ==
  ASSUME NEW CONSTANT q, QueueConfigured(q), available \in 0 .. IndexMod - 1, consumed \in 0 .. IndexMod - 1
  PROVE  Queue(q)!CountsAgree <=>
           /\ outstanding = IF qpc # "submitted" THEN (available - consumed) % IndexMod
                            ELSE IF (available - consumed) % IndexMod = IndexMod - 1 THEN 0
                            ELSE ((available - consumed) % IndexMod) + 1
           /\ qonline => outstanding + (IF qpc \in {"popped", "copied"} THEN 1 ELSE 0) = q.slots
<1>1. IndexMod \in Nat \ {0}
  BY QueueConstants
<1>2. /\ (available - consumed + 0) % IndexMod = (available - consumed) % IndexMod
      /\ (available - consumed + 1) % IndexMod
           = IF (available - consumed) % IndexMod = IndexMod - 1 THEN 0
             ELSE ((available - consumed) % IndexMod) + 1
  BY <1>1, OneMore
<1>3. CASE qpc = "submitted"
  BY <1>2, <1>3 DEF Queue!CountsAgree
<1>4. CASE qpc # "submitted"
  BY <1>2, <1>4 DEF Queue!CountsAgree
<1>5. QED
  BY <1>3, <1>4

\* And those after a step.
LEMMA CountsNext ==
  ASSUME NEW CONSTANT q, QueueConfigured(q), available' \in 0 .. IndexMod - 1, consumed' \in 0 .. IndexMod - 1
  PROVE  Queue(q)!CountsAgree' <=>
           /\ outstanding' = IF qpc' # "submitted" THEN (available' - consumed') % IndexMod
                             ELSE IF (available' - consumed') % IndexMod = IndexMod - 1 THEN 0
                             ELSE ((available' - consumed') % IndexMod) + 1
           /\ qonline' => outstanding' + (IF qpc' \in {"popped", "copied"} THEN 1 ELSE 0) = q.slots
<1>1. IndexMod \in Nat \ {0}
  BY QueueConstants
<1>2. /\ (available' - consumed' + 0) % IndexMod = (available' - consumed') % IndexMod
      /\ (available' - consumed' + 1) % IndexMod
           = IF (available' - consumed') % IndexMod = IndexMod - 1 THEN 0
             ELSE ((available' - consumed') % IndexMod) + 1
  BY <1>1, OneMore
<1>3. CASE qpc' = "submitted"
  BY <1>2, <1>3 DEF Queue!CountsAgree
<1>4. CASE qpc' # "submitted"
  BY <1>2, <1>4 DEF Queue!CountsAgree
<1>5. QED
  BY <1>3, <1>4

\* The type of the state, in the values of the constants.
LEMMA QueueTyped ==
  ASSUME NEW CONSTANT q, QueueConfigured(q)
  PROVE  Queue(q)!TypeOK <=>
           /\ available \in 0 .. IndexMod - 1 /\ consumed \in 0 .. IndexMod - 1
           /\ used_idx \in 0 .. IndexMod - 1 /\ seen \in 0 .. IndexMod - 1
           /\ outstanding \in 0 .. q.size
           /\ avail_ring \in [0 .. q.size - 1 -> 0 .. q.slots - 1]
           /\ used_ring \in [0 .. q.size - 1 -> 0 .. q.size]
           /\ data \in [0 .. q.slots - 1 -> q.frames \cup {Nobody}]
           /\ qpc \in {"idle", "popped", "copied", "submitted"}
           /\ qid \in 0 .. q.size /\ (qpc # "idle" => qid \in 0 .. q.slots - 1)
           /\ got \in q.frames \cup {Nobody} /\ qonline \in BOOLEAN
           /\ held \subseteq 0 .. q.slots - 1 /\ writing \in BOOLEAN
<1>1. /\ Queue(q)!Index = 0 .. IndexMod - 1 /\ Queue(q)!Entries = 0 .. q.size - 1
      /\ Queue(q)!Buffers = 0 .. q.slots - 1
  BY QueueConstants
<1>2. QED
  BY <1>1, Zenon DEF Queue!TypeOK

\* The rings as the set-up leaves them.
LEMMA QueueInitRings ==
  ASSUME NEW S \in Nat \ {0}, NEW B \in 1 .. S
  PROVE  /\ [e \in 0 .. S - 1 |-> IF e < B THEN e ELSE 0] \in [0 .. S - 1 -> 0 .. B - 1]
         /\ [e \in 0 .. S - 1 |-> 0] \in [0 .. S - 1 -> 0 .. S]
OBVIOUS

\* The driver's counts start and stay right.
LEMMA QueueDriverSteps ==
  ASSUME NEW CONSTANT q, QueueConfigured(q), QueueDriverInv(q)
  PROVE  /\ Queue(q)!Pop => QueueDriverInv(q)'
         /\ Queue(q)!Copy => QueueDriverInv(q)'
         /\ Queue(q)!Submit => QueueDriverInv(q)'
         /\ Queue(q)!Publish => QueueDriverInv(q)'
<1> DEFINE d == (available - consumed) % IndexMod
<1>1. /\ q.size \in Nat \ {0} /\ q.slots \in 1 .. q.size /\ q.faulty \in BOOLEAN
      /\ IndexMod \in Nat \ {0} /\ IndexMod > q.size
      /\ Queue(q)!Index = 0 .. IndexMod - 1 /\ Queue(q)!Entries = 0 .. q.size - 1
      /\ Queue(q)!Buffers = 0 .. q.slots - 1
  BY QueueConstants
<1>2. \A x \in Int : x % q.size \in 0 .. q.size - 1
  BY QueueConstants
<1>3. Queue(q)!TypeOK /\ Queue(q)!CountsAgree /\ (qpc # "idle" => qonline)
      /\ (qpc = "submitted" => avail_ring[available % q.size] = qid)
  BY DEF QueueDriverInv
<1>4. /\ available \in 0 .. IndexMod - 1 /\ consumed \in 0 .. IndexMod - 1
      /\ outstanding \in 0 .. q.size
      /\ avail_ring \in [0 .. q.size - 1 -> 0 .. q.slots - 1]
      /\ used_ring \in [0 .. q.size - 1 -> 0 .. q.size]
      /\ qpc \in {"idle", "popped", "copied", "submitted"}
  BY <1>3, QueueTyped
<1>5. /\ outstanding = IF qpc # "submitted" THEN d ELSE IF d = IndexMod - 1 THEN 0 ELSE d + 1
      /\ qonline => outstanding + (IF qpc \in {"popped", "copied"} THEN 1 ELSE 0) = q.slots
  BY <1>3, <1>4, CountsAre
<1>6. d \in 0 .. IndexMod - 1
  BY <1>1, <1>4, Indices
<1>7. /\ d < IndexMod - 1 => (((available + 1) % IndexMod) - consumed) % IndexMod = d + 1
      /\ d > 0 => (available - ((consumed + 1) % IndexMod)) % IndexMod = d - 1
  BY <1>1, <1>4, Further, Zenon
<1>8. (available + 1) % IndexMod \in 0 .. IndexMod - 1 /\ (consumed + 1) % IndexMod \in 0 .. IndexMod - 1
  BY <1>1, <1>4, NextIndex
<1>9. available % q.size \in 0 .. q.size - 1 /\ consumed % q.size \in 0 .. q.size - 1
  BY <1>2, <1>4
<1> HIDE DEF d
<1>11. ASSUME Queue(q)!Pop PROVE QueueDriverInv(q)'
  <2>1. /\ qpc = "idle" /\ qonline /\ Queue(q)!Count # 0 /\ Queue(q)!Count <= outstanding
        /\ consumed' = (consumed + 1) % IndexMod /\ outstanding' = outstanding - 1
        /\ qid' = used_ring[consumed % q.size]
        /\ \/ qid' < q.slots /\ qpc' = "popped" /\ UNCHANGED qonline
           \/ qid' >= q.slots /\ qonline' = FALSE /\ UNCHANGED qpc
        /\ UNCHANGED <<avail_ring, available, used_ring, used_idx, seen, held, writing, data, got>>
    BY <1>11 DEF Queue!Pop, Queue!Plausible, Queue!device
  <2>2. Queue(q)!Count \in 0 .. IndexMod - 1
    <3>1. used_idx \in 0 .. IndexMod - 1
      BY <1>3, QueueTyped
    <3>2. QED
      BY <1>1, <1>4, <3>1, Indices DEF Queue!Count
  <2>3. outstanding > 0 /\ outstanding = d
    BY <1>4, <1>5, <2>1, <2>2
  <2>4. consumed' \in 0 .. IndexMod - 1 /\ outstanding' \in 0 .. q.size /\ qid' \in 0 .. q.size
    BY <1>1, <1>4, <1>8, <1>9, <2>1, <2>3
  <2>5. Queue(q)!TypeOK'
    <3>1. /\ qpc' \in {"idle", "popped", "copied", "submitted"} /\ qonline' \in BOOLEAN
          /\ (qpc' # "idle" => qid' \in 0 .. q.slots - 1)
      <4>1. CASE qid' < q.slots /\ qpc' = "popped" /\ UNCHANGED qonline
        BY <1>1, <2>1, <2>4, <4>1
      <4>2. CASE qonline' = FALSE /\ UNCHANGED qpc
        BY <2>1, <4>2
      <4>3. QED
        BY <2>1, <4>1, <4>2
    <3>2. QED
      BY <1>1, <1>3, <2>1, <2>4, <3>1 DEF Queue!TypeOK
  <2>6. (available' - consumed') % IndexMod = d - 1
    BY <1>4, <1>7, <2>1, <2>3
  <2>7. Queue(q)!CountsAgree'
    <3>1. available' \in 0 .. IndexMod - 1 /\ qpc' # "submitted"
      BY <1>4, <2>1
    <3>2. outstanding' = d - 1
      BY <2>1, <2>3
    <3>3. qonline' => outstanding' + (IF qpc' \in {"popped", "copied"} THEN 1 ELSE 0) = q.slots
      BY <1>4, <1>5, <2>1
    <3>4. QED
      BY <2>4, <2>6, <3>1, <3>2, <3>3, CountsNext
  <2>8. QED
    BY <2>1, <2>5, <2>7 DEF QueueDriverInv
<1>12. ASSUME Queue(q)!Copy PROVE QueueDriverInv(q)'
  <2>1. /\ qpc = "popped" /\ qpc' = "copied" /\ got' = data[qid]
        /\ UNCHANGED <<avail_ring, available, consumed, outstanding, used_ring, used_idx,
                       seen, held, writing, data, qid, qonline>>
    BY <1>12 DEF Queue!Copy, Queue!queue, Queue!device
  <2>2. Queue(q)!TypeOK'
    BY <1>1, <1>3, <2>1 DEF Queue!TypeOK
  <2>3. Queue(q)!CountsAgree'
    BY <1>3, <2>1 DEF Queue!CountsAgree
  <2>4. QED
    BY <1>3, <2>1, <2>2, <2>3 DEF QueueDriverInv
<1>13. ASSUME Queue(q)!Submit PROVE QueueDriverInv(q)'
  <2>1. qpc = "copied" /\ outstanding < q.size /\ outstanding = d
    BY <1>1, <1>3, <1>4, <1>5, <1>13 DEF Queue!Submit
  <2>2. /\ qpc' = "submitted" /\ outstanding' = outstanding + 1
        /\ avail_ring' = [avail_ring EXCEPT ![available % q.size] = qid]
        /\ UNCHANGED <<available, consumed, used_ring, used_idx,
                       seen, held, writing, data, qid, got, qonline>>
    BY <1>1, <1>4, <1>13, <2>1 DEF Queue!Submit, Queue!device
  <2>3. outstanding' \in 0 .. q.size /\ qid \in 0 .. q.slots - 1
    BY <1>1, <1>3, <1>4, <2>1, <2>2 DEF Queue!TypeOK
  <2>4. Queue(q)!TypeOK'
    BY <1>1, <1>3, <1>9, <2>2, <2>3 DEF Queue!TypeOK
  <2>5. Queue(q)!CountsAgree'
    <3>1. outstanding' = d + 1 /\ d # IndexMod - 1
      BY <1>1, <1>4, <2>1, <2>2
    <3>2. (available' - consumed') % IndexMod = d
      BY <2>2 DEF d
    <3>3. qonline' => outstanding' + (IF qpc' \in {"popped", "copied"} THEN 1 ELSE 0) = q.slots
      BY <1>4, <1>5, <2>1, <2>2
    <3>4. available' \in 0 .. IndexMod - 1 /\ consumed' \in 0 .. IndexMod - 1 /\ qpc' = "submitted"
      BY <1>4, <2>2
    <3>5. QED
      BY <3>1, <3>2, <3>3, <3>4, CountsNext
  <2>6. avail_ring'[available' % q.size] = qid' /\ qonline'
    BY <1>3, <1>4, <1>9, <2>1, <2>2
  <2>7. QED
    BY <2>4, <2>5, <2>6 DEF QueueDriverInv
<1>14. ASSUME Queue(q)!Publish PROVE QueueDriverInv(q)'
  <2>1. /\ qpc = "submitted" /\ available' = (available + 1) % IndexMod /\ qpc' = "idle"
        /\ UNCHANGED <<avail_ring, consumed, outstanding, used_ring, used_idx,
                       seen, held, writing, data, qid, got, qonline>>
    BY <1>14 DEF Queue!Publish, Queue!device
  <2>2. Queue(q)!TypeOK'
    BY <1>1, <1>3, <1>8, <2>1 DEF Queue!TypeOK
  <2>3. outstanding = q.slots /\ qonline
    BY <1>1, <1>3, <1>4, <1>5, <2>1
  <2>4. d < IndexMod - 1 /\ outstanding = d + 1
    BY <1>1, <1>5, <1>6, <2>1, <2>3
  <2>5. Queue(q)!CountsAgree'
    <3>1. (available' - consumed') % IndexMod = d + 1
      BY <1>7, <2>1, <2>4
    <3>2. available' \in 0 .. IndexMod - 1 /\ consumed' \in 0 .. IndexMod - 1 /\ qpc' = "idle"
      BY <1>4, <1>8, <2>1
    <3>3. outstanding' = d + 1 /\ outstanding' + 0 = q.slots
      BY <1>1, <2>1, <2>3, <2>4
    <3>4. QED
      BY <3>1, <3>2, <3>3, CountsNext
  <2>6. QED
    BY <2>1, <2>2, <2>5 DEF QueueDriverInv
<1>15. QED
  BY <1>11, <1>12, <1>13, <1>14

\* What the driver does not count leaves its counts right.
LEMMA QueueDriverKept ==
  ASSUME NEW CONSTANT q, QueueConfigured(q), QueueDriverInv(q),
         UNCHANGED <<avail_ring, available, consumed, outstanding, qpc, qid, got, qonline>>,
         Queue(q)!TypeOK'
  PROVE  QueueDriverInv(q)'
BY DEF QueueDriverInv, Queue!CountsAgree

\* The set-up.
LEMMA QueueSetUp ==
  ASSUME NEW CONSTANT q, QueueConfigured(q)
  PROVE  /\ Queue(q)!Init => QueueDriverInv(q)
         /\ Queue(q)!Restart /\ QueueDriverInv(q) => QueueDriverInv(q)'
<1>1. /\ q.size \in Nat \ {0} /\ q.slots \in 1 .. q.size
      /\ IndexMod \in Nat \ {0} /\ IndexMod > q.size
      /\ Queue(q)!Index = 0 .. IndexMod - 1 /\ Queue(q)!Entries = 0 .. q.size - 1
      /\ Queue(q)!Buffers = 0 .. q.slots - 1
  BY QueueConstants
<1>2. /\ q.slots \in 0 .. IndexMod - 1 /\ 0 \in 0 .. IndexMod - 1
      /\ (q.slots - 0) % IndexMod = q.slots /\ q.slots \in 0 .. q.size
      /\ 0 \in 0 .. q.size /\ 0 \in 0 .. q.slots - 1
  <2>1. q.slots \in 0 .. IndexMod - 1 /\ 0 \in 0 .. IndexMod - 1
    BY <1>1
  <2>2. (q.slots - 0) % IndexMod = IF 0 <= q.slots THEN q.slots - 0 ELSE q.slots - 0 + IndexMod
    BY <1>1, <2>1, Indices
  <2>3. QED
    BY <1>1, <2>1, <2>2
<1>3. /\ [e \in 0 .. q.size - 1 |-> IF e < q.slots THEN e ELSE 0] \in [0 .. q.size - 1 -> 0 .. q.slots - 1]
      /\ [e \in 0 .. q.size - 1 |-> 0] \in [0 .. q.size - 1 -> 0 .. q.size]
  BY <1>1, QueueInitRings
<1>4. ASSUME Queue(q)!Init PROVE QueueDriverInv(q)
  <2>1. Queue(q)!TypeOK
    BY <1>1, <1>2, <1>3, <1>4 DEF Queue!Init, Queue!TypeOK
  <2>2. Queue(q)!CountsAgree
    <3>1. /\ available = q.slots /\ consumed = 0 /\ outstanding = q.slots /\ qpc = "idle"
      BY <1>4 DEF Queue!Init
    <3>2. /\ (available - consumed) % IndexMod = q.slots /\ outstanding + 0 = q.slots
          /\ available \in 0 .. IndexMod - 1 /\ consumed \in 0 .. IndexMod - 1
      BY <1>1, <1>2, <3>1
    <3>3. QED
      BY <3>1, <3>2, CountsAre
  <2>3. QED
    BY <1>4, <2>1, <2>2 DEF QueueDriverInv, Queue!Init
<1>5. ASSUME Queue(q)!Restart, QueueDriverInv(q) PROVE QueueDriverInv(q)'
  <2>1. /\ available' = q.slots /\ consumed' = 0 /\ outstanding' = q.slots
        /\ qpc = "idle" /\ qpc' = "idle" /\ used_idx' = 0 /\ seen' = 0
        /\ avail_ring' = [e \in Queue(q)!Entries |-> IF e < q.slots THEN e ELSE 0]
        /\ used_ring' = [e \in Queue(q)!Entries |-> 0]
        /\ data' = [b \in Queue(q)!Buffers |-> Nobody] /\ qonline' = TRUE
        /\ held' = {} /\ writing' = FALSE /\ UNCHANGED <<qid, got>>
    BY <1>5 DEF Queue!Restart
  <2>2. Queue(q)!TypeOK'
    BY <1>1, <1>2, <1>3, <1>5, <2>1 DEF QueueDriverInv, Queue!TypeOK
  <2>3. Queue(q)!CountsAgree'
    <3>1. /\ (available' - consumed') % IndexMod = q.slots /\ outstanding' + 0 = q.slots
          /\ available' \in 0 .. IndexMod - 1 /\ consumed' \in 0 .. IndexMod - 1
      BY <1>1, <1>2, <2>1
    <3>2. QED
      BY <2>1, <3>1, CountsNext
  <2>4. QED
    BY <2>1, <2>2, <2>3 DEF QueueDriverInv
<1>6. QED
  BY <1>4, <1>5

\* Whatever the device does.
LEMMA QueueDeviceSteps ==
  ASSUME NEW CONSTANT q, QueueConfigured(q), QueueDriverInv(q)
  PROVE  /\ Queue(q)!PopRefused => QueueDriverInv(q)'
         /\ Queue(q)!DeviceTake => QueueDriverInv(q)'
         /\ \A b \in Queue(q)!Buffers, f \in q.frames : Queue(q)!DeviceWrite(b, f) => QueueDriverInv(q)'
         /\ Queue(q)!DevicePublish => QueueDriverInv(q)'
         /\ \A i \in Queue(q)!Index, b \in 0 .. q.size : Queue(q)!DeviceLies(i, b) => QueueDriverInv(q)'
<1>1. /\ q.size \in Nat \ {0} /\ q.slots \in 1 .. q.size
      /\ IndexMod \in Nat \ {0} /\ IndexMod > q.size
      /\ Queue(q)!Index = 0 .. IndexMod - 1 /\ Queue(q)!Entries = 0 .. q.size - 1
      /\ Queue(q)!Buffers = 0 .. q.slots - 1
  BY QueueConstants
<1>2. \A x \in Int : x % q.size \in 0 .. q.size - 1
  BY QueueConstants
<1>3. Queue(q)!TypeOK /\ Queue(q)!CountsAgree
  BY DEF QueueDriverInv
<1>4. /\ seen \in 0 .. IndexMod - 1 /\ used_idx \in 0 .. IndexMod - 1 /\ consumed \in 0 .. IndexMod - 1
      /\ avail_ring \in [0 .. q.size - 1 -> 0 .. q.slots - 1]
      /\ used_ring \in [0 .. q.size - 1 -> 0 .. q.size]
  BY <1>3, QueueTyped
<1>5. (seen + 1) % IndexMod \in 0 .. IndexMod - 1 /\ (used_idx + 1) % IndexMod \in 0 .. IndexMod - 1
  BY <1>1, <1>4, NextIndex
<1>6. /\ seen % q.size \in 0 .. q.size - 1 /\ used_idx % q.size \in 0 .. q.size - 1
      /\ consumed % q.size \in 0 .. q.size - 1
  BY <1>2, <1>4
<1>7. ASSUME Queue(q)!PopRefused PROVE QueueDriverInv(q)'
  <2>1. /\ qpc = "idle" /\ qonline' = FALSE
        /\ UNCHANGED <<avail_ring, available, consumed, outstanding, used_ring, used_idx, seen, held,
                       writing, data, qpc, qid, got>>
    BY <1>7 DEF Queue!PopRefused, Queue!queue, Queue!device
  <2>2. Queue(q)!TypeOK'
    BY <1>3, <2>1 DEF Queue!TypeOK
  <2>3. Queue(q)!CountsAgree'
    BY <1>3, <2>1 DEF Queue!CountsAgree
  <2>4. QED
    BY <2>1, <2>2, <2>3 DEF QueueDriverInv
<1>8. ASSUME Queue(q)!DeviceTake PROVE QueueDriverInv(q)'
  <2>1. /\ UNCHANGED <<avail_ring, available, consumed, outstanding, qpc, qid, got, qonline,
                       used_ring, used_idx, writing, data>>
        /\ held' = held \cup {avail_ring[seen % q.size]} /\ seen' = (seen + 1) % IndexMod
    BY <1>8 DEF Queue!DeviceTake, Queue!queue
  <2>2. Queue(q)!TypeOK'
    BY <1>1, <1>3, <1>4, <1>5, <1>6, <2>1 DEF Queue!TypeOK
  <2>3. QED
    BY <2>1, <2>2, QueueDriverKept
<1>9. ASSUME NEW b \in Queue(q)!Buffers, NEW f \in q.frames, Queue(q)!DeviceWrite(b, f) PROVE QueueDriverInv(q)'
  <2>1. /\ UNCHANGED <<avail_ring, available, consumed, outstanding, qpc, qid, got, qonline, used_idx, seen>>
        /\ data' = [data EXCEPT ![b] = f]
        /\ used_ring' = [used_ring EXCEPT ![used_idx % q.size] = b]
        /\ held' = held \ {b} /\ writing' = TRUE
    BY <1>9 DEF Queue!DeviceWrite, Queue!queue
  <2>2. b \in 0 .. q.size
    BY <1>1, <1>9
  <2>3. used_ring' \in [0 .. q.size - 1 -> 0 .. q.size]
    BY <1>4, <1>6, <2>1, <2>2
  <2>4. Queue(q)!TypeOK'
    BY <1>1, <1>3, <2>1, <2>3 DEF Queue!TypeOK
  <2>5. QED
    BY <2>1, <2>4, QueueDriverKept
<1>10. ASSUME Queue(q)!DevicePublish PROVE QueueDriverInv(q)'
  <2>1. /\ UNCHANGED <<avail_ring, available, consumed, outstanding, qpc, qid, got, qonline,
                       used_ring, seen, held, data>>
        /\ used_idx' = (used_idx + 1) % IndexMod /\ writing' = FALSE
    BY <1>10 DEF Queue!DevicePublish, Queue!queue
  <2>2. Queue(q)!TypeOK'
    BY <1>1, <1>3, <1>5, <2>1 DEF Queue!TypeOK
  <2>3. QED
    BY <2>1, <2>2, QueueDriverKept
<1>11. ASSUME NEW i \in Queue(q)!Index, NEW b \in 0 .. q.size, Queue(q)!DeviceLies(i, b) PROVE QueueDriverInv(q)'
  <2>1. /\ UNCHANGED <<avail_ring, available, consumed, outstanding, qpc, qid, got, qonline,
                       seen, held, writing, data>>
        /\ used_idx' = i /\ used_ring' = [used_ring EXCEPT ![consumed % q.size] = b]
    BY <1>11 DEF Queue!DeviceLies, Queue!queue
  <2>2. used_ring' \in [0 .. q.size - 1 -> 0 .. q.size]
    BY <1>4, <1>6, <2>1
  <2>3. Queue(q)!TypeOK'
    BY <1>1, <1>3, <2>1, <2>2 DEF Queue!TypeOK
  <2>4. QED
    BY <2>1, <2>3, QueueDriverKept
<1>12. QED
  BY <1>7, <1>8, <1>9, <1>10, <1>11

\* The driver's part of the invariant, of any device.
LEMMA QueueDriverStep ==
  ASSUME NEW CONSTANT q, QueueConfigured(q), QueueDriverInv(q), [Queue(q)!Next]_(Queue(q)!vars)
  PROVE  QueueDriverInv(q)'
<1>1. CASE Queue(q)!Next
  BY <1>1, QueueDriverSteps, QueueSetUp, QueueDeviceSteps DEF Queue!Next
<1>2. CASE UNCHANGED Queue(q)!vars
  <2>1. UNCHANGED <<avail_ring, available, consumed, outstanding, used_ring, used_idx, seen, held, writing,
                    data, qpc, qid, got, qonline>>
    BY <1>2 DEF Queue!vars, Queue!queue, Queue!device
  <2>2. Queue(q)!TypeOK'
    BY <2>1 DEF QueueDriverInv, Queue!TypeOK
  <2>3. QED
    BY <2>1, <2>2, QueueDriverKept
<1>3. QED
  BY <1>1, <1>2

-----------------------------------------------------------------------------
\* A queue whose device keeps the protocol: the numbers behind the owners.
LEMMA QueueNumbers ==
  ASSUME NEW CONSTANT q, QueueConfigured(q), QueueDriverInv(q), QueueOwned(q)
  PROVE  /\ Queue(q)!Pending \in Nat /\ Queue(q)!Count \in Nat /\ Reports(q) \in Nat
         /\ Queue(q)!Pending <= q.slots /\ Queue(q)!Count <= Reports(q) /\ Reports(q) <= q.slots
         /\ writing => Reports(q) = Queue(q)!Count + 1
         /\ ~ writing => Reports(q) = Queue(q)!Count
         /\ IsFiniteSet(held) /\ Cardinality(held) \in Nat
         /\ qpc # "idle" => Queue(q)!Pending < q.slots
         /\ held # {} => Reports(q) < q.slots
<1>1. /\ q.slots \in 1 .. q.size /\ q.size \in Nat \ {0} /\ IndexMod \in Nat \ {0}
  BY QueueConstants
<1>2. /\ available \in 0 .. IndexMod - 1 /\ consumed \in 0 .. IndexMod - 1
      /\ used_idx \in 0 .. IndexMod - 1 /\ seen \in 0 .. IndexMod - 1
      /\ held \subseteq 0 .. q.slots - 1 /\ writing \in BOOLEAN
  BY QueueTyped DEF QueueDriverInv
<1>3. Queue(q)!Pending \in Nat /\ Queue(q)!Count \in Nat
  BY <1>1, <1>2, Indices DEF Queue!Pending, Queue!Count
<1>4. IsFiniteSet(held) /\ Cardinality(held) \in Nat
  <2>1. IsFiniteSet(0 .. q.slots - 1)
    BY <1>1, FS_Interval
  <2>2. QED
    BY <1>2, <2>1, FS_Subset, FS_CardinalityType
<1>5. /\ writing => Reports(q) = Queue(q)!Count + 1
      /\ ~ writing => Reports(q) = Queue(q)!Count
  BY <1>3 DEF Reports
<1>6. Queue(q)!Pending + Cardinality(held) + Reports(q) + (IF qpc = "idle" THEN 0 ELSE 1) = q.slots
  BY DEF QueueOwned
<1>7. held # {} => Cardinality(held) >= 1
  BY <1>4, FS_EmptySet
<1>8. QED
  BY <1>1, <1>2, <1>3, <1>4, <1>5, <1>6, <1>7

\* The entry in front and the one behind the last of those in use.
LEMMA QueueEntries ==
  ASSUME NEW CONSTANT q, QueueConfigured(q), QueueDriverInv(q)
  PROVE  /\ GivenEntries(q)[0] = avail_ring[seen % q.size]
         /\ UsedEntries(q)[0] = used_ring[consumed % q.size]
         /\ GivenEntries(q)[Queue(q)!Pending] = avail_ring[available % q.size]
         /\ (consumed + Queue(q)!Count) % q.size = used_idx % q.size
         /\ (seen + Queue(q)!Pending) % q.size = available % q.size
<1>1. /\ q.size \in Nat \ {0} /\ IndexMod \in Nat \ {0} /\ IndexMod % q.size = 0
  BY QueueConstants
<1>2. /\ available \in 0 .. IndexMod - 1 /\ consumed \in 0 .. IndexMod - 1
      /\ used_idx \in 0 .. IndexMod - 1 /\ seen \in 0 .. IndexMod - 1
  BY QueueTyped DEF QueueDriverInv
<1>3. Queue(q)!Pending \in Nat /\ seen + 0 = seen /\ consumed + 0 = consumed /\ 0 \in Nat
  BY <1>1, <1>2, Indices DEF Queue!Pending
<1>4. /\ (consumed + Queue(q)!Count) % q.size = used_idx % q.size
      /\ (seen + Queue(q)!Pending) % q.size = available % q.size
  <2>1. ASSUME NEW S \in Nat \ {0}, NEW M \in Nat \ {0}, M % S = 0
        PROVE  \A x, y \in 0 .. M - 1 : (x + ((y - x) % M)) % S = y % S
    BY <2>1, PlaceOf
  <2>2. \A x, y \in 0 .. IndexMod - 1 : (x + ((y - x) % IndexMod)) % q.size = y % q.size
    BY <1>1, <2>1, Zenon
  <2>3. /\ (consumed + ((used_idx - consumed) % IndexMod)) % q.size = used_idx % q.size
        /\ (seen + ((available - seen) % IndexMod)) % q.size = available % q.size
    BY <1>2, <2>2, Zenon
  <2>4. QED
    BY <2>3 DEF Queue!Pending, Queue!Count
<1>5. QED
  BY <1>3, <1>4 DEF GivenEntries, UsedEntries

\* The driver takes only what was reported, and is never told a lie.
LEMMA QueueHonest ==
  ASSUME NEW CONSTANT q, QueueConfigured(q), QueueDriverInv(q), ~ q.faulty, qonline, QueueOwned(q)
  PROVE  /\ ~ Queue(q)!PopRefused /\ ~ Queue(q)!Restart
         /\ \A i \in Queue(q)!Index, b \in 0 .. q.size : ~ Queue(q)!DeviceLies(i, b)
         /\ Queue(q)!Count # 0 => UsedEntries(q)[0] \in 0 .. q.slots - 1
<1>1. /\ q.slots \in 1 .. q.size /\ q.size \in Nat \ {0} /\ Queue(q)!Buffers = 0 .. q.slots - 1
  BY QueueConstants
<1>2. ~ Queue(q)!Restart /\ \A i \in Queue(q)!Index, b \in 0 .. q.size : ~ Queue(q)!DeviceLies(i, b)
  BY DEF Queue!Restart, Queue!DeviceLies
<1>3. Queue(q)!Count \in Nat /\ Reports(q) \in Nat /\ Queue(q)!Count <= Reports(q) /\ Reports(q) <= q.slots
  BY QueueNumbers
<1>4. Queue(q)!Count # 0 => UsedEntries(q)[0] \in 0 .. q.slots - 1
  <2>1. Queue(q)!Count # 0 => 0 \in 0 .. Reports(q) - 1
    BY <1>3
  <2>2. QED
    BY <1>1, <2>1 DEF QueueOwned, OneOwner, EachOnce
<1>5. ASSUME Queue(q)!PopRefused PROVE FALSE
  <2>1. qpc = "idle" /\ Queue(q)!Count # 0 /\ ~ Queue(q)!Plausible
    BY <1>5 DEF Queue!PopRefused
  <2>2. outstanding = q.slots
    <3>1. outstanding + 0 = q.slots /\ outstanding \in 0 .. q.size
      BY <2>1, QueueTyped DEF QueueDriverInv, Queue!CountsAgree
    <3>2. QED
      BY <3>1
  <2>3. used_ring[consumed % q.size] \in 0 .. q.slots - 1
    BY <1>4, <2>1, QueueEntries
  <2>4. Queue(q)!Plausible
    BY <1>1, <1>3, <2>2, <2>3 DEF Queue!Plausible
  <2>5. QED
    BY <2>1, <2>4
<1>6. QED
  BY <1>2, <1>4, <1>5

\* The driver takes a report.
LEMMA PopOwned ==
  ASSUME NEW CONSTANT q, QueueConfigured(q), QueueDriverInv(q), ~ q.faulty, qonline, QueueOwned(q), Queue(q)!Pop
  PROVE  /\ qonline' /\ QueueOwned(q)'
         /\ qpc = "idle" /\ qpc' = "popped" /\ qid' = UsedEntries(q)[0] /\ Queue(q)!Count > 0
         /\ Queue(q)!Count' = Queue(q)!Count - 1
         /\ \A i \in Nat : UsedEntries(q)'[i] = UsedEntries(q)[i + 1]
         /\ UNCHANGED <<data, got>>
<1>1. /\ q.slots \in 1 .. q.size /\ q.size \in Nat \ {0} /\ Queue(q)!Buffers = 0 .. q.slots - 1
      /\ IndexMod \in Nat \ {0} /\ IndexMod % q.size = 0
  BY QueueConstants
<1>2. consumed \in 0 .. IndexMod - 1 /\ used_idx \in 0 .. IndexMod - 1
  BY QueueTyped DEF QueueDriverInv
<1>3. /\ qpc = "idle" /\ Queue(q)!Count # 0 /\ consumed' = (consumed + 1) % IndexMod
      /\ qid' = used_ring[consumed % q.size]
      /\ \/ qid' < q.slots /\ qpc' = "popped" /\ UNCHANGED qonline
         \/ qid' >= q.slots /\ qonline' = FALSE /\ UNCHANGED qpc
      /\ UNCHANGED <<avail_ring, available, used_ring, used_idx, seen, held, writing, data, got>>
  BY DEF Queue!Pop, Queue!device
<1>4. /\ Queue(q)!Pending \in Nat /\ Queue(q)!Count \in Nat /\ Reports(q) \in Nat
      /\ Queue(q)!Count <= Reports(q)
      /\ (writing => Reports(q) = Queue(q)!Count + 1) /\ (~ writing => Reports(q) = Queue(q)!Count)
      /\ Cardinality(held) \in Nat
  BY QueueNumbers
<1>5. qid' = UsedEntries(q)[0] /\ qid' \in 0 .. q.slots - 1
  BY <1>3, QueueEntries, QueueHonest
<1>6. qpc' = "popped" /\ qonline'
  <2>1. ~ (qid' >= q.slots)
    BY <1>1, <1>5
  <2>2. QED
    BY <1>3, <2>1
<1>7. Queue(q)!Count' = Queue(q)!Count - 1
  <2>1. (used_idx - consumed) % IndexMod > 0
    BY <1>3, <1>4 DEF Queue!Count
  <2>2. IndexMod \in Nat \ {0} /\ consumed \in 0 .. IndexMod - 1 /\ used_idx \in 0 .. IndexMod - 1
    BY <1>1, <1>2
  <2>3. (used_idx - ((consumed + 1) % IndexMod)) % IndexMod = ((used_idx - consumed) % IndexMod) - 1
    BY ONLY <2>1, <2>2, Further
  <2>4. QED
    BY <1>3, <2>3 DEF Queue!Count
<1>8. Reports(q)' = Reports(q) - 1 /\ Reports(q) > 0
  BY <1>3, <1>4, <1>7 DEF Reports
<1>9. \A i \in Nat : UsedEntries(q)'[i] = UsedEntries(q)[i + 1]
  <2>1. \A i \in Nat : (((consumed + 1) % IndexMod) + i) % q.size = (consumed + (i + 1)) % q.size
    BY <1>1, <1>2, PlacesNext, ZenonT(40)
  <2>2. QED
    BY <1>3, <2>1 DEF UsedEntries
<1>10. Queue(q)!Pending' = Queue(q)!Pending /\ GivenEntries(q)' = GivenEntries(q) /\ held' = held
  BY <1>3 DEF Queue!Pending, GivenEntries
<1>11. Queue(q)!InHand = {} /\ Queue(q)!InHand' = {UsedEntries(q)[0]}
  BY <1>3, <1>5, <1>6 DEF Queue!InHand
<1>12. OneOwner(Queue(q)!Pending, GivenEntries(q), Reports(q) - 1, UsedEntries(q)', held,
                {UsedEntries(q)[0]}, Queue(q)!Buffers)
  <2>1. OneOwner(Queue(q)!Pending, GivenEntries(q), Reports(q), UsedEntries(q), held, {}, Queue(q)!Buffers)
    BY <1>11 DEF QueueOwned
  <2>2. \A i \in 0 .. Reports(q) - 2 : UsedEntries(q)'[i] = UsedEntries(q)[i + 1]
    BY <1>8, <1>9
  <2>3. QED
    BY <1>4, <1>8, <2>1, <2>2, OwnerPops
<1>13. QueueOwned(q)'
  <2>1. OneOwner(Queue(q)!Pending', GivenEntries(q)', Reports(q)', UsedEntries(q)', held',
                 Queue(q)!InHand', Queue(q)!Buffers')
    BY <1>8, <1>10, <1>11, <1>12 DEF Queue!Buffers
  <2>2. Queue(q)!Pending' + Cardinality(held') + Reports(q)' + (IF qpc' = "idle" THEN 0 ELSE 1) = q.slots
    <3>1. Queue(q)!Pending + Cardinality(held) + Reports(q) + 0 = q.slots
      BY <1>3 DEF QueueOwned
    <3>2. QED
      BY <1>4, <1>6, <1>8, <1>10, <3>1
  <2>3. writing' => data'[used_ring'[used_idx' % q.size]] \in q.frames
    BY <1>3 DEF QueueOwned
  <2>4. QED
    BY <2>1, <2>2, <2>3 DEF QueueOwned
<1>14. QED
  BY <1>3, <1>4, <1>5, <1>6, <1>7, <1>9, <1>13

\* It copies, and writes the entry that it will publish.
LEMMA SubmitOwned ==
  ASSUME NEW CONSTANT q, QueueConfigured(q), QueueDriverInv(q), qonline, QueueOwned(q),
         Queue(q)!Copy \/ Queue(q)!Submit
  PROVE  /\ qonline' /\ QueueOwned(q)'
         /\ Queue(q)!Submit => qpc = "copied" /\ qpc' = "submitted" /\ got' = got
         /\ Queue(q)!Count' = Queue(q)!Count
         /\ UNCHANGED <<used_ring, consumed, data, qid>>
<1>1. /\ q.slots \in 1 .. q.size /\ q.size \in Nat \ {0}
      /\ IndexMod \in Nat \ {0} /\ IndexMod % q.size = 0
  BY QueueConstants
<1>2. /\ available \in 0 .. IndexMod - 1 /\ seen \in 0 .. IndexMod - 1
      /\ outstanding \in 0 .. q.size
      /\ avail_ring \in [0 .. q.size - 1 -> 0 .. q.slots - 1]
  BY QueueTyped DEF QueueDriverInv
<1>3. /\ Queue(q)!Pending \in Nat /\ Reports(q) \in Nat
      /\ (qpc # "idle" => Queue(q)!Pending < q.slots)
  BY QueueNumbers
<1>4. Queue(q)!Submit => outstanding < q.size
  <2>1. qpc = "copied" => outstanding + 1 = q.slots
    BY DEF QueueDriverInv, Queue!CountsAgree
  <2>2. QED
    BY <1>1, <1>2, <2>1 DEF Queue!Submit
<1>5. /\ qpc # "idle" /\ qpc' # "idle"
      /\ UNCHANGED <<available, consumed, used_ring, used_idx, seen, held, writing, data, qid, qonline>>
      /\ \/ avail_ring' = avail_ring
         \/ avail_ring' = [avail_ring EXCEPT ![available % q.size] = qid]
      /\ Queue(q)!Submit => qpc = "copied" /\ qpc' = "submitted" /\ got' = got
  <2>1. CASE Queue(q)!Copy
    BY <2>1 DEF Queue!Copy, Queue!Submit, Queue!queue, Queue!device
  <2>2. CASE Queue(q)!Submit
    BY <1>1, <1>2, <1>4, <2>2 DEF Queue!Submit, Queue!device
  <2>3. QED
    BY <2>1, <2>2
<1>6. /\ Queue(q)!Pending' = Queue(q)!Pending /\ Reports(q)' = Reports(q) /\ UsedEntries(q)' = UsedEntries(q)
      /\ Queue(q)!InHand' = Queue(q)!InHand /\ Queue(q)!Buffers' = Queue(q)!Buffers
      /\ Queue(q)!Count' = Queue(q)!Count
  BY <1>5 DEF Queue!Pending, Reports, Queue!Count, UsedEntries, Queue!InHand, Queue!Buffers
<1>7. \A i \in 0 .. Queue(q)!Pending - 1 : GivenEntries(q)'[i] = GivenEntries(q)[i]
  <2>1. SUFFICES ASSUME NEW i \in 0 .. Queue(q)!Pending - 1
                 PROVE  avail_ring'[(seen + i) % q.size] = avail_ring[(seen + i) % q.size]
    BY <1>3, <1>5 DEF GivenEntries
  <2> DEFINE x == seen + i
             y == seen + Queue(q)!Pending
  <2>2. x \in Int /\ y \in Int /\ x < y /\ y - x < q.size
    <3>1. Queue(q)!Pending < q.size /\ Queue(q)!Pending \in Nat /\ seen \in Int /\ q.size \in Nat
      BY <1>1, <1>2, <1>3, <1>5
    <3>2. QED
      BY <3>1, Within, Zenon
  <2>3. x % q.size # y % q.size
    BY <1>1, <2>2, Apart
  <2>4. y % q.size = available % q.size
    BY QueueEntries
  <2>5. x % q.size \in 0 .. q.size - 1
    BY <2>2, QueueConstants
  <2> HIDE DEF x, y
  <2>6. avail_ring'[x % q.size] = avail_ring[x % q.size]
    BY <1>2, <1>5, <2>3, <2>4, <2>5
  <2>7. QED
    BY <2>6 DEF x
<1>8. OneOwner(Queue(q)!Pending', GivenEntries(q)', Reports(q)', UsedEntries(q)', held',
               Queue(q)!InHand', Queue(q)!Buffers')
  <2>1. OneOwner(Queue(q)!Pending, GivenEntries(q)', Reports(q), UsedEntries(q), held,
                 Queue(q)!InHand, Queue(q)!Buffers)
    BY <1>3, <1>7, OwnerSame DEF QueueOwned
  <2>2. QED
    BY <1>5, <1>6, <2>1
<1>9. QueueOwned(q)'
  BY <1>5, <1>6, <1>8 DEF QueueOwned
<1>10. QED
  BY <1>5, <1>6, <1>9

\* It publishes that entry.
LEMMA PublishOwned ==
  ASSUME NEW CONSTANT q, QueueConfigured(q), QueueDriverInv(q), qonline, QueueOwned(q), Queue(q)!Publish
  PROVE  /\ qonline' /\ QueueOwned(q)'
         /\ qpc = "submitted" /\ qpc' = "idle"
         /\ Queue(q)!Count' = Queue(q)!Count
         /\ UNCHANGED <<used_ring, consumed, data, got>>
<1>1. /\ q.slots \in 1 .. q.size /\ q.size \in Nat \ {0} /\ IndexMod \in Nat \ {0} /\ IndexMod > q.size
  BY QueueConstants
<1>2. available \in 0 .. IndexMod - 1 /\ seen \in 0 .. IndexMod - 1
  BY QueueTyped DEF QueueDriverInv
<1>3. /\ qpc = "submitted" /\ available' = (available + 1) % IndexMod /\ qpc' = "idle"
      /\ UNCHANGED <<avail_ring, consumed, outstanding, used_ring, used_idx, seen, held, writing,
                     data, qid, got, qonline>>
  BY DEF Queue!Publish, Queue!device
<1>4. /\ Queue(q)!Pending \in Nat /\ Reports(q) \in Nat /\ Queue(q)!Pending < q.slots
      /\ Cardinality(held) \in Nat
  BY <1>3, QueueNumbers
<1>5. Queue(q)!Pending' = Queue(q)!Pending + 1
  <2>1. (available - seen) % IndexMod < IndexMod - 1
    BY <1>1, <1>4 DEF Queue!Pending
  <2>2. IndexMod \in Nat \ {0} /\ available \in 0 .. IndexMod - 1 /\ seen \in 0 .. IndexMod - 1
    BY <1>1, <1>2
  <2>3. (((available + 1) % IndexMod) - seen) % IndexMod = ((available - seen) % IndexMod) + 1
    BY ONLY <2>1, <2>2, Further
  <2>4. QED
    BY <1>3, <2>3 DEF Queue!Pending
<1>6. /\ GivenEntries(q)' = GivenEntries(q) /\ Reports(q)' = Reports(q) /\ UsedEntries(q)' = UsedEntries(q)
      /\ Queue(q)!Count' = Queue(q)!Count /\ Queue(q)!Buffers' = Queue(q)!Buffers
      /\ Queue(q)!InHand = {qid} /\ Queue(q)!InHand' = {}
  BY <1>3 DEF GivenEntries, Reports, UsedEntries, Queue!Count, Queue!Buffers, Queue!InHand
<1>7. GivenEntries(q)[Queue(q)!Pending] = qid
  BY <1>3, QueueEntries DEF QueueDriverInv
<1>8. OneOwner(Queue(q)!Pending + 1, GivenEntries(q), Reports(q), UsedEntries(q), held, {}, Queue(q)!Buffers)
  <2>1. OneOwner(Queue(q)!Pending, GivenEntries(q), Reports(q), UsedEntries(q), held, {qid}, Queue(q)!Buffers)
    BY <1>6 DEF QueueOwned
  <2>2. QED
    BY <1>4, <1>7, <2>1, OwnerGives
<1>9. QueueOwned(q)'
  <2>1. OneOwner(Queue(q)!Pending', GivenEntries(q)', Reports(q)', UsedEntries(q)', held',
                 Queue(q)!InHand', Queue(q)!Buffers')
    BY <1>3, <1>5, <1>6, <1>8
  <2>2. Queue(q)!Pending' + Cardinality(held') + Reports(q)' + (IF qpc' = "idle" THEN 0 ELSE 1) = q.slots
    <3>1. Queue(q)!Pending + Cardinality(held) + Reports(q) + 1 = q.slots
      BY <1>3 DEF QueueOwned
    <3>2. QED
      BY <1>3, <1>4, <1>5, <1>6, <3>1
  <2>3. writing' => data'[used_ring'[used_idx' % q.size]] \in q.frames
    BY <1>3 DEF QueueOwned
  <2>4. QED
    BY <2>1, <2>2, <2>3 DEF QueueOwned
<1>10. QED
  BY <1>3, <1>6, <1>9

\* The device takes an entry.
LEMMA TakeOwned ==
  ASSUME NEW CONSTANT q, QueueConfigured(q), QueueDriverInv(q), qonline, QueueOwned(q), Queue(q)!DeviceTake
  PROVE  /\ qonline' /\ QueueOwned(q)'
         /\ Queue(q)!Count' = Queue(q)!Count
         /\ UNCHANGED <<used_ring, consumed, data, qpc, qid, got>>
<1>1. /\ q.size \in Nat \ {0} /\ IndexMod \in Nat \ {0} /\ IndexMod % q.size = 0
  BY QueueConstants
<1>2. available \in 0 .. IndexMod - 1 /\ seen \in 0 .. IndexMod - 1
  BY QueueTyped DEF QueueDriverInv
<1>3. /\ seen # available /\ held' = held \cup {avail_ring[seen % q.size]} /\ seen' = (seen + 1) % IndexMod
      /\ UNCHANGED <<avail_ring, available, consumed, outstanding, used_ring, used_idx, writing,
                     data, qpc, qid, got, qonline>>
  BY DEF Queue!DeviceTake, Queue!queue
<1>4. /\ Queue(q)!Pending \in Nat /\ Reports(q) \in Nat
      /\ IsFiniteSet(held) /\ Cardinality(held) \in Nat
  BY QueueNumbers
<1>5. Queue(q)!Pending > 0 /\ Queue(q)!Pending' = Queue(q)!Pending - 1
  <2>1. IndexMod \in Nat \ {0} /\ available \in 0 .. IndexMod - 1 /\ seen \in 0 .. IndexMod - 1 /\ seen # available
    BY <1>1, <1>2, <1>3
  <2>2. (available - seen) % IndexMod # 0
    BY ONLY <2>1, Further
  <2>3. (available - seen) % IndexMod > 0
    BY <1>4, <2>2 DEF Queue!Pending
  <2>4. (available - ((seen + 1) % IndexMod)) % IndexMod = ((available - seen) % IndexMod) - 1
    BY ONLY <2>1, <2>3, Further
  <2>5. QED
    BY <1>3, <2>3, <2>4 DEF Queue!Pending
<1>6. \A i \in Nat : GivenEntries(q)'[i] = GivenEntries(q)[i + 1]
  <2>1. \A i \in Nat : (((seen + 1) % IndexMod) + i) % q.size = (seen + (i + 1)) % q.size
    BY <1>1, <1>2, PlacesNext, ZenonT(40)
  <2>2. QED
    BY <1>3, <2>1 DEF GivenEntries
<1>7. /\ Reports(q)' = Reports(q) /\ UsedEntries(q)' = UsedEntries(q) /\ Queue(q)!Count' = Queue(q)!Count
      /\ Queue(q)!Buffers' = Queue(q)!Buffers /\ Queue(q)!InHand' = Queue(q)!InHand
      /\ held' = held \cup {GivenEntries(q)[0]}
  BY <1>3, QueueEntries DEF Reports, UsedEntries, Queue!Count, Queue!Buffers, Queue!InHand
<1>8. /\ GivenEntries(q)[0] \notin held
      /\ OneOwner(Queue(q)!Pending - 1, GivenEntries(q)', Reports(q), UsedEntries(q),
                  held \cup {GivenEntries(q)[0]}, Queue(q)!InHand, Queue(q)!Buffers)
  <2>1. \A i \in 0 .. Queue(q)!Pending - 2 : GivenEntries(q)'[i] = GivenEntries(q)[i + 1]
    BY <1>4, <1>6
  <2>2. OneOwner(Queue(q)!Pending, GivenEntries(q), Reports(q), UsedEntries(q), held, Queue(q)!InHand, Queue(q)!Buffers)
    BY DEF QueueOwned
  <2>3. QED
    BY <1>4, <1>5, <2>1, <2>2, OwnerTakes
<1>9. Cardinality(held') = Cardinality(held) + 1
  BY <1>4, <1>7, <1>8, FS_AddElement
<1>10. QueueOwned(q)'
  <2>1. OneOwner(Queue(q)!Pending', GivenEntries(q)', Reports(q)', UsedEntries(q)', held',
                 Queue(q)!InHand', Queue(q)!Buffers')
    BY <1>5, <1>7, <1>8
  <2>2. Queue(q)!Pending' + Cardinality(held') + Reports(q)' + (IF qpc' = "idle" THEN 0 ELSE 1) = q.slots
    <3>1. Queue(q)!Pending + Cardinality(held) + Reports(q) + (IF qpc = "idle" THEN 0 ELSE 1) = q.slots
      BY DEF QueueOwned
    <3>2. QED
      BY <1>3, <1>4, <1>5, <1>7, <1>9, <3>1
  <2>3. writing' => data'[used_ring'[used_idx' % q.size]] \in q.frames
    BY <1>3 DEF QueueOwned
  <2>4. QED
    BY <2>1, <2>2, <2>3 DEF QueueOwned
<1>11. QED
  BY <1>3, <1>7, <1>10

\* It fills a buffer, which neither a report nor the driver has.
LEMMA WriteOwned ==
  ASSUME NEW CONSTANT q, QueueConfigured(q), QueueDriverInv(q), qonline, QueueOwned(q),
         NEW b \in Queue(q)!Buffers, NEW f \in q.frames, Queue(q)!DeviceWrite(b, f)
  PROVE  /\ qonline' /\ QueueOwned(q)'
         /\ Queue(q)!Count' = Queue(q)!Count
         /\ \A i \in 0 .. Queue(q)!Count - 1 : data'[UsedEntries(q)'[i]] = data[UsedEntries(q)[i]]
         /\ qpc # "idle" => data'[qid] = data[qid]
         /\ UNCHANGED <<qpc, qid, got>>
<1>1. /\ q.slots \in 1 .. q.size /\ q.size \in Nat \ {0} /\ Queue(q)!Buffers = 0 .. q.slots - 1
  BY QueueConstants
<1>2. /\ consumed \in 0 .. IndexMod - 1 /\ used_idx \in 0 .. IndexMod - 1
      /\ used_ring \in [0 .. q.size - 1 -> 0 .. q.size]
      /\ data \in [0 .. q.slots - 1 -> q.frames \cup {Nobody}]
  BY QueueTyped DEF QueueDriverInv
<1>3. /\ b \in held /\ ~ writing /\ data' = [data EXCEPT ![b] = f]
      /\ used_ring' = [used_ring EXCEPT ![used_idx % q.size] = b]
      /\ held' = held \ {b} /\ writing' = TRUE
      /\ UNCHANGED <<avail_ring, available, consumed, outstanding, used_idx, seen, qpc, qid, got, qonline>>
  BY DEF Queue!DeviceWrite, Queue!queue
<1>4. /\ Queue(q)!Pending \in Nat /\ Queue(q)!Count \in Nat /\ Reports(q) = Queue(q)!Count
      /\ Reports(q) < q.slots /\ IsFiniteSet(held) /\ Cardinality(held) \in Nat
  BY <1>3, QueueNumbers
<1>5. /\ Queue(q)!Pending' = Queue(q)!Pending /\ GivenEntries(q)' = GivenEntries(q)
      /\ Queue(q)!Count' = Queue(q)!Count
      /\ Queue(q)!InHand' = Queue(q)!InHand /\ Queue(q)!Buffers' = Queue(q)!Buffers
  BY <1>3 DEF Queue!Pending, GivenEntries, Queue!Count, Queue!InHand, Queue!Buffers
<1>6. Reports(q)' = Queue(q)!Count + 1
  BY <1>3, <1>5 DEF Reports
<1>7. used_idx % q.size \in 0 .. q.size - 1
  BY <1>2, QueueConstants
<1>8. \A i \in 0 .. Queue(q)!Count - 1 : UsedEntries(q)'[i] = UsedEntries(q)[i]
  <2>1. SUFFICES ASSUME NEW i \in 0 .. Queue(q)!Count - 1
                 PROVE  used_ring'[(consumed + i) % q.size] = used_ring[(consumed + i) % q.size]
    BY <1>3, <1>4 DEF UsedEntries
  <2> DEFINE x == consumed + i
             y == consumed + Queue(q)!Count
  <2>2. x \in Int /\ y \in Int /\ x < y /\ y - x < q.size
    <3>1. Queue(q)!Count < q.slots /\ Queue(q)!Count \in Nat
      BY <1>4
    <3>2. Queue(q)!Count < q.size /\ consumed \in Int /\ q.size \in Nat
      BY <1>1, <1>2, <3>1
    <3>3. QED
      BY <3>1, <3>2, Within, Zenon
  <2>3. x % q.size # y % q.size
    BY <1>1, <2>2, Apart
  <2>4. y % q.size = used_idx % q.size
    BY QueueEntries
  <2>5. x % q.size \in 0 .. q.size - 1
    BY <2>2, QueueConstants
  <2> HIDE DEF x, y
  <2>6. used_ring'[x % q.size] = used_ring[x % q.size]
    BY <1>2, <1>3, <2>3, <2>4, <2>5
  <2>7. QED
    BY <2>6 DEF x
<1>9. UsedEntries(q)'[Queue(q)!Count] = b
  <2>1. UsedEntries(q)'[Queue(q)!Count] = used_ring'[(consumed + Queue(q)!Count) % q.size]
    BY <1>3, <1>4 DEF UsedEntries
  <2>2. (consumed + Queue(q)!Count) % q.size = used_idx % q.size
    BY QueueEntries
  <2>3. QED
    BY <1>2, <1>3, <1>7, <2>1, <2>2
<1>10. OneOwner(Queue(q)!Pending, GivenEntries(q), Queue(q)!Count, UsedEntries(q), held,
                Queue(q)!InHand, Queue(q)!Buffers)
  BY <1>4 DEF QueueOwned
<1>11. OneOwner(Queue(q)!Pending, GivenEntries(q), Queue(q)!Count + 1, UsedEntries(q)', held \ {b},
                Queue(q)!InHand, Queue(q)!Buffers)
  BY <1>3, <1>4, <1>8, <1>9, <1>10, OwnerWrites
<1>12. /\ \A i \in 0 .. Queue(q)!Count - 1 : data'[UsedEntries(q)'[i]] = data[UsedEntries(q)[i]]
       /\ qpc # "idle" => data'[qid] = data[qid]
  <2>1. \A i \in 0 .. Queue(q)!Count - 1 : UsedEntries(q)[i] # b /\ UsedEntries(q)[i] \in 0 .. q.slots - 1
    BY <1>1, <1>3, <1>10 DEF OneOwner, EachOnce
  <2>2. qpc # "idle" => qid # b /\ qid \in 0 .. q.slots - 1
    <3>1. qpc # "idle" => qid \in Queue(q)!InHand
      BY DEF Queue!InHand
    <3>2. Queue(q)!InHand \subseteq Queue(q)!Buffers /\ b \notin Queue(q)!InHand
      BY <1>3, <1>10 DEF OneOwner
    <3>3. QED
      BY <1>1, <3>1, <3>2
  <2>3. QED
    BY <1>2, <1>3, <1>8, <2>1, <2>2
<1>13. Cardinality(held') = Cardinality(held) - 1
  BY <1>3, <1>4, FS_RemoveElement
<1>14. QueueOwned(q)'
  <2>1. OneOwner(Queue(q)!Pending', GivenEntries(q)', Reports(q)', UsedEntries(q)', held',
                 Queue(q)!InHand', Queue(q)!Buffers')
    BY <1>3, <1>5, <1>6, <1>11
  <2>2. Queue(q)!Pending' + Cardinality(held') + Reports(q)' + (IF qpc' = "idle" THEN 0 ELSE 1) = q.slots
    <3>1. Queue(q)!Pending + Cardinality(held) + Reports(q) + (IF qpc = "idle" THEN 0 ELSE 1) = q.slots
      BY DEF QueueOwned
    <3>2. QED
      BY <1>3, <1>4, <1>5, <1>6, <1>13, <3>1
  <2>3. data'[used_ring'[used_idx' % q.size]] \in q.frames
    BY <1>1, <1>2, <1>3, <1>7
  <2>4. QED
    BY <2>1, <2>2, <2>3 DEF QueueOwned
<1>15. QED
  BY <1>3, <1>5, <1>12, <1>14

\* It publishes the report.
LEMMA ReportOwned ==
  ASSUME NEW CONSTANT q, QueueConfigured(q), QueueDriverInv(q), qonline, QueueOwned(q), Queue(q)!DevicePublish
  PROVE  /\ qonline' /\ QueueOwned(q)'
         /\ Queue(q)!Count' = Queue(q)!Count + 1 /\ Queue(q)!Count + 1 <= q.slots
         /\ qpc # "idle" => Queue(q)!Count + 1 < q.slots
         /\ data[UsedEntries(q)[Queue(q)!Count]] \in q.frames
         /\ UNCHANGED <<used_ring, consumed, data, qpc, qid, got>>
<1>1. q.slots \in 1 .. q.size /\ q.size \in Nat \ {0} /\ IndexMod \in Nat \ {0} /\ IndexMod > q.size
  BY QueueConstants
<1>2. consumed \in 0 .. IndexMod - 1 /\ used_idx \in 0 .. IndexMod - 1
  BY QueueTyped DEF QueueDriverInv
<1>3. /\ writing /\ used_idx' = (used_idx + 1) % IndexMod /\ writing' = FALSE
      /\ UNCHANGED <<avail_ring, available, consumed, outstanding, used_ring, seen, held, data,
                     qpc, qid, got, qonline>>
  BY DEF Queue!DevicePublish, Queue!queue
<1>4. /\ Queue(q)!Pending \in Nat /\ Queue(q)!Count \in Nat /\ Reports(q) = Queue(q)!Count + 1
      /\ Reports(q) <= q.slots /\ Cardinality(held) \in Nat
  BY <1>3, QueueNumbers
<1>5. Queue(q)!Count' = Queue(q)!Count + 1
  <2>1. (used_idx - consumed) % IndexMod < IndexMod - 1
    BY <1>1, <1>4 DEF Queue!Count
  <2>2. IndexMod \in Nat \ {0} /\ consumed \in 0 .. IndexMod - 1 /\ used_idx \in 0 .. IndexMod - 1
    BY <1>1, <1>2
  <2>3. (((used_idx + 1) % IndexMod) - consumed) % IndexMod = ((used_idx - consumed) % IndexMod) + 1
    BY ONLY <2>1, <2>2, Further
  <2>4. QED
    BY <1>3, <2>3 DEF Queue!Count
<1>6. Reports(q)' = Reports(q)
  BY <1>3, <1>4, <1>5 DEF Reports
<1>7. /\ Queue(q)!Pending' = Queue(q)!Pending /\ GivenEntries(q)' = GivenEntries(q)
      /\ UsedEntries(q)' = UsedEntries(q)
      /\ Queue(q)!InHand' = Queue(q)!InHand /\ Queue(q)!Buffers' = Queue(q)!Buffers
  BY <1>3 DEF Queue!Pending, GivenEntries, UsedEntries, Queue!InHand, Queue!Buffers
<1>8. data[UsedEntries(q)[Queue(q)!Count]] \in q.frames
  <2>1. UsedEntries(q)[Queue(q)!Count] = used_ring[used_idx % q.size]
    BY <1>4, QueueEntries DEF UsedEntries
  <2>2. QED
    BY <1>3, <2>1 DEF QueueOwned
<1>9. Queue(q)!Pending + Cardinality(held) + Reports(q) + (IF qpc = "idle" THEN 0 ELSE 1) = q.slots
  BY DEF QueueOwned
<1>10. qpc # "idle" => Queue(q)!Count + 1 < q.slots
  BY <1>1, <1>4, <1>9
<1>11. QueueOwned(q)'
  <2>1. OneOwner(Queue(q)!Pending', GivenEntries(q)', Reports(q)', UsedEntries(q)', held',
                 Queue(q)!InHand', Queue(q)!Buffers')
    BY <1>3, <1>6, <1>7 DEF QueueOwned
  <2>2. Queue(q)!Pending' + Cardinality(held') + Reports(q)' + (IF qpc' = "idle" THEN 0 ELSE 1) = q.slots
    BY <1>3, <1>6, <1>7, <1>9
  <2>3. QED
    BY <1>3, <2>1, <2>2 DEF QueueOwned
<1>12. QED
  BY <1>3, <1>4, <1>5, <1>8, <1>10, <1>11

\* After the set-up every buffer is available.
LEMMA QueueInitOwned ==
  ASSUME NEW CONSTANT q, QueueConfigured(q), Queue(q)!Init
  PROVE  qonline /\ QueueOwned(q)
<1>1. /\ q.slots \in 1 .. q.size /\ q.size \in Nat \ {0} /\ IndexMod \in Nat \ {0} /\ IndexMod > q.size
      /\ Queue(q)!Buffers = 0 .. q.slots - 1 /\ Queue(q)!Entries = 0 .. q.size - 1
  BY QueueConstants
<1>2. /\ avail_ring = [e \in 0 .. q.size - 1 |-> IF e < q.slots THEN e ELSE 0]
      /\ available = q.slots /\ consumed = 0 /\ used_idx = 0 /\ seen = 0 /\ held = {} /\ writing = FALSE
      /\ qpc = "idle" /\ qonline
  BY <1>1 DEF Queue!Init
<1>3. Queue(q)!Pending = q.slots /\ Queue(q)!Count = 0 /\ Reports(q) = 0
  <2>1. ASSUME NEW M \in Nat \ {0}, NEW n \in 0 .. M - 1 PROVE (n - 0) % M = n /\ (0 - 0) % M = 0
    OBVIOUS
  <2>2. q.slots \in 0 .. IndexMod - 1
    BY <1>1
  <2>3. Queue(q)!Pending = q.slots /\ Queue(q)!Count = 0
    BY <1>1, <1>2, <2>1, <2>2 DEF Queue!Pending, Queue!Count
  <2>4. QED
    BY <1>2, <2>3 DEF Reports
<1>4. \A i \in 0 .. q.slots - 1 : GivenEntries(q)[i] = i
  <2>1. SUFFICES ASSUME NEW i \in 0 .. q.slots - 1 PROVE GivenEntries(q)[i] = i
    OBVIOUS
  <2>2. ASSUME NEW S \in Nat \ {0}, NEW n \in 0 .. S - 1 PROVE (0 + n) % S = n
    OBVIOUS
  <2>3. i \in Nat /\ i \in 0 .. q.size - 1 /\ i < q.slots
    BY <1>1
  <2>4. (0 + i) % q.size = i
    BY <1>1, <2>2, <2>3
  <2>5. QED
    BY <1>2, <2>3, <2>4 DEF GivenEntries
<1>5. Queue(q)!InHand = {}
  BY <1>2 DEF Queue!InHand
<1>6. OneOwner(q.slots, GivenEntries(q), 0, UsedEntries(q), {}, {}, 0 .. q.slots - 1)
  <2>1. 0 .. 0 - 1 = {}
    OBVIOUS
  <2>2. QED
    BY <1>4, <2>1 DEF OneOwner, EachOnce
<1>7. Cardinality(held) = 0
  BY <1>2, FS_EmptySet
<1>8. q.slots + 0 + 0 + 0 = q.slots
  BY <1>1
<1>9. QED
  BY <1>1, <1>2, <1>3, <1>5, <1>6, <1>7, <1>8 DEF QueueOwned

\* What the owners say of the sets of buffers.
LEMMA QueueInvGives == ASSUME NEW CONSTANT q, QueueConfigured(q), QueueInv(q) PROVE Queue(q)!Safety
<1>1. Queue(q)!TypeOK /\ Queue(q)!CountsAgree /\ QueueDriverInv(q)
  BY DEF QueueInv, QueueDriverInv
<1>2. ASSUME ~ q.faulty
      PROVE  /\ UNION {Queue(q)!Given, held, Queue(q)!Filled, Queue(q)!Reported, Queue(q)!InHand} = Queue(q)!Buffers
             /\ Queue(q)!Pending + Cardinality(held) + Cardinality(Queue(q)!Filled) + Queue(q)!Count
                  + Cardinality(Queue(q)!InHand) = q.slots
  <2>1. QueueOwned(q)
    BY <1>2 DEF QueueInv
  <2>2. /\ Queue(q)!Pending \in Nat /\ Queue(q)!Count \in Nat /\ Reports(q) \in Nat
        /\ Cardinality(held) \in Nat
        /\ (writing => Reports(q) = Queue(q)!Count + 1) /\ (~ writing => Reports(q) = Queue(q)!Count)
    BY <1>1, <2>1, QueueNumbers
  <2>3. Queue(q)!Given = {GivenEntries(q)[i] : i \in 0 .. Queue(q)!Pending - 1}
    BY <2>2 DEF Queue!Given, GivenEntries
  <2>4. Queue(q)!Reported \cup Queue(q)!Filled = {UsedEntries(q)[i] : i \in 0 .. Reports(q) - 1}
    <3>1. Queue(q)!Reported = {UsedEntries(q)[i] : i \in 0 .. Queue(q)!Count - 1}
      BY <2>2 DEF Queue!Reported, UsedEntries
    <3>2. writing => Queue(q)!Filled = {UsedEntries(q)[Queue(q)!Count]}
      BY <1>1, <2>2, QueueEntries DEF Queue!Filled, UsedEntries
    <3>3. ~ writing => Queue(q)!Filled = {}
      BY DEF Queue!Filled
    <3>4. CASE writing
      <4>1. 0 .. Reports(q) - 1 = (0 .. Queue(q)!Count - 1) \cup {Queue(q)!Count}
        BY <2>2, <3>4
      <4>2. QED
        BY <3>1, <3>2, <3>4, <4>1
    <3>5. CASE ~ writing
      BY <2>2, <3>1, <3>3, <3>5
    <3>6. QED
      BY <3>4, <3>5
  <2>5. OneOwner(Queue(q)!Pending, GivenEntries(q), Reports(q), UsedEntries(q), held,
                 Queue(q)!InHand, Queue(q)!Buffers)
    BY <2>1 DEF QueueOwned
  <2>6. Queue(q)!Given \cup held \cup (Queue(q)!Reported \cup Queue(q)!Filled) \cup Queue(q)!InHand = Queue(q)!Buffers
    <3>1. Queue(q)!Given \subseteq Queue(q)!Buffers
      BY <2>3, <2>5 DEF OneOwner, EachOnce
    <3>2. Queue(q)!Reported \cup Queue(q)!Filled \subseteq Queue(q)!Buffers
      BY <2>4, <2>5 DEF OneOwner, EachOnce
    <3>3. held \subseteq Queue(q)!Buffers /\ Queue(q)!InHand \subseteq Queue(q)!Buffers
      BY <2>5 DEF OneOwner
    <3>4. \A b \in Queue(q)!Buffers : \/ b \in held \/ b \in Queue(q)!InHand \/ b \in Queue(q)!Given
                                      \/ b \in Queue(q)!Reported \cup Queue(q)!Filled
      BY <2>3, <2>4, <2>5 DEF OneOwner
    <3>5. QED
      BY <3>1, <3>2, <3>3, <3>4
  <2>7. Cardinality(Queue(q)!Filled) = (IF writing THEN 1 ELSE 0)
        /\ Cardinality(Queue(q)!InHand) = IF qpc = "idle" THEN 0 ELSE 1
    BY FS_Singleton, FS_EmptySet DEF Queue!Filled, Queue!InHand
  <2>8. Queue(q)!Pending + Cardinality(held) + Reports(q) + (IF qpc = "idle" THEN 0 ELSE 1) = q.slots
    BY <2>1 DEF QueueOwned
  <2>9. QED
    BY <2>2, <2>6, <2>7, <2>8
<1>3. Queue(q)!BuffersOwned
  <2>1. \A S : Queue(q)!Cardinality(S) = Cardinality(S)
    BY DEF Queue!Cardinality, Cardinality
  <2>2. QED
    BY <1>2, <2>1 DEF Queue!BuffersOwned
<1>4. QED
  BY <1>1, <1>3 DEF Queue!Safety

-----------------------------------------------------------------------------
(***************************************************************************)
(* The frames reported, and the one in hand, as a bounded queue.           *)
(***************************************************************************)
\* The i-th frame reported.
FrameAt(q) == [i \in Nat |-> data[UsedEntries(q)[i]]]

\* A sequence read from a function of the numbers, from 0.
From(e, n) == [i \in 1 .. n |-> e[i - 1]]

\* It is a sequence of that length.
LEMMA FromIsSeq ==
  ASSUME NEW D, NEW n \in Nat, NEW e, \A i \in 0 .. n - 1 : e[i] \in D
  PROVE  From(e, n) \in Seq(D) /\ Len(From(e, n)) = n /\ \A i \in 1 .. n : From(e, n)[i] = e[i - 1]
<1>1. \A i \in 1 .. n : i - 1 \in 0 .. n - 1
  OBVIOUS
<1>2. From(e, n) \in [1 .. n -> D]
  BY <1>1 DEF From
<1>3. QED
  BY <1>2 DEF From

\* The first of them taken in hand is still the first.
LEMMA FromFirst ==
  ASSUME NEW D, NEW n \in Nat, n > 0, NEW e, NEW f, \A i \in 0 .. n - 1 : e[i] \in D,
         \A i \in Nat : f[i] = e[i + 1]
  PROVE  <<e[0]>> \o From(f, n - 1) = <<>> \o From(e, n)
<1>1. From(e, n) \in Seq(D) /\ Len(From(e, n)) = n /\ \A i \in 1 .. n : From(e, n)[i] = e[i - 1]
  <2>1. \A i \in 0 .. n - 1 : e[i] \in D
    OBVIOUS
  <2>2. n \in Nat
    OBVIOUS
  <2>3. QED
    BY ONLY <2>1, <2>2, FromIsSeq
<1>2. \A i \in 0 .. (n - 1) - 1 : f[i] \in D
  <2>1. \A i \in 0 .. (n - 1) - 1 : i \in Nat /\ i + 1 \in 0 .. n - 1
    OBVIOUS
  <2>2. QED
    BY <2>1
<1>3. n - 1 \in Nat
  OBVIOUS
<1>4. /\ From(f, n - 1) \in Seq(D) /\ Len(From(f, n - 1)) = n - 1
      /\ \A i \in 1 .. n - 1 : From(f, n - 1)[i] = f[i - 1]
  <2>1. PICK m \in Nat : m = n - 1
    BY <1>3
  <2>2. \A i \in 0 .. m - 1 : f[i] \in D
    BY <1>2, <2>1
  <2>3. From(f, m) \in Seq(D) /\ Len(From(f, m)) = m /\ \A i \in 1 .. m : From(f, m)[i] = f[i - 1]
    <3>1. m \in Nat
      OBVIOUS
    <3>2. QED
      BY ONLY <2>2, <3>1, FromIsSeq
  <2>4. QED
    BY <2>1, <2>3
<1>5. e[0] \in D
  BY <1>3
<1>6. <<e[0]>> \in Seq(D) /\ Len(<<e[0]>>) = 1 /\ <<e[0]>>[1] = e[0]
  BY <1>5
<1> DEFINE s == <<e[0]>> \o From(f, n - 1)
<1>7. /\ s \in Seq(D) /\ Len(s) = 1 + (n - 1)
      /\ \A i \in 1 .. 1 + (n - 1) : s[i] = IF i <= 1 THEN <<e[0]>>[i] ELSE From(f, n - 1)[i - 1]
  BY <1>4, <1>6, ConcatProperties
<1>8. <<>> \o From(e, n) = From(e, n)
  BY <1>1, ConcatEmptySeq
<1> HIDE DEF s
<1>9. \A i \in 1 .. n : s[i] = From(e, n)[i]
  <2>1. SUFFICES ASSUME NEW i \in 1 .. n PROVE s[i] = e[i - 1]
    BY <1>1
  <2>2. CASE i = 1
    BY <1>6, <1>7, <2>2
  <2>3. CASE i # 1
    <3>1. s[i] = From(f, n - 1)[i - 1] /\ i - 1 \in 1 .. n - 1 /\ i - 2 \in Nat
      BY <1>7, <2>3
    <3>2. From(f, n - 1)[i - 1] = f[i - 2]
      BY <1>4, <3>1
    <3>3. f[i - 2] = e[i - 1]
      BY <3>1
    <3>4. QED
      BY <3>1, <3>2, <3>3
  <2>4. QED
    BY <2>2, <2>3
<1>10. s = From(e, n)
  <2>1. Len(s) = n
    BY <1>7
  <2>2. QED
    BY <1>1, <1>7, <1>9, <2>1, SeqEqual
<1>11. QED
  BY <1>8, <1>10 DEF s

\* One more is appended.
LEMMA FromMore ==
  ASSUME NEW D, NEW n \in Nat, NEW e, \A i \in 0 .. n : e[i] \in D, NEW h \in Seq(D)
  PROVE  h \o From(e, n + 1) = Append(h \o From(e, n), e[n]) /\ Len(h \o From(e, n)) = Len(h) + n
<1>1. From(e, n) \in Seq(D) /\ Len(From(e, n)) = n /\ \A i \in 1 .. n : From(e, n)[i] = e[i - 1]
  <2>1. \A i \in 0 .. n - 1 : e[i] \in D
    OBVIOUS
  <2>2. QED
    BY <2>1, FromIsSeq
<1>2. n + 1 \in Nat /\ n \in 0 .. n /\ (n + 1) - 1 = n
  OBVIOUS
<1>3. \A i \in 0 .. (n + 1) - 1 : e[i] \in D
  BY <1>2
<1>4. /\ From(e, n + 1) \in Seq(D) /\ Len(From(e, n + 1)) = n + 1
      /\ \A i \in 1 .. n + 1 : From(e, n + 1)[i] = e[i - 1]
  BY <1>2, <1>3, FromIsSeq
<1>5. /\ h \o From(e, n) \in Seq(D) /\ Len(h \o From(e, n)) = Len(h) + n
      /\ \A i \in 1 .. Len(h) + n : (h \o From(e, n))[i] = IF i <= Len(h) THEN h[i] ELSE From(e, n)[i - Len(h)]
  <2> DEFINE r == From(e, n)
  <2>1. r \in Seq(D) /\ Len(r) = n
    BY <1>1
  <2> HIDE DEF r
  <2>2. /\ h \o r \in Seq(D) /\ Len(h \o r) = Len(h) + Len(r)
        /\ \A i \in 1 .. Len(h) + Len(r) : (h \o r)[i] = IF i <= Len(h) THEN h[i] ELSE r[i - Len(h)]
    BY <2>1, ConcatProperties
  <2>3. /\ h \o r \in Seq(D) /\ Len(h \o r) = Len(h) + n
        /\ \A i \in 1 .. Len(h) + n : (h \o r)[i] = IF i <= Len(h) THEN h[i] ELSE r[i - Len(h)]
    BY <2>1, <2>2
  <2>4. QED
    BY <2>3 DEF r
<1>6. /\ h \o From(e, n + 1) \in Seq(D) /\ Len(h \o From(e, n + 1)) = Len(h) + (n + 1)
      /\ \A i \in 1 .. Len(h) + (n + 1) :
           (h \o From(e, n + 1))[i] = IF i <= Len(h) THEN h[i] ELSE From(e, n + 1)[i - Len(h)]
  <2> DEFINE r == From(e, n + 1)
  <2>1. r \in Seq(D) /\ Len(r) = n + 1
    BY <1>4
  <2> HIDE DEF r
  <2>2. /\ h \o r \in Seq(D) /\ Len(h \o r) = Len(h) + Len(r)
        /\ \A i \in 1 .. Len(h) + Len(r) : (h \o r)[i] = IF i <= Len(h) THEN h[i] ELSE r[i - Len(h)]
    BY <2>1, ConcatProperties
  <2>3. /\ h \o r \in Seq(D) /\ Len(h \o r) = Len(h) + (n + 1)
        /\ \A i \in 1 .. Len(h) + (n + 1) : (h \o r)[i] = IF i <= Len(h) THEN h[i] ELSE r[i - Len(h)]
    BY <2>1, <2>2
  <2>4. QED
    BY <2>3 DEF r
<1> DEFINE s == h \o From(e, n)
           t == h \o From(e, n + 1)
<1>7. Len(h) \in Nat
  BY LenProperties
<1>8. e[n] \in D
  BY <1>2
<1> HIDE DEF s, t
<1>9. /\ s \in Seq(D) /\ Len(s) = Len(h) + n /\ t \in Seq(D) /\ Len(t) = Len(h) + (n + 1)
      /\ \A i \in 1 .. Len(h) + n : s[i] = IF i <= Len(h) THEN h[i] ELSE From(e, n)[i - Len(h)]
      /\ \A i \in 1 .. Len(h) + (n + 1) : t[i] = IF i <= Len(h) THEN h[i] ELSE From(e, n + 1)[i - Len(h)]
  BY <1>5, <1>6 DEF s, t
<1>10. /\ Append(s, e[n]) \in Seq(D) /\ Len(Append(s, e[n])) = Len(s) + 1
       /\ \A i \in 1 .. Len(s) + 1 : Append(s, e[n])[i] = IF i <= Len(s) THEN s[i] ELSE e[n]
  BY <1>8, <1>9
<1>11. \A i \in 1 .. Len(t) : t[i] = Append(s, e[n])[i]
  <2>1. SUFFICES ASSUME NEW i \in 1 .. Len(h) + (n + 1) PROVE t[i] = Append(s, e[n])[i]
    BY <1>9
  <2>2. CASE i <= Len(h)
    <3>1. ASSUME NEW k \in Nat, i \in 1 .. k + (n + 1), i <= k
          PROVE  i \in 1 .. k + n /\ i <= k + n /\ i \in 1 .. (k + n) + 1
      BY <3>1
    <3>2. i \in 1 .. Len(h) + n /\ i <= Len(s) /\ i \in 1 .. Len(s) + 1
      BY <1>7, <1>9, <2>1, <2>2, <3>1
    <3>3. t[i] = h[i] /\ s[i] = h[i]
      BY <1>9, <2>1, <2>2, <3>2
    <3>4. QED
      BY <1>10, <3>2, <3>3
  <2>3. CASE i > Len(h) /\ i <= Len(h) + n
    <3>1. i - Len(h) \in 1 .. n /\ i - Len(h) \in 1 .. n + 1 /\ ~ (i <= Len(h)) /\ i \in 1 .. Len(h) + n
      BY <1>7, <2>3
    <3>2. t[i] = e[(i - Len(h)) - 1] /\ s[i] = e[(i - Len(h)) - 1]
      BY <1>1, <1>4, <1>9, <3>1
    <3>3. QED
      BY <1>7, <1>9, <1>10, <2>3, <3>2
  <2>4. CASE i = Len(h) + (n + 1)
    <3>1. i - Len(h) = n + 1 /\ ~ (i <= Len(h)) /\ n + 1 \in 1 .. n + 1 /\ ~ (i <= Len(h) + n) /\ i \in 1 .. Len(h) + n + 1
      BY <1>7, <2>4
    <3>2. t[i] = e[n]
      BY <1>2, <1>4, <1>9, <3>1
    <3>3. QED
      BY <1>7, <1>9, <1>10, <3>1, <3>2
  <2>5. ASSUME NEW k \in Nat, i \in 1 .. k + (n + 1)
        PROVE  i <= k \/ (i > k /\ i <= k + n) \/ i = k + (n + 1)
    BY <2>5
  <2>6. QED
    BY <1>7, <2>1, <2>2, <2>3, <2>4, <2>5
<1>12. t = Append(s, e[n])
  <2>1. Len(t) = Len(Append(s, e[n]))
    BY <1>7, <1>9, <1>10
  <2>2. QED
    BY <1>9, <1>10, <1>11, <2>1, SeqEqual
<1>13. QED
  BY <1>9, <1>12 DEF s, t

\* The one in hand leaves.
LEMMA FromTaken ==
  ASSUME NEW D, NEW x \in D, NEW s \in Seq(D)
  PROVE  <<x>> \o s # <<>> /\ Head(<<x>> \o s) = x /\ Tail(<<x>> \o s) = s /\ <<>> \o s = s
<1>1. <<x>> \in Seq(D) /\ Len(<<x>>) = 1 /\ <<x>>[1] = x
  OBVIOUS
<1> DEFINE t == <<x>> \o s
<1>2. /\ t \in Seq(D) /\ Len(t) = 1 + Len(s)
      /\ \A i \in 1 .. 1 + Len(s) : t[i] = IF i <= 1 THEN <<x>>[i] ELSE s[i - 1]
  BY <1>1, ConcatProperties
<1>3. Len(s) \in Nat
  BY LenProperties
<1> HIDE DEF t
<1>4. t # <<>>
  BY <1>2, <1>3
<1>5. Head(t) = x
  <2>1. t[1] = x
    BY <1>1, <1>2, <1>3
  <2>2. QED
    BY <1>2, <1>4, <2>1
<1>6. Tail(t) = s
  <2>1. /\ Tail(t) \in Seq(D) /\ Len(Tail(t)) = Len(t) - 1
        /\ \A i \in 1 .. Len(Tail(t)) : Tail(t)[i] = t[i + 1]
    BY <1>2, <1>4, HeadTailProperties
  <2>2. \A i \in 1 .. Len(s) : Tail(t)[i] = s[i]
    <3>1. SUFFICES ASSUME NEW i \in 1 .. Len(s) PROVE Tail(t)[i] = s[i]
      OBVIOUS
    <3>2. /\ i + 1 \in 1 .. 1 + Len(s) /\ ~ (i + 1 <= 1) /\ (i + 1) - 1 = i
          /\ i \in 1 .. Len(Tail(t))
      BY <1>2, <1>3, <2>1
    <3>3. QED
      BY <1>2, <2>1, <3>2
  <2>3. Len(Tail(t)) = Len(s)
    BY <1>2, <1>3, <2>1
  <2>4. QED
    BY <2>1, <2>2, <2>3, SeqEqual
<1>7. <<>> \o s = s
  BY ConcatEmptySeq
<1>8. QED
  BY <1>4, <1>5, <1>6, <1>7 DEF t

\* The frame in hand, and those reported behind it.
HandFrame == IF qpc = "popped" THEN <<data[qid]>> ELSE <<>>
Arrived(q) == HandFrame \o From(FrameAt(q), Queue(q)!Count)

\* They are the contents of the abstract queue.
LEMMA ArrivedIs ==
  ASSUME NEW CONSTANT q, QueueConfigured(q), QueueDriverInv(q), QueueDriverInv(q)'
  PROVE  /\ Queue(q)!Received!vars = <<Arrived(q), got, 0>>
         /\ Queue(q)!Received!vars' = <<Arrived(q)', got', 0>>
         /\ Queue(q)!Received!Take <=>
              Arrived(q) # <<>> /\ got' = Head(Arrived(q)) /\ Arrived(q)' = Tail(Arrived(q))
         /\ \A v : Queue(q)!Received!Push(v) <=>
              Len(Arrived(q)) < q.slots /\ Arrived(q)' = Append(Arrived(q), v) /\ got' = got
<1>1. consumed \in Int /\ Queue(q)!Count \in Nat /\ consumed' \in Int /\ Queue(q)!Count' \in Nat
  <2>1. IndexMod \in Nat \ {0} /\ Queue(q)!Index = 0 .. IndexMod - 1
    BY QueueConstants
  <2>2. /\ consumed \in 0 .. IndexMod - 1 /\ used_idx \in 0 .. IndexMod - 1
        /\ consumed' \in 0 .. IndexMod - 1 /\ used_idx' \in 0 .. IndexMod - 1
    BY <2>1 DEF QueueDriverInv, Queue!TypeOK
  <2>3. /\ (used_idx - consumed) % IndexMod \in 0 .. IndexMod - 1
        /\ (used_idx' - consumed') % IndexMod \in 0 .. IndexMod - 1
    BY <2>1, <2>2, Indices
  <2>4. 0 .. IndexMod - 1 \subseteq Nat /\ Nat \subseteq Int
    BY <2>1
  <2>5. QED
    BY <2>2, <2>3, <2>4, Zenon DEF Queue!Count
<1>2. [i \in 1 .. Queue(q)!Count |-> data[used_ring[(consumed + i - 1) % q.size]]]
        = From(FrameAt(q), Queue(q)!Count)
  <2> DEFINE n == Queue(q)!Count
             c == consumed
  <2>1. \A i \in 1 .. n : i - 1 \in Nat /\ c + i - 1 = c + (i - 1)
    BY <1>1
  <2> HIDE DEF n
  <2>2. \A i \in 1 .. n : FrameAt(q)[i - 1] = data[used_ring[(c + (i - 1)) % q.size]]
    BY <2>1 DEF FrameAt, UsedEntries
  <2>3. \A i \in 1 .. n : FrameAt(q)[i - 1] = data[used_ring[(c + i - 1) % q.size]]
    BY <2>1, <2>2
  <2>4. QED
    BY <2>3 DEF From, n
<1>3. [i \in 1 .. Queue(q)!Count' |-> data'[used_ring'[(consumed' + i - 1) % q.size]]]
        = From(FrameAt(q)', Queue(q)!Count')
  <2> DEFINE n == Queue(q)!Count'
             c == consumed'
  <2>1. \A i \in 1 .. n : i - 1 \in Nat /\ c + i - 1 = c + (i - 1)
    BY <1>1
  <2> HIDE DEF n
  <2>2. \A i \in 1 .. n : FrameAt(q)'[i - 1] = data'[used_ring'[(c + (i - 1)) % q.size]]
    BY <2>1 DEF FrameAt, UsedEntries
  <2>3. \A i \in 1 .. n : FrameAt(q)'[i - 1] = data'[used_ring'[(c + i - 1) % q.size]]
    BY <2>1, <2>2
  <2>4. QED
    BY <2>3 DEF From, n
<1>4. From(FrameAt(q), Queue(q)!Count)' = From(FrameAt(q)', Queue(q)!Count')
  BY DEF From
<1>5. /\ Queue(q)!Received!vars = <<Arrived(q), got, 0>>
      /\ Queue(q)!Received!vars' = <<Arrived(q)', got', 0>>
  BY <1>2, <1>3, <1>4, Zenon DEF Queue!Received!vars, Arrived, HandFrame
<1>6. QED
  BY <1>2, <1>3, <1>4, <1>5 DEF Queue!Received!Take, Queue!Received!Push, Arrived, HandFrame

\* What is reported are frames, or the contents of a buffer not yet filled.
LEMMA FramesReported ==
  ASSUME NEW CONSTANT q, QueueConfigured(q), QueueDriverInv(q), QueueOwned(q)
  PROVE  /\ \A i \in 0 .. Reports(q) - 1 : FrameAt(q)[i] \in q.frames \cup {Nobody}
         /\ \A i \in 0 .. Queue(q)!Count - 1 : FrameAt(q)[i] \in q.frames \cup {Nobody}
         /\ HandFrame \in Seq(q.frames \cup {Nobody}) /\ Len(HandFrame) = IF qpc = "popped" THEN 1 ELSE 0
         /\ From(FrameAt(q), Queue(q)!Count) \in Seq(q.frames \cup {Nobody})
<1>1. /\ Reports(q) \in Nat /\ Queue(q)!Count \in Nat /\ Queue(q)!Count <= Reports(q)
  BY QueueNumbers
<1>2. /\ data \in [0 .. q.slots - 1 -> q.frames \cup {Nobody}]
      /\ (qpc # "idle" => qid \in 0 .. q.slots - 1)
  BY QueueTyped DEF QueueDriverInv
<1>3. \A i \in 0 .. Reports(q) - 1 : UsedEntries(q)[i] \in 0 .. q.slots - 1
  BY QueueConstants DEF QueueOwned, OneOwner, EachOnce
<1>4. \A i \in 0 .. Reports(q) - 1 : FrameAt(q)[i] \in q.frames \cup {Nobody}
  <2>1. \A i \in 0 .. Reports(q) - 1 : i \in Nat
    OBVIOUS
  <2>2. QED
    BY <1>2, <1>3, <2>1 DEF FrameAt
<1>5. \A i \in 0 .. Queue(q)!Count - 1 : FrameAt(q)[i] \in q.frames \cup {Nobody}
  <2>1. \A i \in 0 .. Queue(q)!Count - 1 : i \in 0 .. Reports(q) - 1
    BY <1>1
  <2>2. QED
    BY <1>4, <2>1
<1>6. HandFrame \in Seq(q.frames \cup {Nobody}) /\ Len(HandFrame) = IF qpc = "popped" THEN 1 ELSE 0
  <2>1. CASE qpc = "popped"
    <3>1. data[qid] \in q.frames \cup {Nobody}
      BY <1>2, <2>1
    <3>2. QED
      BY <2>1, <3>1 DEF HandFrame
  <2>2. CASE qpc # "popped"
    BY <2>2 DEF HandFrame
  <2>3. QED
    BY <2>1, <2>2
<1>7. From(FrameAt(q), Queue(q)!Count) \in Seq(q.frames \cup {Nobody})
  BY ONLY <1>1, <1>5, FromIsSeq
<1>8. QED
  BY <1>4, <1>5, <1>6, <1>7

\* What moves nothing the driver reads leaves them.
LEMMA ArrivedKept ==
  ASSUME NEW CONSTANT q, Queue(q)!Count \in Nat, Queue(q)!Count' = Queue(q)!Count, HandFrame' = HandFrame,
         \A i \in 0 .. Queue(q)!Count - 1 : FrameAt(q)'[i] = FrameAt(q)[i]
  PROVE  Arrived(q)' = Arrived(q)
<1> DEFINE n == Queue(q)!Count
<1>1. From(FrameAt(q)', n) = From(FrameAt(q), n)
  <2>1. \A i \in 1 .. n : i - 1 \in 0 .. n - 1
    OBVIOUS
  <2> HIDE DEF n
  <2>2. \A i \in 1 .. n : FrameAt(q)'[i - 1] = FrameAt(q)[i - 1]
    BY <2>1 DEF n
  <2>3. QED
    BY <2>2 DEF From
<1>2. From(FrameAt(q), Queue(q)!Count)' = From(FrameAt(q)', Queue(q)!Count)
  BY DEF From
<1>3. QED
  BY <1>1, <1>2 DEF Arrived

\* Nor does what leaves the reports and the buffers.
LEMMA SameEntries ==
  ASSUME NEW CONSTANT q, UNCHANGED <<used_ring, consumed, data>>
  PROVE  FrameAt(q)' = FrameAt(q)
BY DEF FrameAt, UsedEntries

\* Frames come in one by one at the end, and leave in front when they are
\* copied; nothing else moves them.
LEMMA QueueStepOwned ==
  ASSUME NEW CONSTANT q, QueueConfigured(q), QueueDriverInv(q), ~ q.faulty, qonline, QueueOwned(q),
         [Queue(q)!Next]_(Queue(q)!vars)
  PROVE  /\ qonline' /\ QueueOwned(q)'
         /\ [Queue(q)!Received!Next]_(Queue(q)!Received!vars)
<1>1. QueueDriverInv(q)'
  BY QueueDriverStep
<1>2. /\ Queue(q)!Received!vars = <<Arrived(q), got, 0>>
      /\ Queue(q)!Received!vars' = <<Arrived(q)', got', 0>>
      /\ Queue(q)!Received!Take <=>
           Arrived(q) # <<>> /\ got' = Head(Arrived(q)) /\ Arrived(q)' = Tail(Arrived(q))
      /\ \A v : Queue(q)!Received!Push(v) <=>
           Len(Arrived(q)) < q.slots /\ Arrived(q)' = Append(Arrived(q), v) /\ got' = got
  BY <1>1, ArrivedIs
<1>3. Arrived(q)' = Arrived(q) /\ got' = got => [Queue(q)!Received!Next]_(Queue(q)!Received!vars)
  BY <1>2
<1>4. Queue(q)!Received!Take => [Queue(q)!Received!Next]_(Queue(q)!Received!vars)
  BY DEF Queue!Received!Next
<1>5. \A v \in q.frames : Queue(q)!Received!Push(v) => [Queue(q)!Received!Next]_(Queue(q)!Received!vars)
  BY DEF Queue!Received!Next
<1>6. Queue(q)!Count \in Nat /\ Queue(q)!Count <= q.slots /\ q.slots \in Nat
  <2>1. Queue(q)!Count \in Nat /\ Reports(q) \in Nat /\ Queue(q)!Count <= Reports(q) /\ Reports(q) <= q.slots
    BY QueueNumbers
  <2>2. q.slots \in 1 .. q.size /\ q.size \in Nat
    BY QueueConstants
  <2>3. QED
    BY <2>1, <2>2
<1>7. /\ \A i \in 0 .. Queue(q)!Count - 1 : FrameAt(q)[i] \in q.frames \cup {Nobody}
      /\ HandFrame \in Seq(q.frames \cup {Nobody}) /\ Len(HandFrame) = IF qpc = "popped" THEN 1 ELSE 0
      /\ From(FrameAt(q), Queue(q)!Count) \in Seq(q.frames \cup {Nobody})
  BY FramesReported
<1>8. From(FrameAt(q), Queue(q)!Count)' = From(FrameAt(q)', Queue(q)!Count')
  BY DEF From
<1>9. CASE Queue(q)!Pop
  <2>1. /\ qonline' /\ QueueOwned(q)'
        /\ qpc = "idle" /\ qpc' = "popped" /\ qid' = UsedEntries(q)[0] /\ Queue(q)!Count > 0
        /\ Queue(q)!Count' = Queue(q)!Count - 1
        /\ \A i \in Nat : UsedEntries(q)'[i] = UsedEntries(q)[i + 1]
        /\ UNCHANGED <<data, got>>
    BY <1>9, PopOwned
  <2>2. \A i \in Nat : FrameAt(q)'[i] = FrameAt(q)[i + 1]
    BY <2>1 DEF FrameAt
  <2>3. HandFrame = <<>> /\ HandFrame' = <<FrameAt(q)[0]>>
    BY <2>1 DEF HandFrame, FrameAt
  <2>4. <<FrameAt(q)[0]>> \o From(FrameAt(q)', Queue(q)!Count - 1) = <<>> \o From(FrameAt(q), Queue(q)!Count)
    <3>1. Queue(q)!Count \in Nat /\ Queue(q)!Count > 0
      BY <1>6, <2>1
    <3>2. \A i \in 0 .. Queue(q)!Count - 1 : FrameAt(q)[i] \in q.frames \cup {Nobody}
      BY <1>7
    <3>3. PICK n \in Nat : n = Queue(q)!Count
      BY <3>1
    <3>4. PICK D : D = q.frames \cup {Nobody}
      OBVIOUS
    <3>5. n > 0 /\ \A i \in 0 .. n - 1 : FrameAt(q)[i] \in D
      BY <3>1, <3>2, <3>3, <3>4
    <3>6. <<FrameAt(q)[0]>> \o From(FrameAt(q)', n - 1) = <<>> \o From(FrameAt(q), n)
      <4>1. n \in Nat
        OBVIOUS
      <4>2. QED
        BY ONLY <2>2, <3>5, <4>1, FromFirst, ZenonT(60)
    <3>7. QED
      BY <3>3, <3>6
  <2>5. Arrived(q)' = Arrived(q)
    BY <1>8, <2>1, <2>3, <2>4 DEF Arrived
  <2>6. QED
    BY <1>3, <2>1, <2>5
<1>10. CASE Queue(q)!Copy
  <2>1. qonline' /\ QueueOwned(q)' /\ Queue(q)!Count' = Queue(q)!Count /\ UNCHANGED <<used_ring, consumed, data, qid>>
    BY <1>10, SubmitOwned
  <2>2. qpc = "popped" /\ qpc' = "copied" /\ got' = data[qid]
    BY <1>10 DEF Queue!Copy
  <2>3. HandFrame = <<data[qid]>> /\ HandFrame' = <<>>
    BY <2>2 DEF HandFrame
  <2>4. data[qid] \in q.frames \cup {Nobody}
    BY <2>2, QueueTyped DEF QueueDriverInv
  <2> DEFINE s == From(FrameAt(q), Queue(q)!Count)
  <2>5. <<data[qid]>> \o s # <<>> /\ Head(<<data[qid]>> \o s) = data[qid] /\ Tail(<<data[qid]>> \o s) = s /\ <<>> \o s = s
    BY ONLY <1>7, <2>4, FromTaken
  <2>6. Arrived(q) = <<data[qid]>> \o s /\ Arrived(q)' = <<>> \o s
    BY <1>8, <2>1, <2>3, SameEntries DEF Arrived
  <2>7. QED
    BY <1>2, <1>4, <2>1, <2>2, <2>5, <2>6
<1>11. CASE Queue(q)!Submit
  <2>1. /\ qonline' /\ QueueOwned(q)' /\ Queue(q)!Count' = Queue(q)!Count /\ UNCHANGED <<used_ring, consumed, data, qid>>
        /\ qpc = "copied" /\ qpc' = "submitted" /\ got' = got
    BY <1>11, SubmitOwned
  <2>2. HandFrame' = HandFrame /\ FrameAt(q)' = FrameAt(q)
    BY <2>1, SameEntries DEF HandFrame
  <2>3. QED
    BY <1>3, <1>6, <2>1, <2>2, ArrivedKept
<1>12. CASE Queue(q)!Publish
  <2>1. /\ qonline' /\ QueueOwned(q)' /\ Queue(q)!Count' = Queue(q)!Count /\ UNCHANGED <<used_ring, consumed, data, got>>
        /\ qpc = "submitted" /\ qpc' = "idle"
    BY <1>12, PublishOwned
  <2>2. HandFrame' = HandFrame /\ FrameAt(q)' = FrameAt(q)
    BY <2>1, SameEntries DEF HandFrame
  <2>3. QED
    BY <1>3, <1>6, <2>1, <2>2, ArrivedKept
<1>13. CASE Queue(q)!DeviceTake
  <2>1. /\ qonline' /\ QueueOwned(q)' /\ Queue(q)!Count' = Queue(q)!Count
        /\ UNCHANGED <<used_ring, consumed, data, qpc, qid, got>>
    BY <1>13, TakeOwned
  <2>2. HandFrame' = HandFrame /\ FrameAt(q)' = FrameAt(q)
    BY <2>1, SameEntries DEF HandFrame
  <2>3. QED
    BY <1>3, <1>6, <2>1, <2>2, ArrivedKept
<1>14. ASSUME NEW b \in Queue(q)!Buffers, NEW f \in q.frames, Queue(q)!DeviceWrite(b, f)
       PROVE  qonline' /\ QueueOwned(q)' /\ [Queue(q)!Received!Next]_(Queue(q)!Received!vars)
  <2>1. /\ qonline' /\ QueueOwned(q)' /\ Queue(q)!Count' = Queue(q)!Count
        /\ \A i \in 0 .. Queue(q)!Count - 1 : data'[UsedEntries(q)'[i]] = data[UsedEntries(q)[i]]
        /\ (qpc # "idle" => data'[qid] = data[qid])
        /\ UNCHANGED <<qpc, qid, got>>
    BY <1>14, WriteOwned
  <2>2. HandFrame' = HandFrame
    BY <2>1 DEF HandFrame
  <2>3. \A i \in 0 .. Queue(q)!Count - 1 : FrameAt(q)'[i] = FrameAt(q)[i]
    <3>1. \A i \in 0 .. Queue(q)!Count - 1 : i \in Nat
      BY <1>6
    <3>2. QED
      BY <2>1, <3>1 DEF FrameAt
  <2>4. QED
    BY <1>3, <1>6, <2>1, <2>2, <2>3, ArrivedKept
<1>15. CASE Queue(q)!DevicePublish
  <2>1. /\ qonline' /\ QueueOwned(q)'
        /\ Queue(q)!Count' = Queue(q)!Count + 1 /\ Queue(q)!Count + 1 <= q.slots
        /\ (qpc # "idle" => Queue(q)!Count + 1 < q.slots)
        /\ data[UsedEntries(q)[Queue(q)!Count]] \in q.frames
        /\ UNCHANGED <<used_ring, consumed, data, qpc, qid, got>>
    BY <1>15, ReportOwned
  <2>2. HandFrame' = HandFrame /\ FrameAt(q)' = FrameAt(q)
    BY <2>1, SameEntries DEF HandFrame
  <2>3. FrameAt(q)[Queue(q)!Count] \in q.frames
    BY <1>6, <2>1 DEF FrameAt
  <2>4. \A i \in 0 .. Queue(q)!Count : FrameAt(q)[i] \in q.frames \cup {Nobody}
    <3>1. \A i \in 0 .. Queue(q)!Count : i \in 0 .. Queue(q)!Count - 1 \/ i = Queue(q)!Count
      BY <1>6
    <3>2. QED
      BY <1>7, <2>3, <3>1
  <2>5. /\ HandFrame \o From(FrameAt(q), Queue(q)!Count + 1)
             = Append(HandFrame \o From(FrameAt(q), Queue(q)!Count), FrameAt(q)[Queue(q)!Count])
        /\ Len(HandFrame \o From(FrameAt(q), Queue(q)!Count)) = Len(HandFrame) + Queue(q)!Count
    BY ONLY <1>6, <1>7, <2>4, FromMore
  <2>6. Arrived(q)' = Append(Arrived(q), FrameAt(q)[Queue(q)!Count])
    BY <1>8, <2>1, <2>2, <2>5 DEF Arrived
  <2>7. Len(Arrived(q)) < q.slots
    <3>1. Len(Arrived(q)) = (IF qpc = "popped" THEN 1 ELSE 0) + Queue(q)!Count
      BY <1>7, <2>5 DEF Arrived
    <3>2. (IF qpc = "popped" THEN 1 ELSE 0) + Queue(q)!Count < q.slots
      BY <1>6, <2>1
    <3>3. QED
      BY <3>1, <3>2
  <2>8. PICK v \in q.frames : v = FrameAt(q)[Queue(q)!Count]
    BY <2>3
  <2>9. Len(Arrived(q)) < q.slots /\ Arrived(q)' = Append(Arrived(q), v) /\ got' = got
    BY <2>1, <2>6, <2>7, <2>8
  <2>10. Queue(q)!Received!Push(v)
    BY <1>2, <2>9, Zenon
  <2>11. QED
    BY <1>5, <2>1, <2>10
<1>16. CASE UNCHANGED Queue(q)!vars
  <2>1. UNCHANGED <<avail_ring, available, used_ring, used_idx, consumed, outstanding, seen, held, writing,
                    data, qpc, qid, got, qonline>>
    BY <1>16 DEF Queue!vars, Queue!queue, Queue!device
  <2>2. Queue(q)!Count' = Queue(q)!Count /\ HandFrame' = HandFrame /\ FrameAt(q)' = FrameAt(q)
    BY <2>1, SameEntries DEF Queue!Count, HandFrame
  <2>3. QueueOwned(q)' = QueueOwned(q)
    BY <2>1 DEF QueueOwned, Queue!Pending, Reports, Queue!Count, GivenEntries, UsedEntries,
                Queue!InHand, Queue!Buffers
  <2>4. QED
    BY <1>3, <1>6, <2>1, <2>2, <2>3, ArrivedKept
<1>17. QED
  BY <1>9, <1>10, <1>11, <1>12, <1>13, <1>14, <1>15, <1>16, QueueHonest DEF Queue!Next

\* The invariant of a queue, for the theorem.
LEMMA QueueStepInv ==
  ASSUME NEW CONSTANT q, QueueConfigured(q), QueueInv(q), [Queue(q)!Next]_(Queue(q)!vars)
  PROVE  QueueInv(q)' /\ (~ q.faulty => [Queue(q)!Received!Next]_(Queue(q)!Received!vars))
<1>1. QueueDriverInv(q)'
  BY QueueDriverStep DEF QueueInv
<1>2. ASSUME ~ q.faulty
      PROVE  qonline' /\ QueueOwned(q)' /\ [Queue(q)!Received!Next]_(Queue(q)!Received!vars)
  BY <1>2, QueueStepOwned DEF QueueInv
<1>3. QED
  BY <1>1, <1>2 DEF QueueInv

\* It holds after the set-up, with nothing reported.
LEMMA QueueInitInv ==
  ASSUME NEW CONSTANT q, QueueConfigured(q), Queue(q)!Init
  PROVE  QueueInv(q) /\ Queue(q)!Received!Init
<1>1. QueueInv(q)
  BY QueueSetUp, QueueInitOwned DEF QueueInv
<1>2. qpc = "idle" /\ got = Nobody /\ used_idx = 0 /\ consumed = 0
  BY DEF Queue!Init
<1>3. Queue(q)!Count = 0
  <2>1. ASSUME NEW M \in Nat \ {0} PROVE (0 - 0) % M = 0
    OBVIOUS
  <2>2. QED
    BY <1>2, <2>1, QueueConstants DEF Queue!Count
<1>4. 1 .. Queue(q)!Count = {}
  BY <1>3
<1>5. Queue(q)!Received!Init
  <2>1. [i \in 1 .. Queue(q)!Count |-> data[used_ring[(consumed + i - 1) % q.size]]] = <<>>
    BY <1>4
  <2>2. QED
    BY <1>2, <2>1 DEF Queue!Received!Init
<1>6. QED
  BY <1>1, <1>5

-----------------------------------------------------------------------------
\* A step of the drivers side by side is a step of each of them or leaves it
\* as it is.
LEMMA StepOfEach ==
  ASSUME [DevicesNext]_<<part, vars, netVars, queueVars, irqVars>>
  PROVE  /\ [Next]_vars /\ [Net!Next]_(Net!vars)
         /\ part' = part
         /\ part = "queue" => [Queue(Honest)!Next]_(Queue(Honest)!vars)
         /\ part = "faulty" => [Queue(Lying)!Next]_(Queue(Lying)!vars)
         /\ part = "shared" => [Shared!Next]_(Shared!vars)
         /\ part = "full" => [Full!Next]_(Full!vars)
<1>1. UNCHANGED netVars => UNCHANGED Net!vars
  BY DEF netVars, Net!vars, Net!tasks
<1>2. UNCHANGED irqVars => UNCHANGED Shared!vars /\ UNCHANGED Full!vars
  BY DEF irqVars, Shared!vars, Full!vars
<1>3. UNCHANGED queueVars => UNCHANGED Queue(Honest)!vars /\ UNCHANGED Queue(Lying)!vars
  BY DEF queueVars, Queue!vars, Queue!queue, Queue!device
<1>4. CASE UNCHANGED <<part, vars, netVars, queueVars, irqVars>>
  BY <1>1, <1>2, <1>3, <1>4
<1>5. CASE DevicesNext
  BY <1>1, <1>2, <1>3, <1>5 DEF DevicesNext
<1>6. QED
  BY <1>4, <1>5

\* block.c beside the other drivers: what holds of a disk (DiskStaysSafe)
\* holds of the disk among them.
THEOREM DiskAmongDevices == DevicesSpec => DiskSafe
<1>1. DevicesInit => Init
  BY DEF DevicesInit
<1>2. [DevicesNext]_<<part, vars, netVars, queueVars, irqVars>> => [Next]_vars
  BY StepOfEach
<1>3. DevicesSpec => Spec
  BY <1>1, <1>2, PTL DEF DevicesSpec, Spec
<1>4. QED
  BY <1>3, DiskStaysSafe

\* net.c beside the other drivers: whatever the callers, the service and the
\* device do, an answer to an earlier request is not taken for a new one's,
\* buffers stay while the device may write them, and a reset cancels
\* everybody who waited before it.
THEOREM NetAmongDevices == DevicesSpec => NetSafe
<1>1. DevicesInit => Net!Init
  BY DEF DevicesInit
<1>2. [DevicesNext]_<<part, vars, netVars, queueVars, irqVars>> => [Net!Next]_(Net!vars)
  BY StepOfEach
<1>3. DevicesSpec => Net!Spec
  BY <1>1, <1>2, PTL DEF DevicesSpec, Net!Spec
<1>4. Net!Spec => Net!NetSafe
  BY NetStaysSafe, NetAssumption
<1>5. QED
  BY <1>3, <1>4 DEF NetSafe

\* virtio.c and net.c beside the other drivers: the driver's counters agree
\* across every wrap and whatever the device reports; with a device that keeps
\* the protocol every buffer is with one party at a time, and the frames reach
\* the driver in order, each once, as they were written.
THEOREM QueueAmongDevices == DevicesSpec => QueueSafe
<1> DEFINE honest == part = "queue" => QueueInv(Honest)
           lying == part = "faulty" => QueueInv(Lying)
           received == part = "queue" => [Queue(Honest)!Received!Next]_(Queue(Honest)!Received!vars)
<1>1. QueueConfigured(Honest) /\ QueueConfigured(Lying) /\ ~ Honest.faulty
  BY QueueAssumption DEF QueueConfigured, Honest
<1>2. DevicesInit => honest /\ lying /\ (part = "queue" => Queue(Honest)!Received!Init)
  <2>1. DevicesInit /\ part = "queue" => Queue(Honest)!Init
    BY DEF DevicesInit
  <2>2. DevicesInit /\ part = "faulty" => Queue(Lying)!Init
    BY DEF DevicesInit
  <2>3. QED
    BY <1>1, <2>1, <2>2, QueueInitInv
<1>3. honest /\ lying /\ [DevicesNext]_<<part, vars, netVars, queueVars, irqVars>>
        => honest' /\ lying' /\ received
  <2>1. SUFFICES ASSUME honest, lying, [DevicesNext]_<<part, vars, netVars, queueVars, irqVars>>
                 PROVE  honest' /\ lying' /\ received
    OBVIOUS
  <2>2. /\ part' = part
        /\ part = "queue" => [Queue(Honest)!Next]_(Queue(Honest)!vars)
        /\ part = "faulty" => [Queue(Lying)!Next]_(Queue(Lying)!vars)
    BY <2>1, StepOfEach
  <2>3. part = "queue" => QueueInv(Honest)' /\ [Queue(Honest)!Received!Next]_(Queue(Honest)!Received!vars)
    BY <1>1, <2>1, <2>2, QueueStepInv
  <2>4. part = "faulty" => QueueInv(Lying)'
    BY <1>1, <2>1, <2>2, QueueStepInv
  <2>5. QED
    BY <2>2, <2>3, <2>4
<1>4. honest /\ lying => (part = "queue" => Queue(Honest)!Safety) /\ (part = "faulty" => Queue(Lying)!Safety)
  BY <1>1, QueueInvGives
<1>5. received => [part = "queue" => [Queue(Honest)!Received!Next]_(Queue(Honest)!Received!vars)]_queueVars
  OBVIOUS
<1> HIDE DEF honest, lying, received
<1>6. QED
  BY <1>2, <1>3, <1>4, <1>5, PTL DEF DevicesSpec, QueueSafe

\* virtio_irq.c, isr.c and pic.c beside the other drivers, with routes for
\* all devices or too few: no line is pulled that nobody handles, none stays
\* in service, no configuration change is forgotten.
THEOREM RoutesAmongDevices == DevicesSpec => []RoutesSafe
<1>1. [DevicesNext]_<<part, vars, netVars, queueVars, irqVars>>
        => /\ part' = part
           /\ part = "shared" => [Shared!Next]_(Shared!vars)
           /\ part = "full" => [Full!Next]_(Full!vars)
  BY StepOfEach
<1>2. DevicesInit => (part = "shared" => Shared!Init) /\ (part = "full" => Full!Init)
  BY DEF DevicesInit
<1>3. Shared!Init /\ [][Shared!Next]_(Shared!vars) => []Shared!RoutesSafe
  BY Shared!StepsStaySafe, LinesAssumption
<1>4. Full!Init /\ [][Full!Next]_(Full!vars) => []Full!RoutesSafe
  BY Full!StepsStaySafe, LinesAssumption
<1>5. DevicesSpec /\ part = "shared" => []RoutesSafe
  <2>1. part = "shared" /\ part' = part => (part = "shared")'
    OBVIOUS
  <2>2. part = "shared" /\ Shared!RoutesSafe => RoutesSafe
    BY DEF RoutesSafe
  <2>3. QED
    BY <1>1, <1>2, <1>3, <2>1, <2>2, PTL DEF DevicesSpec
<1>6. DevicesSpec /\ part = "full" => []RoutesSafe
  <2>1. part = "full" /\ part' = part => (part = "full")'
    OBVIOUS
  <2>2. part = "full" /\ Full!RoutesSafe => RoutesSafe
    BY DEF RoutesSafe
  <2>3. QED
    BY <1>1, <1>2, <1>4, <2>1, <2>2, PTL DEF DevicesSpec
<1>7. DevicesSpec /\ part \notin {"shared", "full"} => []RoutesSafe
  <2>1. part \notin {"shared", "full"} /\ part' = part => (part \notin {"shared", "full"})'
    OBVIOUS
  <2>2. part \notin {"shared", "full"} => RoutesSafe
    BY DEF RoutesSafe
  <2>3. QED
    BY <1>1, <2>1, <2>2, PTL DEF DevicesSpec
<1>8. part = "shared" \/ part = "full" \/ part \notin {"shared", "full"}
  OBVIOUS
<1>9. QED
  BY <1>5, <1>6, <1>7, <1>8, PTL
=============================================================================
