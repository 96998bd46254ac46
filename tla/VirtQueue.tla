------------------------------ MODULE VirtQueue ------------------------------
(***************************************************************************)
(* A virtqueue of drivers/virtio.c in the use drivers/net.c makes of it to *)
(* receive: every buffer is made available, the device fills buffers in    *)
(* any order and reports them in the used ring, the driver takes the       *)
(* reports in order, copies the frame out and makes the buffer available   *)
(* again.  The driver's steps are serialized by the interface's lock; the  *)
(* device (external) is concurrent and may, when Faulty, report anything.  *)
(* The indices are 16 bits wide in the code: they count modulo IndexMod.   *)
(***************************************************************************)
EXTENDS Integers, Sequences, FiniteSets

CONSTANTS
  Frames,
  None,
  Size,       \* entries of the rings, a power of two
  Slots,      \* receive buffers, at most Size
  IndexMod,   \* 2^16
  Faulty      \* whether the device may report buffers it does not have

SizeAssumption == Size \in Nat \ {0} /\ Slots \in 1 .. Size
IndexAssumption == IndexMod \in Nat /\ IndexMod % Size = 0 /\ IndexMod > Size
NoneAssumption == None \notin Frames /\ Faulty \in BOOLEAN

VARIABLES
  avail_ring, available,    \* written by the driver; available is also *avail_idx
  used_ring, used_idx,      \* written by the device
  consumed, outstanding,    \* the driver's count of reports taken and of buffers given
  data,                     \* the receive buffers
  pc, id,                   \* the driver inside receive_locked, and the buffer it handles
  got,                      \* the last frame it took
  online,
  seen, held, writing       \* the device: entries taken, buffers held, report not yet published

queue == <<avail_ring, available, consumed, outstanding>>
device == <<used_ring, used_idx, seen, held, writing>>
vars == <<queue, device, data, pc, id, got, online>>

Buffers == 0 .. Slots - 1
Entries == 0 .. Size - 1
Index == 0 .. IndexMod - 1

(* net_init: the rings are zeroed, then every buffer is submitted          *)
Init ==
  /\ avail_ring = [e \in Entries |-> IF e < Slots THEN e ELSE 0]
  /\ available = Slots /\ outstanding = Slots /\ consumed = 0
  /\ used_ring = [e \in Entries |-> 0] /\ used_idx = 0
  /\ data = [b \in Buffers |-> None]
  /\ pc = "idle" /\ id = 0 /\ got = None /\ online = TRUE
  /\ seen = 0 /\ held = {} /\ writing = FALSE

\* Mutant: the difference is taken without the width of the index.
Count_Wide == used_idx - consumed

Count == (used_idx - consumed) % IndexMod

Plausible == Count <= outstanding /\ used_ring[consumed % Size] < Size

(* virtio_pop, and the check of the buffer's number                        *)
Pop ==
  /\ pc = "idle" /\ online /\ Count # 0 /\ Plausible
  /\ consumed' = (consumed + 1) % IndexMod
  /\ outstanding' = outstanding - 1
  /\ id' = used_ring[consumed % Size]
  /\ \/ id' < Slots /\ pc' = "popped" /\ UNCHANGED online
     \/ id' >= Slots /\ online' = FALSE /\ UNCHANGED pc
  /\ UNCHANGED <<avail_ring, available, device, data, got>>

PopRefused ==
  /\ pc = "idle" /\ online /\ Count # 0 /\ ~Plausible
  /\ online' = FALSE
  /\ UNCHANGED <<queue, device, data, pc, id, got>>

\* Mutant: the buffer goes back before it is copied.
Copy_Late ==
  /\ pc = "popped"
  /\ pc' = "copied"
  /\ UNCHANGED <<queue, device, data, id, got, online>>

Copy ==
  /\ pc = "popped"
  /\ got' = data[id] /\ pc' = "copied"
  /\ UNCHANGED <<queue, device, data, id, online>>

(* virtio_submit: the entry first, then the index that publishes it.  The  *)
(* trap stands for the check in front of it.                               *)
Submit ==
  /\ pc = "copied"
  /\ IF outstanding >= Size
       THEN pc' = "trap" /\ UNCHANGED <<avail_ring, outstanding>>
       ELSE /\ pc' = "submitted"
            /\ outstanding' = outstanding + 1
            /\ avail_ring' = [avail_ring EXCEPT ![available % Size] = id]
  /\ UNCHANGED <<available, consumed, device, data, id, got, online>>

\* Mutant: the index stays while the next entry overwrites this one.
Publish_Stays ==
  /\ pc = "submitted"
  /\ available' = IF available = IndexMod - 1 THEN available ELSE available + 1
  /\ pc' = "idle"
  /\ UNCHANGED <<avail_ring, consumed, outstanding, device, data, id, got, online>>

Publish ==
  /\ pc = "submitted"
  /\ available' = (available + 1) % IndexMod /\ pc' = "idle"
  /\ UNCHANGED <<avail_ring, consumed, outstanding, device, data, id, got, online>>

(* stop, and later net_shutdown with net_init                              *)
Restart ==
  /\ ~online /\ pc = "idle"
  /\ avail_ring' = [e \in Entries |-> IF e < Slots THEN e ELSE 0]
  /\ available' = Slots /\ outstanding' = Slots /\ consumed' = 0
  /\ used_ring' = [e \in Entries |-> 0] /\ used_idx' = 0
  /\ data' = [b \in Buffers |-> None] /\ online' = TRUE
  /\ seen' = 0 /\ held' = {} /\ writing' = FALSE
  /\ UNCHANGED <<pc, id, got>>

-----------------------------------------------------------------------------
(* The device, while it is not reset *)
DeviceTake ==
  /\ online /\ seen # available
  /\ held' = held \cup {avail_ring[seen % Size]}
  /\ seen' = (seen + 1) % IndexMod
  /\ UNCHANGED <<queue, used_ring, used_idx, writing, data, pc, id, got, online>>

DeviceWrite(b, f) ==
  /\ online /\ b \in held /\ ~writing
  /\ data' = [data EXCEPT ![b] = f]
  /\ used_ring' = [used_ring EXCEPT ![used_idx % Size] = b]
  /\ held' = held \ {b} /\ writing' = TRUE
  /\ UNCHANGED <<queue, used_idx, seen, pc, id, got, online>>

DevicePublish ==
  /\ online /\ writing
  /\ used_idx' = (used_idx + 1) % IndexMod /\ writing' = FALSE
  /\ UNCHANGED <<queue, used_ring, seen, held, data, pc, id, got, online>>

DeviceLies(i, b) ==
  /\ online /\ Faulty
  /\ used_idx' = i /\ used_ring' = [used_ring EXCEPT ![consumed % Size] = b]
  /\ UNCHANGED <<queue, seen, held, writing, data, pc, id, got, online>>

Next ==
  \/ Pop \/ PopRefused \/ Copy \/ Submit \/ Publish \/ Restart
  \/ DeviceTake \/ (\E b \in Buffers, f \in Frames : DeviceWrite(b, f)) \/ DevicePublish
  \/ \E i \in Index, b \in 0 .. Size : DeviceLies(i, b)

Spec == Init /\ [][Next]_vars

-----------------------------------------------------------------------------
(* Indices keep their width, the driver handles only buffers it has and    *)
(* never reaches the trap of virtio_submit, whatever the device reports.   *)
TypeOK ==
  /\ available \in Index /\ consumed \in Index /\ used_idx \in Index /\ seen \in Index
  /\ outstanding \in 0 .. Size
  /\ avail_ring \in [Entries -> Buffers] /\ used_ring \in [Entries -> 0 .. Size]
  /\ data \in [Buffers -> Frames \cup {None}]
  /\ pc \in {"idle", "popped", "copied", "submitted"} 
  /\ id \in 0 .. Size /\ (pc # "idle" => id \in Buffers)
  /\ got \in Frames \cup {None} /\ online \in BOOLEAN
  /\ held \subseteq Buffers /\ writing \in BOOLEAN

(* The driver's counters agree across every wrap and whatever the device   *)
(* reports: what is outstanding is what was made available and not taken   *)
(* back, and while the interface works the buffers given and the one in    *)
(* hand are as many as there are.                                          *)
CountsAgree ==
  /\ outstanding = (available - consumed + IF pc = "submitted" THEN 1 ELSE 0) % IndexMod
  /\ online => outstanding + (IF pc \in {"popped", "copied"} THEN 1 ELSE 0) = Slots

(* The buffers published and not yet taken by the device, and the reports  *)
(* not yet taken by the driver                                             *)
Pending == (available - seen) % IndexMod
Given == {avail_ring[(seen + i) % Size] : i \in 0 .. Pending - 1}
Reported == {used_ring[(consumed + i) % Size] : i \in 0 .. Count - 1}
InHand == IF pc = "idle" THEN {} ELSE {id}
Filled == IF writing THEN {used_ring[used_idx % Size]} ELSE {}

(* With a device that keeps the protocol every buffer is with exactly one  *)
(* party at a time, so none is lost and none is written while it is read.  *)
BuffersOwned ==
  ~Faulty =>
    /\ UNION {Given, held, Filled, Reported, InHand} = Buffers
    /\ Pending + Cardinality(held) + Cardinality(Filled) + Count + Cardinality(InHand) = Slots

Received == INSTANCE Fifo WITH
  Items <- Frames, Room <- Slots, dropped <- 0,
  queue <- (IF pc = "popped" THEN <<data[id]>> ELSE <<>>) \o
           [i \in 1 .. Count |-> data[used_ring[(consumed + i - 1) % Size]]]

(* Frames reach the driver in the order in which the device reported them, *)
(* each once and as it was written, however often the indices wrap.        *)
ImplementsFifo == Received!Spec

(* The safety invariants together: the driver's counters are right, and    *)
(* so, with a correct device, are the owners.                              *)
Safety ==
  /\ TypeOK
  /\ CountsAgree
  /\ BuffersOwned
=============================================================================
