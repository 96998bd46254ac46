------------------------------ MODULE UserCopy ------------------------------
(***************************************************************************)
(* Copies between kernel and user memory: cpu/uaccess.c, its assembly with *)
(* the fix-up of faults, and the system call that takes an input event out *)
(* of its ring (syscall 51).                                               *)
(*                                                                         *)
(* One thread makes system calls.  Its process has been forked, so that    *)
(* pages may be shared copy-on-write with the other process; a sibling     *)
(* thread stores into the same memory from another CPU at any moment, also *)
(* between two bytes of a copy, and other CPUs use up memory.  Page tables *)
(* change only under the kernel lock, which a call holds to its end.  A    *)
(* frame is named by the page it backs: two processes share frames only of *)
(* the same page.                                                          *)
(***************************************************************************)
EXTENDS Integers, Sequences, FiniteSets

CONSTANTS
  PageSize, PageCount,   \* user addresses are 0 .. USER_ADDR_MAX - 1
  FrameCount,
  Lengths,               \* lengths and capacities that callers pass
  EventSize, MaxEvents,
  Stores                 \* bytes the sibling stores; 0 ends a string

Pages == 0 .. PageCount - 1
USER_ADDR_MAX == PageSize * PageCount
KernelByte == 2          \* what the kernel writes

SizeAssumption == PageSize \in Nat \ {0} /\ PageCount \in Nat \ {0} /\ EventSize \in Nat \ {0}

VARIABLES
  pte,       \* page -> its rights
  data,      \* page -> the bytes of its frame
  other,     \* page -> the frame of the other process: the same one, or its own
  kept,      \* page -> the bytes the other process was forked with
  call,      \* the system call in progress
  events     \* input events in the ring

child == <<other, kept>>
vars == <<pte, data, child, call, events>>

Blank == [k \in 1 .. PageSize |-> 0]
Idle == [pc |-> "idle"]

PageOf(a) == a \div PageSize
Offset(a) == (a % PageSize) + 1
Shared(p) == other[p] = "same"
FramesUsed == Cardinality({p \in Pages : pte[p] # "none"}) + Cardinality({p \in Pages : other[p] = "own"})

Init ==
  /\ pte \in [Pages -> {"none", "ro", "rw"}]
  /\ data \in [Pages -> {Blank, [k \in 1 .. PageSize |-> 1]}]
  /\ \A p \in Pages : pte[p] = "none" => data[p] = Blank
  /\ other = [p \in Pages |-> "none"] /\ kept = [p \in Pages |-> Blank]
  /\ call = Idle /\ events = 0

(***************************************************************************)
(* Checks                                                                  *)
(***************************************************************************)
is_user_range(addr, len) ==
  len = 0 \/ (addr # 0 /\ addr < USER_ADDR_MAX /\ len <= USER_ADDR_MAX - addr)

PagesOf(addr, len) == {p \in Pages : len > 0 /\ PageOf(addr) <= p /\ p <= PageOf(addr + len - 1)}

user_access_ok(addr, len, write) ==
  /\ is_user_range(addr, len)
  /\ \A p \in PagesOf(addr, len) :
       pte[p] \in (IF write THEN {"rw", "cow"} ELSE {"ro", "rw", "cow"})

(***************************************************************************)
(* cow_resolve: it fails on a page that is not copy-on-write, or when the  *)
(* page is shared and there is no memory.                                  *)
(***************************************************************************)
\* Mutant: a page that two processes have is taken for a private one.
CowReuse_Shared(p) ==
  /\ pte[p] = "cow"
  /\ pte' = [pte EXCEPT ![p] = "rw"]
  /\ UNCHANGED <<data, child>>

CowReuse(p) ==
  /\ pte[p] = "cow" /\ ~Shared(p)
  /\ pte' = [pte EXCEPT ![p] = "rw"]
  /\ UNCHANGED <<data, child>>

(* The new frame is this process's; the old one is left to the other.      *)
CowCopy(p) ==
  /\ pte[p] = "cow" /\ Shared(p) /\ FramesUsed < FrameCount
  /\ pte' = [pte EXCEPT ![p] = "rw"]
  /\ other' = [other EXCEPT ![p] = "own"]
  /\ UNCHANGED <<data, kept>>

cow_resolve(p) == CowReuse(p) \/ CowCopy(p)

CowFails(p) ==
  /\ pte[p] = "cow" => Shared(p)
  /\ UNCHANGED <<pte, data, child>>

(***************************************************************************)
(* The system calls.  A call ends in "done" with its result; a fault that  *)
(* nobody takes care of stops the machine.                                 *)
(***************************************************************************)
Done(result) == call' = [call EXCEPT !.pc = "done", !.result = result]

Begin(op, pc, addr, len) ==
  /\ call = Idle
  /\ call' = [pc |-> pc, op |-> op, addr |-> addr, len |-> len, i |-> 0, page |-> PageOf(addr),
              buf |-> <<>>, stored |-> {}, prepared |-> FALSE, result |-> 0]
  /\ UNCHANGED <<pte, data, child, events>>

(* Entry of copy_to_user and copy_from_user, once the range is checked. *)
Checked ==
  /\ call.pc = "check"
  /\ IF ~user_access_ok(call.addr, call.len, call.op # "from") THEN Done(-1)
     ELSE IF call.len = 0 THEN Done(0)
     ELSE call' = [call EXCEPT !.pc = IF call.op = "from" THEN "load" ELSE "store"]
  /\ UNCHANGED <<pte, data, child, events>>

\* Mutant: only faults on pages that are not present are recovered.
uaccess_fixup_NotPresent(a) == is_user_range(a, 1) /\ pte[PageOf(a)] = "none"

(* The fault comes from a registered instruction, in its direction, on its *)
(* operand and under the lock; whether the page was present is not asked.  *)
uaccess_fixup(a) == is_user_range(a, 1)

FaultFails(a) ==
  IF uaccess_fixup(a) THEN Done(-1)
  ELSE call' = [call EXCEPT !.pc = "panic"]

(* One byte to the user: the store, or its fault. *)
CopyByteTo ==
  LET a == call.addr + call.i IN
  /\ call.pc = "store"
  /\ \/ /\ pte[PageOf(a)] = "rw"
        /\ data' = [data EXCEPT ![PageOf(a)][Offset(a)] = KernelByte]
        /\ call' = [call EXCEPT !.i = @ + 1, !.stored = @ \cup {a},
                                !.pc = IF call.i + 1 = call.len THEN "copied" ELSE "store"]
        /\ UNCHANGED <<pte, child>>
     \/ pte[PageOf(a)] # "rw" /\ cow_resolve(PageOf(a)) /\ UNCHANGED call
     \/ pte[PageOf(a)] # "rw" /\ CowFails(PageOf(a)) /\ FaultFails(a)
  /\ UNCHANGED events

(* One byte from the user. *)
CopyByteFrom ==
  LET a == call.addr + call.i IN
  /\ call.pc = "load" /\ call.op = "from"
  /\ IF pte[PageOf(a)] = "none" THEN FaultFails(a)
     ELSE call' = [call EXCEPT !.i = @ + 1, !.buf = Append(@, data[PageOf(a)][Offset(a)]),
                               !.pc = IF call.i + 1 = call.len THEN "copied" ELSE "load"]
  /\ UNCHANGED <<pte, data, child, events>>

\* Mutant: the terminator is not looked for in the last place.
StringStep_Late(a) ==
  LET b == data[PageOf(a)][Offset(a)] IN
  IF ~user_access_ok(a, 1, FALSE) THEN Done(-1)
  ELSE IF call.i + 1 = call.len
  THEN call' = [call EXCEPT !.buf = Append(@, b), !.pc = "done", !.result = call.i]
  ELSE IF b = 0
  THEN call' = [call EXCEPT !.buf = Append(@, b), !.pc = "done", !.result = call.i]
  ELSE call' = [call EXCEPT !.buf = Append(@, b), !.i = @ + 1]

(* copy_user_string: a page is checked when its first byte is read. *)
StringStep(a) ==
  LET b == data[PageOf(a)][Offset(a)] IN
  IF (call.i = 0 \/ a % PageSize = 0) /\ ~user_access_ok(a, 1, FALSE) THEN Done(-1)
  ELSE IF b = 0
  THEN call' = [call EXCEPT !.buf = Append(@, b), !.pc = "done", !.result = call.i]
  ELSE call' = [call EXCEPT !.buf = Append(@, b), !.i = @ + 1,
                            !.pc = IF call.i + 1 = call.len THEN "done" ELSE "load",
                            !.result = IF call.i + 1 = call.len THEN -1 ELSE 0]

CopyString ==
  /\ call.pc = "load" /\ call.op = "string"
  /\ IF call.len = 0 \/ (call.i = 0 /\ ~is_user_range(call.addr, 1)) THEN Done(-1)
     ELSE StringStep(call.addr + call.i)
  /\ UNCHANGED <<pte, data, child, events>>

(***************************************************************************)
(* System call 51: prepare, look at the oldest event, copy it, and only    *)
(* then take it out of the ring.                                           *)
(***************************************************************************)
LastPage == PageOf(call.addr + call.len - 1)
Prepared == [call EXCEPT !.page = @ + 1, !.pc = IF call.page = LastPage THEN "peek" ELSE "prepare",
                         !.prepared = (call.page = LastPage)]

\* Mutant: only the first page is made private.
user_write_prepare_First ==
  /\ call.pc = "prepare"
  /\ \/ ~user_access_ok(call.addr, call.len, TRUE) /\ Done(-1) /\ UNCHANGED <<pte, data, child>>
     \/ /\ user_access_ok(call.addr, call.len, TRUE)
        /\ \/ pte[call.page] = "rw" /\ UNCHANGED <<pte, data, child>>
           \/ cow_resolve(call.page)
        /\ call' = [call EXCEPT !.pc = "peek", !.prepared = TRUE]
     \/ user_access_ok(call.addr, call.len, TRUE) /\ CowFails(call.page) /\ Done(-1)
  /\ UNCHANGED events

user_write_prepare ==
  /\ call.pc = "prepare"
  /\ \/ ~user_access_ok(call.addr, call.len, TRUE) /\ Done(-1) /\ UNCHANGED <<pte, data, child>>
     \/ /\ user_access_ok(call.addr, call.len, TRUE)
        /\ \/ pte[call.page] = "rw" /\ UNCHANGED <<pte, data, child>>
           \/ cow_resolve(call.page)
        /\ call' = Prepared
     \/ /\ user_access_ok(call.addr, call.len, TRUE) /\ pte[call.page] # "rw"
        /\ CowFails(call.page) /\ Done(-1)
  /\ UNCHANGED events

input_peek ==
  /\ call.pc = "peek"
  /\ IF events = 0 THEN Done(0) ELSE call' = [call EXCEPT !.pc = "check"]
  /\ UNCHANGED <<pte, data, child, events>>

\* Mutant: the event is taken although the copy may have failed.
CopyEnds_Always ==
  /\ call.pc = "copied" \/ (call.pc = "store" /\ call.op = "event")
  /\ Done(IF call.op = "event" THEN 1 ELSE 0)
  /\ events' = IF call.op = "event" THEN events - 1 ELSE events
  /\ UNCHANGED <<pte, data, child>>

(* The copy returns 0; the event, if it was one, is consumed. *)
CopyEnds ==
  /\ call.pc = "copied"
  /\ Done(IF call.op = "event" THEN 1 ELSE 0)
  /\ events' = IF call.op = "event" THEN events - 1 ELSE events
  /\ UNCHANGED <<pte, data, child>>

Return ==
  /\ call.pc = "done" /\ call' = Idle
  /\ UNCHANGED <<pte, data, child, events>>

(***************************************************************************)
(* The others.  fork shares every private page; the sibling stores where   *)
(* it may and faults where it must, which needs the lock.                  *)
(***************************************************************************)
Fork ==
  /\ call = Idle /\ \A p \in Pages : other[p] = "none"
  /\ other' = [p \in Pages |-> IF pte[p] = "none" THEN "none" ELSE "same"]
  /\ kept' = data
  /\ pte' = [p \in Pages |-> IF pte[p] = "rw" THEN "cow" ELSE pte[p]]
  /\ UNCHANGED <<data, call, events>>

OtherExits ==
  /\ call = Idle /\ \E p \in Pages : other[p] # "none"
  /\ other' = [p \in Pages |-> "none"] /\ kept' = [p \in Pages |-> Blank]
  /\ UNCHANGED <<pte, data, call, events>>

Unmap(p) ==
  /\ call = Idle /\ pte[p] # "none"
  /\ pte' = [pte EXCEPT ![p] = "none"]
  /\ data' = [data EXCEPT ![p] = Blank]
  /\ other' = [other EXCEPT ![p] = IF Shared(p) THEN "own" ELSE @]
  /\ UNCHANGED <<kept, call, events>>

SiblingStore(a, b) ==
  /\ pte[PageOf(a)] = "rw"
  /\ data' = [data EXCEPT ![PageOf(a)][Offset(a)] = b]
  /\ UNCHANGED <<pte, child, call, events>>

SiblingFault(p) ==
  /\ call = Idle /\ cow_resolve(p)
  /\ UNCHANGED <<call, events>>

InputEvent ==
  /\ events < MaxEvents
  /\ events' = events + 1
  /\ UNCHANGED <<pte, data, child, call>>

Next ==
  \/ \E addr \in 0 .. USER_ADDR_MAX, len \in Lengths :
       \/ Begin("to", "check", addr, len)
       \/ Begin("from", "check", addr, len)
       \/ Begin("string", "load", addr, len)
  \/ \E addr \in 1 .. USER_ADDR_MAX : Begin("event", "prepare", addr, EventSize)
  \/ Checked \/ CopyByteTo \/ CopyByteFrom \/ CopyString
  \/ user_write_prepare \/ input_peek \/ CopyEnds \/ Return
  \/ Fork \/ OtherExits \/ InputEvent
  \/ \E p \in Pages : Unmap(p) \/ SiblingFault(p)
  \/ \E a \in 0 .. USER_ADDR_MAX - 1, b \in Stores : SiblingStore(a, b)

Spec == Init /\ [][Next]_vars

(***************************************************************************)
(* Properties                                                              *)
(***************************************************************************)
(* Pages and copies have frames, and a call is at one of its places. *)
TypeOK ==
  /\ pte \in [Pages -> {"none", "ro", "rw", "cow"}]
  /\ other \in [Pages -> {"none", "same", "own"}]
  /\ FramesUsed <= FrameCount
  /\ events \in 0 .. MaxEvents
  /\ call.pc \in {"idle", "check", "prepare", "peek", "load", "store", "copied", "done", "panic"}

(* An allocation that fails while the kernel stores into a copy-on-write   *)
(* page makes the call fail; it never stops the kernel.                    *)
CopyNeverPanics == call.pc # "panic"

(* What the other process had when it was forked off it still has: the     *)
(* kernel writes through copy-on-write as the user would.                  *)
OthersKept == \A p \in Pages : Shared(p) => data[p] = kept[p]

(* After user_write_prepare no memory is needed any more: whatever other   *)
(* CPUs allocate, the copy that follows under the same lock cannot fail,   *)
(* so the event it shows is not shown again.                               *)
PreparedNeverFails == call.pc = "done" /\ call.op = "event" /\ call.prepared => call.result >= 0

(* The kernel stores a prefix of the range, the whole of it when it        *)
(* reports success, and nothing when a page of the range does not allow it. *)
StoresExact ==
  (call.pc = "done" /\ call.op \in {"to", "event"}) =>
    LET range == call.addr .. call.addr + call.len - 1 IN
    /\ \E n \in 0 .. call.len : call.stored = call.addr .. call.addr + n - 1
    /\ call.op = "to" /\ call.result = 0 => call.stored = range
    /\ call.stored # {} => \A a \in range : pte[PageOf(a)] \in {"rw", "cow"}

(* A string the kernel accepts ends at the place it says and nowhere       *)
(* before, although a sibling rewrites it meanwhile; nothing behind its    *)
(* end has been read.                                                      *)
StringTerminated ==
  (call.pc = "done" /\ call.op = "string" /\ call.result >= 0) =>
    /\ Len(call.buf) = call.result + 1 /\ Len(call.buf) <= call.len
    /\ \A k \in 1 .. Len(call.buf) : (call.buf[k] = 0) = (k = call.result + 1)

(* An event leaves the ring only when all of it is in the user's buffer. *)
EventDelivered ==
  [][events' < events => call.stored = call.addr .. call.addr + EventSize - 1]_vars

(* The safety invariants together: a call stores what it reports, into     *)
(* this process only, and never stops the kernel.                          *)
Safety ==
  /\ TypeOK
  /\ CopyNeverPanics
  /\ OthersKept
  /\ PreparedNeverFails
  /\ StoresExact
  /\ StringTerminated
=============================================================================
