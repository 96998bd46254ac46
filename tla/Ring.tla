-------------------------------- MODULE Ring --------------------------------
(***************************************************************************)
(* The ring between the PS/2 interrupt and its readers: drivers/input.c,   *)
(* and with the same steps the key buffer of drivers/keyboard.c, which     *)
(* keeps no count and whose copy cannot fail.                              *)
(*                                                                         *)
(* The interrupt runs on the BSP with interrupts off, so there is one      *)
(* producer; readers hold the mutation lock, so there is one reader.  Each *)
(* load or store of an index, and each access to a slot, is a step.  The   *)
(* code's acquire loads and release stores order a slot's contents with    *)
(* the index that publishes or frees it, as interleaving does.             *)
(***************************************************************************)
EXTENDS Integers, Sequences

CONSTANTS
  Items,
  None,
  Capacity,     \* INPUT_CAPACITY, BUFFER_SIZE
  MaxDropped    \* bound: refused items counted

ASSUME CapacityAssumption == Capacity \in Nat /\ Capacity > 1
ASSUME NoneAssumption == None \notin Items
ASSUME BoundAssumption == MaxDropped \in Nat

VARIABLES
  events, head, tail, dropped,
  prod,     \* the producer: idle, or with an item before the write or the publication
  item,     \* the item being pushed, None when idle
  cons,     \* the reader: idle, about to copy, or with a copy before consuming
  copy,     \* the item peeked
  got       \* the last item a reader took

vars == <<events, head, tail, dropped, prod, item, cons, copy, got>>

Indices == 0 .. Capacity - 1

Init ==
  /\ events = [i \in Indices |-> None]
  /\ head = 0 /\ tail = 0 /\ dropped = 0
  /\ prod = "idle" /\ item = None
  /\ cons = "idle" /\ copy = None /\ got = None

After(i) == (i + 1) % Capacity

\* Mutant: the ring is never full, and the indices may meet, which is how empty looks.
Full_Never(h, t) == FALSE

Full(h, t) == After(h) = t

(* input_push, buffer_push                                                 *)
PushCheck(v) ==
  /\ prod = "idle"
  /\ \/ /\ Full(head, tail) /\ dropped < MaxDropped
        /\ dropped' = dropped + 1 /\ UNCHANGED <<prod, item>>
     \/ /\ ~Full(head, tail)
        /\ prod' = "write" /\ item' = v /\ UNCHANGED dropped
  /\ UNCHANGED <<events, head, tail, cons, copy, got>>

PushWrite ==
  /\ prod = "write"
  /\ events' = [events EXCEPT ![head] = item]
  /\ prod' = "publish"
  /\ UNCHANGED <<head, tail, dropped, item, cons, copy, got>>

PushPublish ==
  /\ prod = "publish"
  /\ head' = After(head)
  /\ prod' = "idle" /\ item' = None
  /\ UNCHANGED <<events, tail, dropped, cons, copy, got>>

(* input_peek, then input_consume unless the copy to the user fails        *)
PeekCheck ==
  /\ cons = "idle" /\ tail # head
  /\ cons' = "copy"
  /\ UNCHANGED <<events, head, tail, dropped, prod, item, copy, got>>

PeekCopy ==
  /\ cons = "copy"
  /\ copy' = events[tail] /\ cons' = "peeked"
  /\ UNCHANGED <<events, head, tail, dropped, prod, item, got>>

CopyFails ==
  /\ cons = "peeked"
  /\ cons' = "idle" /\ copy' = None
  /\ UNCHANGED <<events, head, tail, dropped, prod, item, got>>

\* Mutant: consuming skips to the newest item.
Consume_All ==
  /\ cons = "peeked"
  /\ tail' = head
  /\ got' = copy /\ cons' = "idle" /\ copy' = None
  /\ UNCHANGED <<events, head, dropped, prod, item>>

Consume ==
  /\ cons = "peeked"
  /\ tail' = IF tail # head THEN After(tail) ELSE tail
  /\ got' = copy /\ cons' = "idle" /\ copy' = None
  /\ UNCHANGED <<events, head, dropped, prod, item>>

Next ==
  \/ (\E v \in Items : PushCheck(v)) \/ PushWrite \/ PushPublish
  \/ PeekCheck \/ PeekCopy \/ CopyFails \/ Consume

Spec == Init /\ [][Next]_vars

-----------------------------------------------------------------------------
(* Both indices stay inside the ring and each side is in one of its steps. *)
TypeOK ==
  /\ events \in [Indices -> Items \cup {None}]
  /\ head \in Indices /\ tail \in Indices /\ dropped \in 0 .. MaxDropped
  /\ prod \in {"idle", "write", "publish"} /\ item \in Items \cup {None}
  /\ cons \in {"idle", "copy", "peeked"} /\ copy \in Items \cup {None}
  /\ got \in Items \cup {None}

Used == (head - tail) % Capacity

(* The reader holds an item only while the ring has one, and what it has   *)
(* copied is still the oldest: the producer never writes the slot that is  *)
(* being read, and every slot between the indices has been written.        *)
ReaderSafe ==
  /\ cons \in {"copy", "peeked"} => Used > 0
  /\ cons = "peeked" => copy = events[tail]
  /\ prod # "idle" => Used < Capacity - 1 /\ item # None
  /\ prod = "publish" => events[head] = item
  /\ \A i \in Indices : i < Used => events[(tail + i) % Capacity] # None

(* The items between the indices, oldest first.                            *)
Waiting == [i \in 1 .. Used |-> events[(tail + i - 1) % Capacity]]

Queue == INSTANCE Fifo WITH
  Room <- Capacity - 1,
  queue <- Waiting

(* The ring is a queue: no interleaving of interrupt and reader loses,     *)
(* repeats, reorders or tears an item, or refuses one while there is room. *)
ImplementsFifo == Queue!Spec

(* The safety invariants together: indices, slots and the two sides        *)
(* agree.                                                                  *)
Safety ==
  /\ TypeOK
  /\ ReaderSafe

(* input.c: between interrupt and reader the ring is a queue (Fifo), and   *)
(* the reader copies no slot that is being written.                        *)
RingSafe == []Safety /\ ImplementsFifo
=============================================================================
