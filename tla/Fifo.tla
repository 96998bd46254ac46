-------------------------------- MODULE Fifo --------------------------------
(***************************************************************************)
(* A bounded queue: items leave in the order in which they came, an item   *)
(* is refused, and counted, only when the queue is full.                   *)
(***************************************************************************)
EXTENDS Naturals, Sequences

CONSTANTS Items, Room, None

VARIABLES queue, got, dropped

vars == <<queue, got, dropped>>

Init == queue = <<>> /\ got = None /\ dropped = 0

Push(v) == Len(queue) < Room /\ queue' = Append(queue, v) /\ UNCHANGED <<got, dropped>>

Refuse == Len(queue) = Room /\ dropped' = dropped + 1 /\ UNCHANGED <<queue, got>>

Take ==
  /\ queue # <<>>
  /\ got' = Head(queue) /\ queue' = Tail(queue)
  /\ UNCHANGED dropped

Next == (\E v \in Items : Push(v)) \/ Refuse \/ Take

Spec == Init /\ [][Next]_vars
=============================================================================
