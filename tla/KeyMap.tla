------------------------------- MODULE KeyMap -------------------------------
(***************************************************************************)
(* What the key store promises: a map from names to values with room for   *)
(* MaxEntries names, empty after every initialisation, and a reply to each *)
(* call.                                                                   *)
(***************************************************************************)
EXTENDS Integers, FiniteSets

CONSTANTS Names, Values, Capacities, MaxEntries, None,
          Acceptable(_),        \* values that may be stored
          Fits(_, _)            \* a value and the capacity a caller offers for it

VARIABLES ready, store, reply

vars == <<ready, store, reply>>

Code(c) == [code |-> c, value |-> None]
Stored == {n \in Names : store[n] # None}

Init == ready = FALSE /\ store = [n \in Names |-> None] /\ reply = Code(0)

Start == ready' = TRUE /\ store' = [n \in Names |-> None] /\ reply' = Code(0)

Set(n, v) ==
  \/ /\ ready /\ Acceptable(v) /\ (n \in Stored \/ Cardinality(Stored) < MaxEntries)
     /\ store' = [store EXCEPT ![n] = v]
     /\ reply' = Code(0)
     /\ UNCHANGED ready
  \/ /\ ~ready \/ ~Acceptable(v) \/ (n \notin Stored /\ Cardinality(Stored) = MaxEntries)
     /\ reply' = Code(-1)
     /\ UNCHANGED <<ready, store>>

Get(n, capacity) ==
  /\ reply' = IF ready /\ n \in Stored /\ Fits(store[n], capacity)
              THEN [code |-> 0, value |-> store[n]] ELSE Code(-1)
  /\ UNCHANGED <<ready, store>>

Delete(n) ==
  /\ store' = [store EXCEPT ![n] = None]
  /\ reply' = IF ready /\ n \in Stored THEN Code(0) ELSE Code(-1)
  /\ UNCHANGED ready

Count ==
  /\ reply' = Code(Cardinality(Stored))
  /\ UNCHANGED <<ready, store>>

Next ==
  \/ Start \/ Count
  \/ \E n \in Names : Delete(n)
  \/ \E n \in Names, v \in Values : Set(n, v)
  \/ \E n \in Names, c \in Capacities : Get(n, c)

Spec == Init /\ [][Next]_vars

=============================================================================
