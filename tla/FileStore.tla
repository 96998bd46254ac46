----------------------------- MODULE FileStore ------------------------------
(***************************************************************************)
(* What the writable file system promises: a set of named files, each a    *)
(* sequence of cells.  Files appear empty, disappear whole, and a write    *)
(* changes one file, at one place, filling a gap before it with zeros.     *)
(***************************************************************************)
EXTENDS Naturals, Sequences

CONSTANTS Names, Values, Zero, Absent, MaxSize

VARIABLE store

Init == store = [n \in Names |-> Absent]

Create(n) == store[n] = Absent /\ store' = [store EXCEPT ![n] = <<>>]

Remove(n) == store[n] # Absent /\ store' = [store EXCEPT ![n] = Absent]

(* s with k cells of value v from position o on.                           *)
Overwritten(s, o, k, v) ==
  [i \in 1 .. (IF o + k > Len(s) THEN o + k ELSE Len(s)) |->
     IF i \in o + 1 .. o + k THEN v ELSE IF i <= Len(s) THEN s[i] ELSE Zero]

Write(n, o, k, v) ==
  /\ store[n] # Absent /\ o + k <= MaxSize
  /\ store' = [store EXCEPT ![n] = Overwritten(@, o, k, v)]

Next ==
  \E n \in Names :
    \/ Create(n)
    \/ Remove(n)
    \/ \E o, k \in 0 .. MaxSize : \E v \in Values : Write(n, o, k, v)

Spec == Init /\ [][Next]_store
=============================================================================
