--------------------------- MODULE ServicesProofs ---------------------------
(***************************************************************************)
(* Theorems about what programs use: the ring of events for any capacity   *)
(* and any items, the key store for any number of entries, any names,      *)
(* values, passphrases and sizes of blocks and buffers, the block cache    *)
(* for any files, pool, size of a block and hash function, and the         *)
(* decoders for any reports of the devices and any size of the queues.     *)
(***************************************************************************)
EXTENDS Services, SequenceTheorems, FiniteSetTheorems, WellFoundedInduction, TLAPS

USE CapacityAssumption, NoneAssumption, BoundAssumption

-----------------------------------------------------------------------------
(***************************************************************************)
(* Arithmetic of the indices, without remainders.                          *)
(***************************************************************************)
LEMMA AfterIs ==
  ASSUME NEW i \in Indices
  PROVE  After(i) = (IF i = Capacity - 1 THEN 0 ELSE i + 1) /\ After(i) \in Indices
<1>1. i \in 0 .. Capacity - 1
  BY DEF Indices
<1>2. CASE i = Capacity - 1
  BY <1>2 DEF After, Indices
<1>3. CASE i # Capacity - 1
  BY <1>1, <1>3 DEF After, Indices
<1>4. QED
  BY <1>2, <1>3

\* How far apart two indices are.
LEMMA DistanceIs ==
  ASSUME NEW h \in Indices, NEW t \in Indices
  PROVE  /\ (h - t) % Capacity = IF t <= h THEN h - t ELSE h - t + Capacity
         /\ (h - t) % Capacity \in Indices
BY DEF Indices

\* The slot k places after the head.
LEMMA SlotIs ==
  ASSUME NEW t \in Indices, NEW i \in Indices
  PROVE  (t + i) % Capacity = IF t + i < Capacity THEN t + i ELSE t + i - Capacity
BY DEF Indices

\* How many slots are in use.
LEMMA UsedIs ==
  ASSUME TypeOK
  PROVE  Used = (IF tail <= head THEN head - tail ELSE head - tail + Capacity) /\ Used \in Indices
BY DistanceIs DEF TypeOK, Used, Indices

LEMMA UsedNext ==
  ASSUME TypeOK'
  PROVE  Used' = (IF tail' <= head' THEN head' - tail' ELSE head' - tail' + Capacity) /\ Used' \in Indices
<1>1. head' \in Indices /\ tail' \in Indices
  BY DEF TypeOK
<1>2. Used' = (head' - tail') % Capacity
  BY DEF Used
<1>3. QED
  BY <1>1, <1>2, DistanceIs

-----------------------------------------------------------------------------
(***************************************************************************)
(* The invariant is Safety itself.                                         *)
(***************************************************************************)
LEMMA RingInit == Init => Safety
<1> SUFFICES ASSUME Init PROVE Safety
  OBVIOUS
<1>1. TypeOK
  BY DEF Init, TypeOK, Indices
<1>2. Used = 0
  BY <1>1, UsedIs DEF Init
<1>3. ReaderSafe
  BY <1>2 DEF ReaderSafe, Init, Indices
<1>4. QED
  BY <1>1, <1>3 DEF Safety

\* The type invariant.
LEMMA RingTyped == ASSUME TypeOK, [Next]_vars PROVE TypeOK'
<1>1. CASE Next
  <2>1. ASSUME NEW v \in Items, PushCheck(v) PROVE TypeOK'
    BY <2>1 DEF TypeOK, PushCheck
  <2>2. CASE PushWrite
    BY <2>2 DEF TypeOK, PushWrite
  <2>3. CASE PushPublish
    BY <2>3, AfterIs DEF TypeOK, PushPublish
  <2>4. CASE PeekCheck \/ PeekCopy \/ CopyFails
    BY <2>4 DEF TypeOK, PeekCheck, PeekCopy, CopyFails
  <2>5. CASE Consume
    BY <2>5, AfterIs DEF TypeOK, Consume
  <2>6. QED
    BY <1>1, <2>1, <2>2, <2>3, <2>4, <2>5 DEF Next
<1>2. CASE UNCHANGED vars
  BY <1>2 DEF TypeOK, vars
<1>3. QED
  BY <1>1, <1>2

\* What is in the ring, oldest first.
Oldest(n) == events[(tail + n) % Capacity]

\* The slot about to be written is not one of those in use.
LEMMA HeadIsFree ==
  ASSUME TypeOK, NEW i \in Indices, i < Used
  PROVE  (tail + i) % Capacity \in Indices /\ (tail + i) % Capacity # head
<1>1. head \in Indices /\ tail \in Indices
  BY DEF TypeOK
<1>2. (tail + i) % Capacity = IF tail + i < Capacity THEN tail + i ELSE tail + i - Capacity
  BY <1>1, SlotIs
<1>3. QED
  BY <1>1, <1>2, UsedIs DEF Indices

\* The oldest item is at the tail, and the slot past the youngest is the head.
LEMMA OldestIsFirst ==
  ASSUME TypeOK
  PROVE  (tail + 0) % Capacity = tail /\ (tail + Used) % Capacity = head
<1>1. head \in Indices /\ tail \in Indices /\ Used \in Indices /\ 0 \in Indices
  BY UsedIs DEF TypeOK, Indices
<1>2. (tail + 0) % Capacity = (IF tail + 0 < Capacity THEN tail + 0 ELSE tail + 0 - Capacity)
      /\ (tail + Used) % Capacity = IF tail + Used < Capacity THEN tail + Used ELSE tail + Used - Capacity
  BY <1>1, SlotIs
<1>3. QED
  BY <1>1, <1>2, UsedIs DEF Indices

\* No step of producer or reader breaks what keeps slots and copies apart.
LEMMA RingStep == ASSUME Safety, [Next]_vars PROVE Safety'
<1>0. TypeOK /\ ReaderSafe
  BY DEF Safety
<1>1. TypeOK'
  BY <1>0, RingTyped
<1>2. ReaderSafe'
  <2>1. ASSUME NEW v \in Items, PushCheck(v) PROVE ReaderSafe'
    <3>1. UNCHANGED <<head, tail, events, cons, copy>>
      BY <2>1 DEF PushCheck
    <3>2. Used' = Used
      BY <3>1 DEF Used
    <3>3. prod' # "idle" => Used < Capacity - 1 /\ item' # None /\ prod' # "publish"
      <4>1. CASE Full(head, tail)
        BY <2>1, <4>1 DEF PushCheck
      <4>2. CASE ~Full(head, tail)
        <5>1. Used # Capacity - 1
          <6>1. head \in Indices /\ tail \in Indices /\ After(head) # tail
            BY <1>0, <4>2 DEF Full, TypeOK
          <6>2. After(head) = IF head = Capacity - 1 THEN 0 ELSE head + 1
            BY <6>1, AfterIs
          <6>3. QED
            BY <1>0, <6>1, <6>2, UsedIs DEF Indices
        <5>2. QED
          BY <1>0, <2>1, <4>2, <5>1, UsedIs DEF PushCheck, Indices
      <4>3. QED
        BY <4>1, <4>2
    <3>4. QED
      BY <1>0, <3>1, <3>2, <3>3 DEF ReaderSafe
  <2>2. CASE PushWrite
    <3>1. /\ UNCHANGED <<head, tail, item, cons, copy>> /\ prod = "write" /\ prod' = "publish"
          /\ events' = [events EXCEPT ![head] = item]
      BY <2>2 DEF PushWrite
    <3>2. Used' = Used /\ head \in Indices /\ tail \in Indices
      BY <1>0, <3>1 DEF Used, TypeOK
    <3>3. \A i \in Indices : i < Used => events'[(tail + i) % Capacity] = events[(tail + i) % Capacity]
      BY <1>0, <3>1, HeadIsFree DEF TypeOK
    <3>4. cons = "peeked" => events'[tail] = events[tail]
      BY <1>0, <3>1, HeadIsFree, OldestIsFirst DEF TypeOK, ReaderSafe, Indices
    <3>5. events'[head] = item
      BY <1>0, <3>1 DEF TypeOK
    <3>6. QED
      BY <1>0, <3>1, <3>2, <3>3, <3>4, <3>5 DEF ReaderSafe
  <2>3. CASE PushPublish
    <3>1. /\ UNCHANGED <<events, tail, cons, copy>> /\ prod = "publish" /\ prod' = "idle" /\ head' = After(head)
      BY <2>3 DEF PushPublish
    <3>2. Used' = Used + 1 /\ Used \in Indices
      <4>1. head \in Indices /\ tail \in Indices /\ Used < Capacity - 1
        BY <1>0, <3>1 DEF ReaderSafe, TypeOK
      <4>2. head' = IF head = Capacity - 1 THEN 0 ELSE head + 1
        BY <3>1, <4>1, AfterIs
      <4>3. /\ Used = (IF tail <= head THEN head - tail ELSE head - tail + Capacity) /\ Used \in Indices
            /\ Used' = (IF tail <= head' THEN head' - tail ELSE head' - tail + Capacity) /\ Used' \in Indices
        BY <1>0, <1>1, <3>1, UsedIs, UsedNext
      <4>4. QED
        BY <4>1, <4>2, <4>3 DEF Indices
    <3>3. events[(tail + Used) % Capacity] # None
      BY <1>0, <3>1, OldestIsFirst DEF ReaderSafe
    <3>4. \A i \in Indices : i < Used' => events[(tail + i) % Capacity] # None
      BY <1>0, <3>2, <3>3 DEF ReaderSafe, Indices
    <3>5. QED
      BY <1>0, <3>1, <3>2, <3>4 DEF ReaderSafe, Indices
  <2>4. CASE PeekCheck \/ PeekCopy \/ CopyFails
    <3>1. UNCHANGED <<events, head, tail, prod, item>> /\ Used' = Used
      BY <2>4 DEF PeekCheck, PeekCopy, CopyFails, Used
    <3>2. cons' \in {"copy", "peeked"} => Used > 0
      <4>1. tail # head => Used > 0
        BY <1>0, UsedIs DEF TypeOK, Indices
      <4>2. QED
        BY <1>0, <2>4, <4>1 DEF PeekCheck, PeekCopy, CopyFails, ReaderSafe
    <3>3. cons' = "peeked" => copy' = events[tail]
      BY <1>0, <2>4 DEF PeekCheck, PeekCopy, CopyFails, ReaderSafe
    <3>4. QED
      BY <1>0, <3>1, <3>2, <3>3 DEF ReaderSafe
  <2>5. CASE Consume
    <3>1. /\ UNCHANGED <<events, head, prod, item>> /\ cons = "peeked" /\ cons' = "idle"
          /\ tail' = IF tail # head THEN After(tail) ELSE tail
      BY <2>5 DEF Consume
    <3>2. Used > 0 /\ Used \in Indices /\ Used' = Used - 1 /\ tail' = After(tail)
      <4>1. head \in Indices /\ tail \in Indices /\ Used > 0
        BY <1>0, <3>1 DEF ReaderSafe, TypeOK
      <4>2. Used = (IF tail <= head THEN head - tail ELSE head - tail + Capacity) /\ Used \in Indices
        BY <1>0, UsedIs
      <4>3. tail' = After(tail)
        BY <3>1, <4>1, <4>2 DEF Indices
      <4>4. tail' = IF tail = Capacity - 1 THEN 0 ELSE tail + 1
        BY <4>1, <4>3, AfterIs
      <4>5. Used' = (IF tail' <= head THEN head - tail' ELSE head - tail' + Capacity) /\ Used' \in Indices
        BY <1>1, <3>1, UsedNext
      <4>6. QED
        BY <4>1, <4>2, <4>3, <4>4, <4>5 DEF Indices
    <3>3. \A i \in Indices : i < Used' => (tail' + i) % Capacity = (tail + (i + 1)) % Capacity
      <4>1. tail \in Indices /\ tail' \in Indices
        BY <1>0, <1>1 DEF TypeOK
      <4>2. SUFFICES ASSUME NEW i \in Indices, i < Used' PROVE (tail' + i) % Capacity = (tail + (i + 1)) % Capacity
        OBVIOUS
      <4>3. i + 1 \in Indices
        BY <3>2, <4>2 DEF Indices
      <4>4. tail' = IF tail = Capacity - 1 THEN 0 ELSE tail + 1
        BY <3>2, <4>1, AfterIs
      <4> DEFINE t == tail'
                 j == i + 1
      <4>5. (t + i) % Capacity = IF t + i < Capacity THEN t + i ELSE t + i - Capacity
        BY <4>1, SlotIs
      <4>6. (tail + j) % Capacity = IF tail + j < Capacity THEN tail + j ELSE tail + j - Capacity
        BY <4>1, <4>3, SlotIs
      <4>7. QED
        BY <4>1, <4>4, <4>5, <4>6 DEF Indices
    <3>4. \A i \in Indices : i < Used' => events'[(tail' + i) % Capacity] # None
      BY <1>0, <3>1, <3>2, <3>3 DEF ReaderSafe, Indices
    <3>5. QED
      BY <1>0, <3>1, <3>2, <3>4 DEF ReaderSafe, Indices
  <2>6. CASE UNCHANGED vars
    BY <1>0, <2>6 DEF ReaderSafe, vars, Used
  <2>7. QED
    BY <2>1, <2>2, <2>3, <2>4, <2>5, <2>6 DEF Next
<1>3. QED
  BY <1>1, <1>2 DEF Safety

-----------------------------------------------------------------------------
(***************************************************************************)
(* The ring is a queue.                                                    *)
(***************************************************************************)
LEMMA SameSeq ==
  ASSUME NEW S, NEW r \in Seq(S), NEW s \in Seq(S), Len(r) = Len(s),
         \A i \in 1 .. Len(r) : r[i] = s[i]
  PROVE  r = s
OBVIOUS

\* The items between two indices.
LEMMA BetweenIs ==
  ASSUME NEW e \in [Indices -> Items \cup {None}], NEW h \in Indices, NEW t \in Indices, NEW u,
         u = (h - t) % Capacity,
         \A i \in Indices : i < u => e[(t + i) % Capacity] # None,
         NEW q, q = [i \in 1 .. u |-> e[(t + i - 1) % Capacity]]
  PROVE  /\ q \in Seq(Items) /\ Len(q) = u /\ u \in Nat
         /\ \A i \in 1 .. u : q[i] = e[(t + (i - 1)) % Capacity]
<1>1. u \in Indices /\ u \in Nat
  BY DistanceIs DEF Indices
<1>2. ASSUME NEW i \in 1 .. u
      PROVE  e[(t + i - 1) % Capacity] \in Items /\ e[(t + i - 1) % Capacity] = e[(t + (i - 1)) % Capacity]
  <2> DEFINE j == i - 1
  <2>1. j \in Indices /\ j < u
    BY <1>1 DEF Indices
  <2>2. (t + j) % Capacity = IF t + j < Capacity THEN t + j ELSE t + j - Capacity
    BY <2>1, SlotIs
  <2>3. (t + j) % Capacity \in Indices
    BY <2>1, <2>2 DEF Indices
  <2>4. e[(t + j) % Capacity] # None
    BY <2>1
  <2>5. t + i - 1 = t + j
    BY <1>1 DEF Indices
  <2> HIDE DEF j
  <2>6. e[(t + j) % Capacity] \in Items
    BY <2>3, <2>4
  <2>7. QED
    BY <2>5, <2>6 DEF j
<1>3. q \in [1 .. u -> Items]
  BY <1>2
<1>4. \A i \in 1 .. u : q[i] = e[(t + (i - 1)) % Capacity]
  BY <1>2
<1>5. q \in Seq(Items) /\ Len(q) = u
  BY <1>1, <1>3
<1>6. QED
  BY <1>1, <1>4, <1>5

\* What the abstract queue holds, slot by slot.
LEMMA WaitingIs ==
  ASSUME Safety
  PROVE  /\ Waiting \in Seq(Items) /\ Len(Waiting) = Used /\ Used \in Nat
         /\ \A i \in 1 .. Used : Waiting[i] = events[(tail + (i - 1)) % Capacity]
BY BetweenIs DEF Safety, TypeOK, ReaderSafe, Used, Waiting

LEMMA WaitingNext ==
  ASSUME Safety'
  PROVE  /\ Waiting' \in Seq(Items) /\ Len(Waiting') = Used' /\ Used' \in Nat
         /\ \A i \in 1 .. Used' : Waiting'[i] = events'[(tail' + (i - 1)) % Capacity]
<1>1. /\ events' \in [Indices -> Items \cup {None}] /\ head' \in Indices /\ tail' \in Indices
      /\ \A i \in Indices : i < Used' => events'[(tail' + i) % Capacity] # None
  BY DEF Safety, TypeOK, ReaderSafe
<1>2. Used' = (head' - tail') % Capacity
  BY DEF Used
<1>3. Waiting' = [i \in 1 .. Used' |-> events'[(tail' + i - 1) % Capacity]]
  BY DEF Waiting
<1>4. QED
  BY <1>1, <1>2, <1>3, BetweenIs

\* Every step of the ring is a step of the bounded queue.
LEMMA FifoStep == ASSUME Safety, Safety', [Next]_vars PROVE [Queue!Next]_(Queue!vars)
<1> USE DEF Queue!vars
<1>0. TypeOK /\ ReaderSafe /\ TypeOK' /\ ReaderSafe'
  BY DEF Safety
<1>1. /\ Waiting \in Seq(Items) /\ Len(Waiting) = Used /\ Used \in Nat /\ Used \in Indices
      /\ \A i \in 1 .. Used : Waiting[i] = events[(tail + (i - 1)) % Capacity]
  BY <1>0, WaitingIs, UsedIs
<1>2. /\ Waiting' \in Seq(Items) /\ Len(Waiting') = Used' /\ Used' \in Nat
      /\ \A i \in 1 .. Used' : Waiting'[i] = events'[(tail' + (i - 1)) % Capacity]
  BY WaitingNext
<1>3. ASSUME UNCHANGED <<events, head, tail>> PROVE Waiting' = Waiting
  BY <1>3 DEF Waiting, Used
<1>4. ASSUME NEW v \in Items, PushCheck(v) PROVE [Queue!Next]_(Queue!vars)
  <2>1. Waiting' = Waiting /\ got' = got
    BY <1>3, <1>4 DEF PushCheck
  <2>2. CASE dropped' = dropped
    BY <2>1, <2>2
  <2>3. CASE Full(head, tail) /\ dropped' = dropped + 1
    <3>1. head \in Indices /\ tail \in Indices /\ After(head) = tail
      BY <1>0, <2>3 DEF TypeOK, Full
    <3>2. After(head) = IF head = Capacity - 1 THEN 0 ELSE head + 1
      BY <3>1, AfterIs
    <3>3. Used = Capacity - 1
      BY <1>0, <3>1, <3>2, UsedIs DEF Indices
    <3>4. Queue!Refuse
      BY <1>1, <2>1, <2>3, <3>3 DEF Queue!Refuse
    <3>5. QED
      BY <3>4 DEF Queue!Next
  <2>4. QED
    BY <1>4, <2>2, <2>3 DEF PushCheck
<1>5. CASE PushWrite
  <2>1. /\ UNCHANGED <<head, tail, dropped, got>> /\ events' = [events EXCEPT ![head] = item]
    BY <1>5 DEF PushWrite
  <2>2. Used' = Used
    BY <2>1 DEF Used
  <2>3. ASSUME NEW i \in 1 .. Used PROVE Waiting'[i] = Waiting[i]
    <3> DEFINE j == i - 1
    <3>1. j \in Indices /\ j < Used
      BY <1>1 DEF Indices
    <3>2. (tail + j) % Capacity \in Indices /\ (tail + j) % Capacity # head
      BY <1>0, <3>1, HeadIsFree
    <3>3. events'[(tail + j) % Capacity] = events[(tail + j) % Capacity]
      BY <1>0, <2>1, <3>2 DEF TypeOK
    <3>4. QED
      BY <1>1, <1>2, <2>1, <2>2, <3>3
  <2>4. Waiting' = Waiting
    BY <1>1, <1>2, <2>2, <2>3, SameSeq
  <2>5. QED
    BY <2>1, <2>4
<1>6. CASE PushPublish
  <2>1. /\ UNCHANGED <<events, tail, dropped, got>> /\ prod = "publish" /\ head' = After(head)
    BY <1>6 DEF PushPublish
  <2>2. head \in Indices /\ tail \in Indices /\ Used < Capacity - 1 /\ events[head] = item /\ item \in Items
    BY <1>0, <2>1 DEF TypeOK, ReaderSafe
  <2>3. head' = IF head = Capacity - 1 THEN 0 ELSE head + 1
    BY <2>1, <2>2, AfterIs
  <2>4. Used' = Used + 1
    <3>1. /\ Used = (IF tail <= head THEN head - tail ELSE head - tail + Capacity)
          /\ Used' = (IF tail <= head' THEN head' - tail ELSE head' - tail + Capacity)
      BY <1>0, <2>1, UsedIs, UsedNext
    <3>2. QED
      BY <2>2, <2>3, <3>1 DEF Indices
  <2>5. (tail + Used) % Capacity = head
    BY <1>0, OldestIsFirst
  <2> DEFINE q == Append(Waiting, item)
  <2>6. /\ q \in Seq(Items) /\ Len(q) = Used + 1 /\ q[Used + 1] = item
        /\ \A i \in 1 .. Used : q[i] = Waiting[i]
    BY <1>1, <2>2
  <2>7. ASSUME NEW i \in 1 .. Used + 1 PROVE Waiting'[i] = q[i]
    <3>1. CASE i = Used + 1
      <4>1. i - 1 = Used
        BY <1>1, <3>1
      <4>2. Waiting'[i] = item
        BY <1>2, <2>1, <2>2, <2>4, <2>5, <4>1
      <4>3. QED
        BY <2>6, <3>1, <4>2
    <3>2. CASE i # Used + 1
      <4>1. i \in 1 .. Used
        BY <1>1, <3>2
      <4> HIDE DEF q
      <4>2. QED
        BY <1>1, <1>2, <2>1, <2>4, <2>6, <4>1
    <3>3. QED
      BY <3>1, <3>2
  <2> HIDE DEF q
  <2>8. Waiting' = q
    BY <1>2, <2>4, <2>6, <2>7, SameSeq
  <2>9. Queue!Push(item)
    BY <1>1, <2>1, <2>2, <2>8 DEF Queue!Push, q
  <2>10. QED
    BY <2>2, <2>9 DEF Queue!Next
<1>7. CASE PeekCheck \/ PeekCopy \/ CopyFails
  BY <1>3, <1>7 DEF PeekCheck, PeekCopy, CopyFails
<1>8. CASE Consume
  <2>1. /\ UNCHANGED <<events, head, dropped>> /\ cons = "peeked" /\ got' = copy
        /\ tail' = IF tail # head THEN After(tail) ELSE tail
    BY <1>8 DEF Consume
  <2>2. head \in Indices /\ tail \in Indices /\ tail' \in Indices /\ Used > 0 /\ copy = events[tail]
    BY <1>0, <2>1 DEF TypeOK, ReaderSafe
  <2>3. /\ Used = (IF tail <= head THEN head - tail ELSE head - tail + Capacity)
        /\ Used' = (IF tail' <= head THEN head - tail' ELSE head - tail' + Capacity)
    BY <1>0, <2>1, UsedIs, UsedNext
  <2>4. tail' = IF tail = Capacity - 1 THEN 0 ELSE tail + 1
    <3>1. tail' = After(tail)
      BY <2>1, <2>2, <2>3 DEF Indices
    <3>2. QED
      BY <2>2, <3>1, AfterIs
  <2>5. Used' = Used - 1
    BY <2>2, <2>3, <2>4 DEF Indices
  <2>6. /\ Waiting # <<>> /\ Head(Waiting) = Waiting[1] /\ Tail(Waiting) \in Seq(Items)
        /\ Len(Tail(Waiting)) = Used - 1
        /\ \A i \in 1 .. Used - 1 : Tail(Waiting)[i] = Waiting[i + 1]
    BY <1>1, <2>2
  <2>7. Waiting[1] = events[tail]
    BY <1>0, <1>1, <2>2, OldestIsFirst
  <2>8. ASSUME NEW i \in 1 .. Used - 1 PROVE Waiting'[i] = Tail(Waiting)[i]
    <3> DEFINE k == i - 1
               t == tail'
    <3>1. i \in Indices /\ k \in Indices /\ i + 1 \in 1 .. Used /\ (i + 1) - 1 = i
      BY <1>1 DEF Indices
    <3>2. (t + k) % Capacity = IF t + k < Capacity THEN t + k ELSE t + k - Capacity
      BY <2>2, <3>1, SlotIs
    <3>3. (tail + i) % Capacity = IF tail + i < Capacity THEN tail + i ELSE tail + i - Capacity
      BY <2>2, <3>1, SlotIs
    <3>4. (t + k) % Capacity = (tail + i) % Capacity
      BY <2>2, <2>4, <3>1, <3>2, <3>3 DEF Indices
    <3>5. Waiting'[i] = events[(t + k) % Capacity]
      BY <1>2, <2>1, <2>5
    <3>6. Waiting[i + 1] = events[(tail + i) % Capacity]
      BY <1>1, <3>1
    <3>7. QED
      BY <2>6, <3>4, <3>5, <3>6
  <2>9. Waiting' = Tail(Waiting)
    BY <1>2, <2>5, <2>6, <2>8, SameSeq
  <2>10. Queue!Take
    BY <2>1, <2>2, <2>6, <2>7, <2>9 DEF Queue!Take
  <2>11. QED
    BY <2>10 DEF Queue!Next
<1>9. CASE UNCHANGED vars
  BY <1>3, <1>9 DEF vars
<1>10. QED
  BY <1>4, <1>5, <1>6, <1>7, <1>8, <1>9 DEF Next

\* input.c: for any capacity and any items, no interleaving of the interrupt
\* with the reader loses, repeats, reorders or tears an item, refuses one
\* while there is room, or lets the producer write the slot being copied.
THEOREM RingStaysSafe == Spec => RingSafe
<1>1. Init => Safety
  BY RingInit
<1>2. Safety /\ [Next]_vars => Safety'
  BY RingStep
<1>3. Init => Queue!Init
  <2> SUFFICES ASSUME Init PROVE Queue!Init
    OBVIOUS
  <2>1. Waiting \in Seq(Items) /\ Len(Waiting) = Used /\ Used = 0
    BY RingInit, WaitingIs, UsedIs DEF Init, Safety
  <2>2. Waiting = <<>>
    BY <2>1
  <2>3. QED
    BY <2>2 DEF Init, Queue!Init
<1>4. Safety /\ Safety' /\ [Next]_vars => [Queue!Next]_(Queue!vars)
  BY FifoStep
<1>5. QED
  BY <1>1, <1>2, <1>3, <1>4, PTL DEF Spec, RingSafe, ImplementsFifo, Queue!Spec

-----------------------------------------------------------------------------
(***************************************************************************)
(* The key store.                                                          *)
(***************************************************************************)
\* Every entry in use has a name of its own and the key in force.
KeysInv ==
  /\ Keys!TypeOK
  /\ \A i \in Keys!Slots : entries[i].active
       => /\ initialized /\ entries[i].key = master_key
          /\ entries[i].name \in KeyNames /\ entries[i].value \in Values
  /\ \A i, j \in Keys!Slots :
       entries[i].active /\ entries[j].active /\ entries[i].name = entries[j].name => i = j

\* An instance brings its own copies of the standard operators.
LEMMA SameCardinality ==
  ASSUME NEW S
  PROVE  /\ Keys!Cardinality(S) = Cardinality(S) /\ Keys!Map!Cardinality(S) = Cardinality(S)
         /\ Cache!Cardinality(S) = Cardinality(S)
BY DEF Cardinality, Keys!Cardinality, Keys!Map!Cardinality, Cache!Cardinality

\* Every nonempty set of natural numbers has a least element.
LEMMA LeastNat ==
  ASSUME NEW S \in SUBSET Nat, S # {}
  PROVE  \E x \in S : \A y \in S : x <= y
<1>1. PICK x \in S : \A y \in S : ~ (<<y, x>> \in OpToRel(<, Nat))
  BY NatLessThanWellFounded, WFMin
<1>2. \A y \in S : ~ (y < x)
  BY <1>1 DEF OpToRel
<1>. QED
  BY <1>2

\* The least of a nonempty set of naturals belongs to it.
LEMMA MinIsLeast ==
  ASSUME NEW S \in SUBSET Nat, S # {}
  PROVE  Keys!Min(S) \in S
<1>1. \E x \in S : \A y \in S : x <= y
  BY ONLY S \in SUBSET Nat, S # {}, LeastNat, Zenon
<1>2. QED
  BY <1>1 DEF Keys!Min

\* The least of one number.
LEMMA MinOfOne == ASSUME NEW i \in Nat PROVE Keys!Min({i}) = i
BY DEF Keys!Min

\* The store as its users see it: a name is found in its only slot.
LEMMA NamedIs ==
  ASSUME KeysInv, NEW n
  PROVE  /\ Keys!Named(n) \subseteq Keys!Slots
         /\ \A i \in Keys!Slots : i \in Keys!Named(n) <=> entries[i].active /\ entries[i].name = n
         /\ \A i \in Keys!Named(n) : Keys!Named(n) = {i} /\ Keys!Min(Keys!Named(n)) = i
<1>1. /\ Keys!Named(n) \subseteq Keys!Slots
      /\ \A i \in Keys!Slots : i \in Keys!Named(n) <=> entries[i].active /\ entries[i].name = n
  BY DEF Keys!Named
<1>2. ASSUME NEW i \in Keys!Named(n) PROVE Keys!Named(n) = {i} /\ Keys!Min(Keys!Named(n)) = i
  <2>1. Keys!Named(n) = {i}
    BY <1>1, <1>2 DEF KeysInv
  <2>2. i \in Nat
    BY <1>1, <1>2 DEF Keys!Slots
  <2>3. QED
    BY <2>1, <2>2, MinOfOne
<1>3. QED
  BY <1>1, <1>2

\* keystore.c: what holds before the first call.
LEMMA KeysInit == ASSUME Keys!KeyAssumption, Keys!Init PROVE KeysInv
<1>1. 0 \in -1 .. MaxEntries /\ Keys!Code(0).code = 0
  BY DEF Keys!KeyAssumption, Keys!Code
<1>2. Keys!TypeOK
  BY <1>1 DEF Keys!Init, Keys!TypeOK
<1>3. QED
  BY <1>2 DEF KeysInv, Keys!Init

\* The type invariant.
LEMMA KeysTyped ==
  ASSUME Keys!KeyAssumption, KeysInv, [Keys!Next]_(Keys!vars)
  PROVE  Keys!TypeOK'
<1>0. /\ entries \in [Keys!Slots -> [name : KeyNames \cup {None}, value : Values \cup {None},
                                     key : Passphrases \cup {None}, active : BOOLEAN]]
      /\ \A i \in Keys!Slots : entries[i].active => Keys!Padded(entries[i].value) <= MaxValue
      /\ master_key \in Passphrases \cup {None} /\ initialized \in BOOLEAN
      /\ result.code \in -1 .. MaxEntries
  BY DEF KeysInv, Keys!TypeOK
<1>1. 0 \in -1 .. MaxEntries /\ -1 \in -1 .. MaxEntries
  BY DEF Keys!KeyAssumption
<1>2. ASSUME NEW c \in -1 .. MaxEntries, NEW v, result' = [code |-> c, value |-> v]
      PROVE  result'.code \in -1 .. MaxEntries
  BY <1>2
<1>3. ASSUME NEW p \in Passphrases, Keys!keystore_init(p) PROVE Keys!TypeOK'
  BY <1>0, <1>1, <1>3 DEF Keys!keystore_init, Keys!TypeOK, Keys!Returns, Keys!Code
<1>4. ASSUME NEW n \in KeyNames, NEW v \in Values, Keys!keystore_set(n, v) PROVE Keys!TypeOK'
  <2>1. CASE UNCHANGED <<entries, master_key, initialized>> /\ Keys!Returns(-1)
    BY <1>0, <1>1, <2>1 DEF Keys!TypeOK, Keys!Returns, Keys!Code
  <2>2. CASE /\ Keys!Acceptable(v) /\ Keys!SlotFor(n) # {}
             /\ entries' = [entries EXCEPT ![Keys!Min(Keys!SlotFor(n))] =
                              [name |-> n, value |-> v, key |-> master_key, active |-> TRUE]]
             /\ Keys!Returns(0) /\ UNCHANGED <<master_key, initialized>>
    <3> DEFINE k == Keys!Min(Keys!SlotFor(n))
    <3>1. k \in Keys!Slots
      <4>1. Keys!SlotFor(n) \subseteq Keys!Slots
        BY DEF Keys!SlotFor, Keys!Named, Keys!FreeSlots
      <4>2. Keys!SlotFor(n) \in SUBSET Nat
        BY <4>1 DEF Keys!Slots
      <4>3. QED
        BY <2>2, <4>1, <4>2, MinIsLeast
    <3> HIDE DEF k
    <3>2. entries' = [entries EXCEPT ![k] = [name |-> n, value |-> v, key |-> master_key, active |-> TRUE]]
      BY <2>2 DEF k
    <3>3. Keys!Padded(v) <= MaxValue
      BY <2>2 DEF Keys!KeyAssumption, Keys!Padded, Keys!Acceptable
    <3>4. /\ \A i \in Keys!Slots : entries'[i] = IF i = k THEN [name |-> n, value |-> v, key |-> master_key, active |-> TRUE]
                                                 ELSE entries[i]
          /\ entries' \in [Keys!Slots -> [name : KeyNames \cup {None}, value : Values \cup {None},
                                     key : Passphrases \cup {None}, active : BOOLEAN]]
      BY <1>0, <3>1, <3>2
    <3>5. \A i \in Keys!Slots : entries'[i].active => Keys!Padded(entries'[i].value) <= MaxValue
      BY <1>0, <3>3, <3>4
    <3>6. result'.code \in -1 .. MaxEntries
      BY <1>1, <2>2 DEF Keys!Returns, Keys!Code
    <3>7. QED
      BY <1>0, <2>2, <3>4, <3>5, <3>6 DEF Keys!TypeOK
  <2>3. QED
    BY <1>4, <2>1, <2>2 DEF Keys!keystore_set
<1>5. ASSUME NEW n \in KeyNames, NEW c \in Capacities, Keys!keystore_get(n, c) PROVE Keys!TypeOK'
  <2>1. UNCHANGED <<entries, master_key, initialized>>
    BY <1>5 DEF Keys!keystore_get
  <2>2. result'.code \in -1 .. MaxEntries
    BY <1>1, <1>5 DEF Keys!keystore_get, Keys!Code
  <2>3. QED
    BY <1>0, <2>1, <2>2 DEF Keys!TypeOK
<1>6. ASSUME NEW n \in KeyNames, Keys!keystore_delete(n) PROVE Keys!TypeOK'
  <2>1. CASE UNCHANGED <<entries, master_key, initialized>> /\ Keys!Returns(-1)
    BY <1>0, <1>1, <2>1 DEF Keys!TypeOK, Keys!Returns, Keys!Code
  <2>2. CASE /\ Keys!Named(n) # {}
             /\ entries' = [entries EXCEPT ![Keys!Min(Keys!Named(n))].value = None,
                                           ![Keys!Min(Keys!Named(n))].active = FALSE]
             /\ Keys!Returns(0) /\ UNCHANGED <<master_key, initialized>>
    BY <1>0, <1>1, <2>2, ZenonT(30) DEF Keys!TypeOK, Keys!Returns, Keys!Code
  <2>3. QED
    BY <1>6, <2>1, <2>2 DEF Keys!keystore_delete
<1>7. CASE Keys!keystore_count
  <2>1. Cardinality(Keys!Slots \ Keys!FreeSlots) \in -1 .. MaxEntries
    <3>1. IsFiniteSet(Keys!Slots) /\ Cardinality(Keys!Slots) = MaxEntries
      BY FS_Interval DEF Keys!Slots, Keys!KeyAssumption
    <3>2. Keys!Slots \ Keys!FreeSlots \in SUBSET Keys!Slots
      OBVIOUS
    <3>3. /\ Cardinality(Keys!Slots \ Keys!FreeSlots) <= MaxEntries
          /\ Cardinality(Keys!Slots \ Keys!FreeSlots) \in Nat
      BY <3>1, <3>2, FS_Subset, FS_CardinalityType
    <3>4. QED
      BY <3>3 DEF Keys!KeyAssumption
  <2>2. UNCHANGED <<entries, master_key, initialized>>
    BY <1>7 DEF Keys!keystore_count
  <2>3. result'.code \in -1 .. MaxEntries
    <3> DEFINE c == Cardinality(Keys!Slots \ Keys!FreeSlots)
    <3>1. result' = [code |-> c, value |-> None]
      BY <1>7, SameCardinality DEF Keys!keystore_count, Keys!Returns, Keys!Code
    <3>2. c \in -1 .. MaxEntries
      BY <2>1
    <3> HIDE DEF c
    <3>3. QED
      BY <1>2, <3>1, <3>2
  <2>4. QED
    BY <1>0, <2>2, <2>3 DEF Keys!TypeOK
<1>8. CASE UNCHANGED Keys!vars
  BY <1>0, <1>8 DEF Keys!TypeOK, Keys!vars
<1>9. QED
  BY <1>3, <1>4, <1>5, <1>6, <1>7, <1>8 DEF Keys!Next

\* keystore.c: no call breaks it.
LEMMA KeysStep ==
  ASSUME Keys!KeyAssumption, KeysInv, [Keys!Next]_(Keys!vars)
  PROVE  KeysInv'
<1>0. Keys!TypeOK' /\ entries \in [Keys!Slots -> [name : KeyNames \cup {None}, value : Values \cup {None},
                                     key : Passphrases \cup {None}, active : BOOLEAN]]
  BY KeysTyped DEF KeysInv, Keys!TypeOK
<1>1. ASSUME NEW p \in Passphrases, Keys!keystore_init(p) PROVE KeysInv'
  <2>1. \A i \in Keys!Slots : ~ entries'[i].active
    BY <1>0, <1>1 DEF Keys!keystore_init
  <2>2. QED
    BY <1>0, <2>1 DEF KeysInv
<1>2. ASSUME UNCHANGED <<entries, master_key, initialized>> PROVE KeysInv'
  BY <1>0, <1>2 DEF KeysInv
<1>3. ASSUME NEW n \in KeyNames, NEW v \in Values, Keys!keystore_set(n, v) PROVE KeysInv'
  <2>1. CASE UNCHANGED <<entries, master_key, initialized>>
    BY <1>2, <2>1
  <2>2. CASE /\ initialized /\ Keys!SlotFor(n) # {}
             /\ entries' = [entries EXCEPT ![Keys!Min(Keys!SlotFor(n))] =
                              [name |-> n, value |-> v, key |-> master_key, active |-> TRUE]]
             /\ UNCHANGED <<master_key, initialized>>
    <3> DEFINE k == Keys!Min(Keys!SlotFor(n))
    <3>1. k \in Keys!Slots /\ \A i \in Keys!Slots : entries[i].active /\ entries[i].name = n => i = k
      <4>1. CASE Keys!Named(n) # {}
        <5>1. PICK i \in Keys!Named(n) : TRUE
          BY <4>1
        <5>2. Keys!Named(n) = {i} /\ Keys!Min(Keys!Named(n)) = i /\ i \in Keys!Slots
          BY <5>1, NamedIs
        <5>3. QED
          BY <4>1, <5>2, NamedIs DEF Keys!SlotFor
      <4>2. CASE Keys!Named(n) = {}
        <5>1. Keys!SlotFor(n) = Keys!FreeSlots /\ Keys!FreeSlots \in SUBSET Keys!Slots
          BY <4>2 DEF Keys!SlotFor, Keys!FreeSlots
        <5>2. Keys!FreeSlots \in SUBSET Nat
          BY <5>1 DEF Keys!Slots
        <5>3. k \in Keys!FreeSlots
          BY <2>2, <5>1, <5>2, MinIsLeast
        <5>4. QED
          BY <4>2, <5>1, <5>3, NamedIs
      <4>3. QED
        BY <4>1, <4>2
    <3> HIDE DEF k
    <3>2. \A i \in Keys!Slots :
            entries'[i] = IF i = k THEN [name |-> n, value |-> v, key |-> master_key, active |-> TRUE]
                          ELSE entries[i]
      BY <1>0, <2>2, <3>1 DEF k
    <3>3. QED
      BY <1>0, <2>2, <3>1, <3>2 DEF KeysInv
  <2>3. QED
    BY <1>3, <2>1, <2>2 DEF Keys!keystore_set
<1>4. ASSUME NEW n \in KeyNames, Keys!keystore_delete(n) PROVE KeysInv'
  <2>1. CASE UNCHANGED <<entries, master_key, initialized>>
    BY <1>2, <2>1
  <2>2. CASE /\ entries' = [entries EXCEPT ![Keys!Min(Keys!Named(n))].value = None,
                                           ![Keys!Min(Keys!Named(n))].active = FALSE]
             /\ UNCHANGED <<master_key, initialized>>
    <3>1. \A i \in Keys!Slots : /\ entries'[i].active => entries'[i] = entries[i] /\ entries[i].active
      BY <1>0, <2>2
    <3>2. QED
      BY <1>0, <2>2, <3>1 DEF KeysInv
  <2>3. QED
    BY <1>4, <2>1, <2>2 DEF Keys!keystore_delete
<1>5. QED
  BY <1>1, <1>2, <1>3, <1>4 DEF Keys!Next, Keys!vars, Keys!keystore_get, Keys!keystore_count

\* A name's value is that of its only slot.
HeldOnce ==
  /\ Keys!Held = [n \in KeyNames |-> Keys!Held[n]]
  /\ \A n \in KeyNames :
       /\ Keys!Named(n) = {} => Keys!Held[n] = None
       /\ \A i \in Keys!Named(n) : Keys!Held[n] = entries[i].value /\ entries[i].value \in Values
       /\ Keys!Named(n) \subseteq Keys!Slots
       /\ \A i \in Keys!Slots : i \in Keys!Named(n) <=> entries[i].active /\ entries[i].name = n
       /\ \A i \in Keys!Named(n) : Keys!Named(n) = {i} /\ Keys!Min(Keys!Named(n)) = i

\* What a name stands for: the value of its one slot.
LEMMA HeldIs == KeysInv => HeldOnce
<1> SUFFICES ASSUME KeysInv PROVE HeldOnce
  OBVIOUS
<1>1. /\ Keys!Held = [n \in KeyNames |-> Keys!Held[n]]
      /\ \A n \in KeyNames : Keys!Held[n] = IF Keys!Named(n) = {} THEN None
                                         ELSE Keys!Decrypted(entries[Keys!Min(Keys!Named(n))])
  BY DEF Keys!Held
<1>2. ASSUME NEW n \in KeyNames, NEW i \in Keys!Named(n)
      PROVE  Keys!Held[n] = entries[i].value /\ entries[i].value \in Values
  <2>1. Keys!Named(n) = {i} /\ Keys!Min(Keys!Named(n)) = i /\ i \in Keys!Slots /\ entries[i].active
    BY <1>2, NamedIs
  <2>2. QED
    BY <1>1, <1>2, <2>1 DEF Keys!Decrypted, KeysInv
<1>3. QED
  BY <1>1, <1>2, NamedIs DEF HeldOnce

LEMMA HeldNext == KeysInv' => HeldOnce'
BY HeldIs, PTL

\* There are as many names as slots in use.
LEMMA CountIs ==
  ASSUME Keys!KeyAssumption, KeysInv
  PROVE  LET Active == Keys!Slots \ Keys!FreeSlots
         IN  /\ Cardinality(Keys!Map!Stored) = Cardinality(Active)
             /\ Cardinality(Active) \in Nat /\ Cardinality(Active) <= MaxEntries
             /\ Cardinality(Active) = MaxEntries <=> Keys!FreeSlots = {}
<1> DEFINE Active == Keys!Slots \ Keys!FreeSlots
           Stored == Keys!Map!Stored
           f == [i \in Active |-> entries[i].name]
<1>1. IsFiniteSet(Keys!Slots) /\ Cardinality(Keys!Slots) = MaxEntries
  BY FS_Interval DEF Keys!Slots, Keys!KeyAssumption
<1>2. /\ IsFiniteSet(Active) /\ Cardinality(Active) \in Nat /\ Cardinality(Active) <= MaxEntries
      /\ Cardinality(Active) = MaxEntries => Active = Keys!Slots
  <2>1. Active \in SUBSET Keys!Slots
    OBVIOUS
  <2> HIDE DEF Active
  <2>2. QED
    BY <1>1, <2>1, FS_Subset, FS_CardinalityType
<1>3. Keys!FreeSlots = {} <=> Active = Keys!Slots
  BY DEF Keys!FreeSlots
<1>4. HeldOnce /\ None \notin Values
  BY HeldIs DEF Keys!KeyAssumption
<1>5. \A i \in Active : i \in Keys!Slots /\ entries[i].active /\ entries[i].name \in KeyNames
  BY DEF KeysInv, Keys!FreeSlots
<1>6. \A n : n \in Stored <=> n \in KeyNames /\ Keys!Held[n] # None
  BY DEF Keys!Map!Stored
<1>7. f \in [Active -> Stored]
  <2>1. ASSUME NEW i \in Active PROVE entries[i].name \in Stored
    BY <1>4, <1>5, <1>6 DEF HeldOnce
  <2> HIDE DEF Active, Stored
  <2>2. QED
    BY <2>1
<1>8. \A i, j \in Active : f[i] = f[j] => i = j
  BY <1>5 DEF KeysInv
<1>9. \A n \in Stored : \E i \in Active : f[i] = n
  <2>1. SUFFICES ASSUME NEW n \in Stored PROVE \E i \in Active : entries[i].name = n
    OBVIOUS
  <2>2. PICK i \in Keys!Named(n) : TRUE
    BY <1>4, <1>6 DEF HeldOnce
  <2>3. i \in Active /\ entries[i].name = n
    BY <1>4, <1>6, <2>2 DEF HeldOnce, Keys!FreeSlots
  <2>4. QED
    BY <2>3
<1> HIDE DEF Active, Stored, f
<1>10. f \in Surjection(Active, Stored) /\ f \in Injection(Active, Stored)
  BY <1>7, <1>8, <1>9 DEF Surjection, Injection, IsInjective
<1>11. Cardinality(Stored) = Cardinality(Active)
  BY <1>2, <1>10, FS_Surjection
<1>12. QED
  BY <1>1, <1>2, <1>3, <1>11 DEF Active, Stored

\* Every call on the slots is a call on the map, with the same answer.
LEMMA MapStep ==
  ASSUME Keys!KeyAssumption, KeysInv, KeysInv', [Keys!Next]_(Keys!vars)
  PROVE  [Keys!Map!Next]_(Keys!Map!vars)
<1>0. /\ HeldOnce /\ HeldOnce' /\ None \notin Values
      /\ entries \in [Keys!Slots -> [name : KeyNames \cup {None}, value : Values \cup {None},
                                     key : Passphrases \cup {None}, active : BOOLEAN]]
  BY HeldIs, HeldNext DEF Keys!KeyAssumption, KeysInv, Keys!TypeOK
<1>1. \A c : Keys!Map!Code(c) = Keys!Code(c)
  BY DEF Keys!Map!Code, Keys!Code
<1>2. \A n \in KeyNames : n \in Keys!Map!Stored <=> Keys!Named(n) # {}
  BY <1>0 DEF Keys!Map!Stored, HeldOnce
<1>3. ASSUME UNCHANGED <<entries, master_key>> PROVE Keys!Held' = Keys!Held
  BY <1>3 DEF Keys!Held, Keys!Named, Keys!Decrypted
<1>4. ~ initialized => \A n \in KeyNames : Keys!Named(n) = {}
  BY <1>0 DEF KeysInv, HeldOnce
<1>5. ASSUME NEW p \in Passphrases, Keys!keystore_init(p) PROVE Keys!Map!Next
  <2>1. \A i \in Keys!Slots : ~ entries'[i].active
    BY <1>0, <1>5 DEF Keys!keystore_init
  <2>2. \A n \in KeyNames : Keys!Held'[n] = None
    BY <1>0, <2>1 DEF HeldOnce
  <2>3. Keys!Held' = [n \in KeyNames |-> None]
    BY <1>0, <2>2 DEF HeldOnce
  <2>4. Keys!Map!Start
    BY <1>1, <1>5, <2>3 DEF Keys!Map!Start, Keys!keystore_init, Keys!Returns
  <2>5. QED
    BY <2>4 DEF Keys!Map!Next
<1>6. ASSUME NEW n \in KeyNames, NEW v \in Values, Keys!keystore_set(n, v) PROVE Keys!Map!Next
  <2>0. /\ Cardinality(Keys!Map!Stored) = MaxEntries <=> Keys!FreeSlots = {}
        /\ Cardinality(Keys!Map!Stored) <= MaxEntries /\ Cardinality(Keys!Map!Stored) \in Nat
        /\ MaxEntries \in Nat
    BY CountIs DEF Keys!KeyAssumption
  <2>1. CASE /\ initialized /\ Keys!Acceptable(v) /\ Keys!SlotFor(n) # {}
             /\ entries' = [entries EXCEPT ![Keys!Min(Keys!SlotFor(n))] =
                              [name |-> n, value |-> v, key |-> master_key, active |-> TRUE]]
             /\ Keys!Returns(0) /\ UNCHANGED <<master_key, initialized>>
    <3> DEFINE k == Keys!Min(Keys!SlotFor(n))
    <3>1. /\ k \in Keys!Slots /\ (Keys!Named(n) # {} => Keys!Named(n) = {k})
          /\ Keys!Named(n) = {} => k \in Keys!FreeSlots
          /\ n \in Keys!Map!Stored \/ Keys!FreeSlots # {}
      <4>1. CASE Keys!Named(n) # {}
        BY <1>0, <1>2, <4>1 DEF HeldOnce, Keys!SlotFor
      <4>2. CASE Keys!Named(n) = {}
        <5>1. Keys!SlotFor(n) = Keys!FreeSlots /\ Keys!FreeSlots \in SUBSET Keys!Slots
          BY <4>2 DEF Keys!SlotFor, Keys!FreeSlots
        <5>2. Keys!FreeSlots \in SUBSET Nat
          BY <5>1 DEF Keys!Slots
        <5>3. k \in Keys!FreeSlots
          BY <2>1, <5>1, <5>2, MinIsLeast
        <5>4. QED
          BY <4>2, <5>1, <5>3
      <4>3. QED
        BY <4>1, <4>2
    <3> HIDE DEF k
    <3>2. \A i \in Keys!Slots :
            entries'[i] = IF i = k THEN [name |-> n, value |-> v, key |-> master_key, active |-> TRUE]
                          ELSE entries[i]
      BY <1>0, <2>1, <3>1 DEF k
    <3>3. ASSUME NEW m \in KeyNames PROVE Keys!Held'[m] = IF m = n THEN v ELSE Keys!Held[m]
      <4>1. CASE m = n
        <5>1. k \in Keys!Named(m)'
          BY <1>0, <3>1, <3>2, <4>1 DEF HeldOnce
        <5>2. QED
          BY <1>0, <3>1, <3>2, <4>1, <5>1 DEF HeldOnce
      <4>2. CASE m # n
        <5>1. \A i \in Keys!Slots : i \in Keys!Named(m)' <=> i \in Keys!Named(m)
          BY <1>0, <3>1, <3>2, <4>2 DEF HeldOnce, Keys!FreeSlots
        <5>2. CASE Keys!Named(m) = {}
          BY <1>0, <4>2, <5>1, <5>2 DEF HeldOnce
        <5>3. CASE Keys!Named(m) # {}
          <6>1. PICK i \in Keys!Named(m) : TRUE
            BY <5>3
          <6>2. i \in Keys!Slots /\ i \in Keys!Named(m)' /\ i # k
            BY <1>0, <3>1, <4>2, <5>1, <6>1 DEF HeldOnce, Keys!FreeSlots
          <6>3. QED
            BY <1>0, <3>2, <4>2, <6>1, <6>2 DEF HeldOnce
        <5>4. QED
          BY <5>2, <5>3
      <4>3. QED
        BY <4>1, <4>2
    <3>4. Keys!Held' = [Keys!Held EXCEPT ![n] = v]
      BY <1>0, <3>3 DEF HeldOnce
    <3>5. n \in Keys!Map!Stored \/ Cardinality(Keys!Map!Stored) < MaxEntries
      BY <2>0, <3>1
    <3>6. Keys!Map!Set(n, v)
      BY <1>1, <2>1, <3>4, <3>5, SameCardinality DEF Keys!Map!Set, Keys!Returns
    <3>7. QED
      BY <3>6 DEF Keys!Map!Next
  <2>2. CASE /\ ~ initialized \/ ~ Keys!Acceptable(v) \/ Keys!SlotFor(n) = {}
             /\ Keys!Returns(-1) /\ UNCHANGED <<entries, master_key, initialized>>
    <3>1. Keys!SlotFor(n) = {} => n \notin Keys!Map!Stored /\ Cardinality(Keys!Map!Stored) = MaxEntries
      BY <1>2, <2>0 DEF Keys!SlotFor
    <3>2. Keys!Held' = Keys!Held
      BY <1>3, <2>2
    <3>3. Keys!Map!Set(n, v)
      BY <1>1, <2>2, <3>1, <3>2, SameCardinality DEF Keys!Map!Set, Keys!Returns
    <3>4. QED
      BY <3>3 DEF Keys!Map!Next
  <2>3. QED
    BY <1>6, <2>1, <2>2 DEF Keys!keystore_set
<1>7. ASSUME NEW n \in KeyNames, NEW c \in Capacities, Keys!keystore_get(n, c) PROVE Keys!Map!Next
  <2>1. /\ result' = IF initialized /\ Keys!Named(n) # {} /\ Keys!Fits(entries[Keys!Min(Keys!Named(n))].value, c)
                     THEN [code |-> 0, value |-> Keys!Decrypted(entries[Keys!Min(Keys!Named(n))])]
                     ELSE Keys!Code(-1)
        /\ UNCHANGED <<entries, master_key, initialized>>
    BY <1>7 DEF Keys!keystore_get
  <2>2. ASSUME Keys!Named(n) # {}
        PROVE  /\ entries[Keys!Min(Keys!Named(n))].value = Keys!Held[n]
               /\ Keys!Decrypted(entries[Keys!Min(Keys!Named(n))]) = Keys!Held[n]
    BY <1>0, <2>2 DEF HeldOnce, Keys!Held
  <2>3. result' = IF initialized /\ n \in Keys!Map!Stored /\ Keys!Fits(Keys!Held[n], c)
                  THEN [code |-> 0, value |-> Keys!Held[n]] ELSE Keys!Code(-1)
    <3>1. CASE Keys!Named(n) = {}
      BY <1>2, <2>1, <3>1
    <3>2. CASE Keys!Named(n) # {}
      BY <1>2, <2>1, <2>2, <3>2
    <3>3. QED
      BY <3>1, <3>2
  <2>4. Keys!Map!Get(n, c)
    BY <1>1, <1>3, <2>1, <2>3 DEF Keys!Map!Get
  <2>5. QED
    BY <2>4 DEF Keys!Map!Next
<1>8. ASSUME NEW n \in KeyNames, Keys!keystore_delete(n) PROVE Keys!Map!Next
  <2>1. CASE /\ initialized /\ Keys!Named(n) # {}
             /\ entries' = [entries EXCEPT ![Keys!Min(Keys!Named(n))].value = None,
                                           ![Keys!Min(Keys!Named(n))].active = FALSE]
             /\ Keys!Returns(0) /\ UNCHANGED <<master_key, initialized>>
    <3>1. PICK k \in Keys!Named(n) : TRUE
      BY <2>1
    <3>2. k \in Keys!Slots /\ Keys!Named(n) = {k} /\ Keys!Min(Keys!Named(n)) = k
      BY <1>0, <3>1 DEF HeldOnce
    <3>3. \A i \in Keys!Slots : /\ i # k => entries'[i] = entries[i]
                                /\ ~ entries'[k].active
      BY <1>0, <2>1, <3>2
    <3>4. ASSUME NEW m \in KeyNames PROVE Keys!Held'[m] = IF m = n THEN None ELSE Keys!Held[m]
      <4>1. \A i \in Keys!Slots : i \in Keys!Named(m)' <=> i \in Keys!Named(m) /\ i # k
        BY <1>0, <3>3 DEF HeldOnce
      <4>2. CASE m = n \/ Keys!Named(m) = {}
        BY <1>0, <3>2, <4>1, <4>2 DEF HeldOnce
      <4>3. CASE m # n /\ Keys!Named(m) # {}
        <5>1. PICK i \in Keys!Named(m) : TRUE
          BY <4>3
        <5>2. i \in Keys!Slots /\ i # k
          BY <1>0, <3>2, <4>3, <5>1 DEF HeldOnce
        <5>3. QED
          BY <1>0, <3>3, <4>1, <4>3, <5>1, <5>2 DEF HeldOnce
      <4>4. QED
        BY <4>2, <4>3
    <3>5. Keys!Held' = [Keys!Held EXCEPT ![n] = None]
      BY <1>0, <3>4 DEF HeldOnce
    <3>6. Keys!Map!Delete(n)
      BY <1>1, <1>2, <2>1, <3>5 DEF Keys!Map!Delete, Keys!Returns
    <3>7. QED
      BY <3>6 DEF Keys!Map!Next
  <2>2. CASE /\ ~ initialized \/ Keys!Named(n) = {}
             /\ Keys!Returns(-1) /\ UNCHANGED <<entries, master_key, initialized>>
    <3>1. Keys!Named(n) = {} /\ n \notin Keys!Map!Stored /\ Keys!Held[n] = None
      BY <1>0, <1>2, <1>4, <2>2 DEF HeldOnce
    <3>2. Keys!Held' = [Keys!Held EXCEPT ![n] = None]
      <4>1. Keys!Held' = Keys!Held
        BY <1>3, <2>2
      <4>2. QED
        BY <1>0, <3>1, <4>1 DEF HeldOnce
    <3>3. Keys!Map!Delete(n)
      BY <1>1, <2>2, <3>1, <3>2 DEF Keys!Map!Delete, Keys!Returns
    <3>4. QED
      BY <3>3 DEF Keys!Map!Next
  <2>3. QED
    BY <1>8, <2>1, <2>2 DEF Keys!keystore_delete
<1>9. CASE Keys!keystore_count
  <2> DEFINE c == Cardinality(Keys!Slots \ Keys!FreeSlots)
  <2>1. result' = Keys!Code(c) /\ UNCHANGED <<entries, master_key, initialized>>
    BY <1>9, SameCardinality DEF Keys!keystore_count, Keys!Returns
  <2>2. Cardinality(Keys!Map!Stored) = c
    BY CountIs
  <2> HIDE DEF c
  <2>3. Keys!Map!Count
    BY <1>1, <1>3, <2>1, <2>2, SameCardinality DEF Keys!Map!Count
  <2>4. QED
    BY <2>3 DEF Keys!Map!Next
<1>10. CASE UNCHANGED Keys!vars
  BY <1>3, <1>10 DEF Keys!vars, Keys!Map!vars
<1>11. QED
  BY <1>5, <1>6, <1>7, <1>8, <1>9, <1>10 DEF Keys!Next

\* keystore.c: for any number of entries, the slots, the linear searches and
\* the encryption are a map from names to values: a name has one value, the
\* last one set, a full store still takes a new value for a name it has, the
\* count is that of the names, and a new passphrase leaves nothing behind that
\* would decrypt to garbage.
THEOREM KeysStaySafe == ASSUME Keys!KeyAssumption PROVE Keys!Spec => Keys!KeysSafe
<1>1. Keys!Init => KeysInv
  BY KeysInit
<1>2. KeysInv /\ [Keys!Next]_(Keys!vars) => KeysInv'
  BY KeysStep
<1>3. KeysInv => Keys!TypeOK
  BY DEF KeysInv
<1>4. Keys!Init => Keys!Map!Init
  <2> SUFFICES ASSUME Keys!Init PROVE Keys!Map!Init
    OBVIOUS
  <2>1. \A n \in KeyNames : Keys!Named(n) = {}
    BY DEF Keys!Init, Keys!Named
  <2>2. Keys!Held = [n \in KeyNames |-> None]
    BY <2>1 DEF Keys!Held
  <2>3. QED
    BY <2>2 DEF Keys!Init, Keys!Map!Init, Keys!Map!Code, Keys!Code
<1>5. KeysInv /\ KeysInv' /\ [Keys!Next]_(Keys!vars) => [Keys!Map!Next]_(Keys!Map!vars)
  BY MapStep
<1>6. QED
  BY <1>1, <1>2, <1>3, <1>4, <1>5, PTL DEF Keys!Spec, Keys!KeysSafe, Keys!ImplementsMap, Keys!Map!Spec

-----------------------------------------------------------------------------
(***************************************************************************)
(* The block cache.  First lists that have the elements of a set, each     *)
(* once: the LRU list has the valid entries, a chain those that hash to    *)
(* its bucket.                                                             *)
(***************************************************************************)
\* s lists the elements of S, each once.
List(s, S) ==
  /\ s \in Seq(S)
  /\ \A x \in S : \E k \in 1 .. Len(s) : s[k] = x
  /\ \A j, k \in 1 .. Len(s) : s[j] = s[k] => j = k

\* The list has as many nodes as the set has elements.
LEMMA ListSize ==
  ASSUME NEW S, NEW s, List(s, S)
  PROVE  IsFiniteSet(S) /\ Cardinality(S) = Len(s) /\ Cache!Range(s) = S
<1>1. s \in Seq(S) /\ Len(s) \in Nat /\ s \in [1 .. Len(s) -> S] /\ DOMAIN s = 1 .. Len(s)
  BY LenProperties DEF List
<1>2. s \in Bijection(1 .. Len(s), S)
  BY <1>1 DEF List, Bijection, Injection, Surjection, IsInjective
<1>3. ExistsBijection(1 .. Len(s), S)
  BY <1>2 DEF ExistsBijection
<1>4. IsFiniteSet(S) /\ Cardinality(S) = Len(s)
  BY <1>1, <1>3, FS_NatBijection, FS_CountingElements
<1>. QED
  BY <1>1, <1>4 DEF List, Cache!Range

\* A node in front of a list.
LEMMA Pushed ==
  ASSUME NEW S, NEW s, List(s, S), NEW x, x \notin S
  PROVE  List(<<x>> \o s, S \cup {x})
<1>. DEFINE T == S \cup {x}  t == <<x>> \o s
<1>1. s \in Seq(T) /\ <<x>> \in Seq(T) /\ Len(<<x>>) = 1 /\ <<x>>[1] = x /\ Len(s) \in Nat
      /\ \A k \in 1 .. Len(s) : s[k] \in S
  <2>1. s \in Seq(S)
    BY DEF List
  <2>2. s \in Seq(T)
    BY <2>1, SeqMonotonic
  <2>. QED
    BY <2>1, <2>2, LenProperties, ElementOfSeq
<1>2. /\ t \in Seq(T) /\ Len(t) = Len(s) + 1 /\ t[1] = x
      /\ \A k \in 1 .. Len(s) : t[k + 1] = s[k]
  <2>1. t \in Seq(T) /\ Len(t) = 1 + Len(s)
        /\ \A k \in 1 .. 1 + Len(s) : t[k] = IF k <= 1 THEN <<x>>[k] ELSE s[k - 1]
    <3>. HIDE DEF T
    <3>. QED
      BY <1>1, ConcatProperties
  <2>. HIDE DEF t, T
  <2>2. t[1] = x
    BY <1>1, <2>1
  <2>3. ASSUME NEW k \in 1 .. Len(s) PROVE t[k + 1] = s[k]
    <3>1. k + 1 \in 1 .. 1 + Len(s) /\ ~ (k + 1 <= 1) /\ k + 1 - 1 = k
      BY <1>1
    <3>. QED
      BY <2>1, <3>1
  <2>. QED
    BY <1>1, <2>1, <2>2, <2>3
<1>. HIDE DEF t
<1>3. ASSUME NEW y \in T PROVE \E k \in 1 .. Len(t) : t[k] = y
  <2>1. CASE y = x
    BY <1>1, <1>2, <2>1
  <2>2. CASE y \in S
    <3>1. PICK k \in 1 .. Len(s) : s[k] = y
      BY <2>2 DEF List
    <3>2. k + 1 \in 1 .. Len(t)
      BY <1>1, <1>2
    <3>. QED
      BY <1>2, <3>1, <3>2
  <2>. QED
    BY <2>1, <2>2
<1>4. ASSUME NEW j \in 1 .. Len(t), NEW k \in 1 .. Len(t), t[j] = t[k] PROVE j = k
  <2>1. \A i \in 1 .. Len(t) : i = 1 \/ (i - 1 \in 1 .. Len(s) /\ t[i] = s[i - 1])
    <3>. TAKE i \in 1 .. Len(t)
    <3>1. i = 1 \/ \E n \in 1 .. Len(s) : i = n + 1
      <4>1. i = 1 \/ (i - 1 \in 1 .. Len(s) /\ i = (i - 1) + 1)
        BY <1>1, <1>2
      <4>. QED
        BY <4>1
    <3>2. ASSUME NEW n \in 1 .. Len(s), i = n + 1
          PROVE  i - 1 \in 1 .. Len(s) /\ t[i] = s[i - 1]
      <4>1. i - 1 = n
        BY <1>1, <3>2
      <4>2. t[n + 1] = s[n] /\ n \in 1 .. Len(s)
        BY <1>2
      <4>3. t[i] = s[n]
        BY ONLY <3>2, <4>2, Zenon
      <4>. QED
        BY ONLY <4>1, <4>2, <4>3, Zenon
    <3>. QED
      BY <3>1, <3>2
  <2>2. \A i \in 1 .. Len(s) : s[i] # x
    BY <1>1
  <2>3. CASE j = 1 \/ k = 1
    BY <1>2, <1>4, <2>1, <2>2, <2>3
  <2>4. CASE j # 1 /\ k # 1
    <3>1. s[j - 1] = s[k - 1] /\ j - 1 \in 1 .. Len(s) /\ k - 1 \in 1 .. Len(s)
      BY <1>4, <2>1, <2>4
    <3>2. j - 1 = k - 1
      BY <3>1 DEF List
    <3>. QED
      BY <1>2, <3>2
  <2>. QED
    BY <2>3, <2>4
<1>. QED
  BY <1>2, <1>3, <1>4 DEF List, t

\* A node behind a list.
LEMMA Appended ==
  ASSUME NEW S, NEW s, List(s, S), NEW x, x \notin S
  PROVE  List(Append(s, x), S \cup {x})
<1>. DEFINE T == S \cup {x}  t == Append(s, x)
<1>1. s \in Seq(T) /\ x \in T /\ Len(s) \in Nat /\ \A k \in 1 .. Len(s) : s[k] \in S
  <2>1. s \in Seq(S)
    BY DEF List
  <2>2. s \in Seq(T)
    BY <2>1, SeqMonotonic
  <2>. QED
    BY <2>1, <2>2, LenProperties, ElementOfSeq
<1>2. /\ t \in Seq(T) /\ Len(t) = Len(s) + 1 /\ t[Len(s) + 1] = x
      /\ \A k \in 1 .. Len(s) : t[k] = s[k]
  <2>. HIDE DEF T
  <2>. QED
    BY <1>1, AppendProperties
<1>. HIDE DEF t
<1>3. \A k \in 1 .. Len(t) : k = Len(s) + 1 \/ k \in 1 .. Len(s)
  BY <1>1, <1>2
<1>4. ASSUME NEW y \in T PROVE \E k \in 1 .. Len(t) : t[k] = y
  <2>1. CASE y = x
    BY <1>1, <1>2, <2>1
  <2>2. CASE y \in S
    <3>1. PICK k \in 1 .. Len(s) : s[k] = y
      BY <2>2 DEF List
    <3>2. k \in 1 .. Len(t)
      BY <1>1, <1>2
    <3>. QED
      BY <1>2, <3>1, <3>2
  <2>. QED
    BY <2>1, <2>2
<1>5. ASSUME NEW j \in 1 .. Len(t), NEW k \in 1 .. Len(t), t[j] = t[k] PROVE j = k
  <2>1. \A i \in 1 .. Len(s) : s[i] # x
    BY <1>1
  <2>2. \A i \in 1 .. Len(s) : t[i] # x
    BY <1>2, <2>1
  <2>3. CASE j \in 1 .. Len(s) /\ k \in 1 .. Len(s)
    BY <1>2, <1>5, <2>3 DEF List
  <2>4. CASE j = Len(s) + 1 \/ k = Len(s) + 1
    BY <1>2, <1>3, <1>5, <2>2, <2>4
  <2>. QED
    BY <1>3, <2>3, <2>4
<1>. QED
  BY <1>2, <1>4, <1>5 DEF List, t

\* A list without the node at a place.
LEMMA Unlinked ==
  ASSUME NEW S, NEW s, List(s, S), NEW k \in 1 .. Len(s)
  PROVE  List(Cache!RemoveAt(s, k), S \ {s[k]})
<1>. DEFINE T == S \ {s[k]}
            u == SubSeq(s, 1, k - 1)
            v == SubSeq(s, k + 1, Len(s))
            t == Cache!RemoveAt(s, k)
<1>1. s \in Seq(S) /\ Len(s) \in Nat /\ k \in Int /\ \A j \in 1 .. Len(s) : s[j] \in S
  BY LenProperties, ElementOfSeq DEF List
<1>2. \A j \in 1 .. Len(s) : j # k => s[j] \in T
  BY <1>1 DEF List
<1>. HIDE DEF T
<1>3. u \in Seq(T) /\ Len(u) = k - 1 /\ \A j \in 1 .. k - 1 : u[j] = s[j]
  <2>1. \A j \in 1 .. k - 1 : s[j] \in T
    BY <1>1, <1>2
  <2>2. /\ u \in Seq(T) /\ Len(u) = IF 1 <= k - 1 THEN k - 1 - 1 + 1 ELSE 0
        /\ \A j \in 1 .. (k - 1) - 1 + 1 : u[j] = s[1 + j - 1]
    BY <2>1, <1>1, SubSeqProperties
  <2>. HIDE DEF u
  <2>. QED
    BY <1>1, <2>2
<1>4. v \in Seq(T) /\ Len(v) = Len(s) - k /\ \A j \in 1 .. Len(s) - k : v[j] = s[k + j]
  <2>1. \A j \in k + 1 .. Len(s) : s[j] \in T
    BY <1>1, <1>2
  <2>2. /\ v \in Seq(T) /\ Len(v) = IF k + 1 <= Len(s) THEN Len(s) - (k + 1) + 1 ELSE 0
        /\ \A j \in 1 .. Len(s) - (k + 1) + 1 : v[j] = s[(k + 1) + j - 1]
    BY <2>1, <1>1, SubSeqProperties
  <2>. HIDE DEF v
  <2>3. ASSUME NEW j \in 1 .. Len(s) - k PROVE v[j] = s[k + j]
    <3>1. (k + 1) + j - 1 = k + j /\ j \in 1 .. Len(s) - (k + 1) + 1
      BY <1>1
    <3>. QED
      BY <2>2, <3>1
  <2>. QED
    BY <1>1, <2>2, <2>3
<1>5. t = u \o v
  BY DEF Cache!RemoveAt
<1>. HIDE DEF u, v, t
<1>6. t \in Seq(T) /\ Len(t) = Len(s) - 1
      /\ \A j \in 1 .. Len(s) - 1 : t[j] = IF j < k THEN s[j] ELSE s[j + 1]
  <2>1. t \in Seq(T) /\ Len(t) = Len(s) - 1
        /\ \A j \in 1 .. Len(s) - 1 : t[j] = IF j <= k - 1 THEN u[j] ELSE v[j - (k - 1)]
    <3>1. u \in Seq(T) /\ v \in Seq(T)
      BY <1>3, <1>4
    <3>2. /\ u \o v \in Seq(T) /\ Len(u \o v) = Len(u) + Len(v)
          /\ \A j \in 1 .. Len(u) + Len(v) :
               (u \o v)[j] = IF j <= Len(u) THEN u[j] ELSE v[j - Len(u)]
      BY ONLY <3>1, ConcatProperties, Zenon
    <3>3. Len(u) = k - 1 /\ Len(u) + Len(v) = Len(s) - 1
      BY <1>1, <1>3, <1>4
    <3>. QED
      BY ONLY <1>5, <3>2, <3>3, Zenon
  <2>2. ASSUME NEW j \in 1 .. Len(s) - 1 PROVE t[j] = IF j < k THEN s[j] ELSE s[j + 1]
    <3>1. CASE j < k
      BY <1>1, <1>3, <2>1, <3>1
    <3>2. CASE ~ (j < k)
      <4>1. j - (k - 1) \in 1 .. Len(s) - k /\ k + (j - (k - 1)) = j + 1 /\ ~ (j <= k - 1)
        BY <1>1, <3>2
      <4>. QED
        BY <1>4, <2>1, <3>2, <4>1
    <3>. QED
      BY <3>1, <3>2
  <2>. QED
    BY <2>1, <2>2
<1>7. ASSUME NEW x \in T PROVE \E j \in 1 .. Len(t) : t[j] = x
  <2>1. PICK j \in 1 .. Len(s) : s[j] = x
    BY DEF List, T
  <2>2. j # k
    BY <2>1 DEF T
  <2>3. CASE j < k
    <3>1. j \in 1 .. Len(s) - 1
      BY <1>1, <2>3
    <3>. QED
      BY <1>6, <2>1, <2>3, <3>1
  <2>4. CASE ~ (j < k)
    <3>1. j - 1 \in 1 .. Len(s) - 1 /\ ~ (j - 1 < k) /\ (j - 1) + 1 = j
      BY <1>1, <2>2, <2>4
    <3>. QED
      BY <1>6, <2>1, <3>1
  <2>. QED
    BY <2>3, <2>4
<1>8. ASSUME NEW i \in 1 .. Len(t), NEW j \in 1 .. Len(t), t[i] = t[j] PROVE i = j
  <2>. DEFINE at(x) == IF x < k THEN x ELSE x + 1
  <2>1. \A x \in 1 .. Len(t) : at(x) \in 1 .. Len(s) /\ t[x] = s[at(x)]
    <3>. TAKE x \in 1 .. Len(t)
    <3>1. x \in 1 .. Len(s) - 1
      BY <1>6
    <3>2. CASE x < k
      BY <1>1, <1>6, <3>1, <3>2
    <3>3. CASE ~ (x < k)
      BY <1>1, <1>6, <3>1, <3>3
    <3>. QED
      BY <3>2, <3>3
  <2>2. at(i) = at(j)
    <3>. DEFINE x == at(i)  y == at(j)
    <3>1. x \in 1 .. Len(s) /\ y \in 1 .. Len(s) /\ s[x] = s[y]
      <4>. HIDE DEF at
      <4>. QED
        BY <1>8, <2>1
    <3>. HIDE DEF x, y
    <3>2. x = y
      BY <3>1 DEF List
    <3>. QED
      BY <3>2 DEF x, y
  <2>. QED
    BY <1>1, <1>6, <2>2
<1>. QED
  BY <1>6, <1>7, <1>8 DEF List, T, t

\* cache.c, lru_remove and hash_remove: the list loses this node and no other.
LEMMA CacheWithoutIs ==
  ASSUME NEW S, NEW s, List(s, S), NEW i \in S
  PROVE  List(Cache!Without(s, i), S \ {i})
<1>1. DOMAIN s = 1 .. Len(s) /\ Cache!Range(s) = S
  BY ListSize, LenProperties DEF List
<1>2. \E k \in DOMAIN s : s[k] = i
  BY <1>1 DEF List
<1>. DEFINE k == CHOOSE k \in DOMAIN s : s[k] = i
<1>3. k \in 1 .. Len(s) /\ s[k] = i
  BY <1>1, <1>2
<1>4. Cache!Without(s, i) = Cache!RemoveAt(s, k)
  BY <1>1 DEF Cache!Without
<1>. HIDE DEF k
<1>. QED
  BY <1>3, <1>4, Unlinked

\* cache.c, evict_lru: the tail leaves the list.
LEMMA FrontIs ==
  ASSUME NEW S, NEW s, List(s, S), S # {}
  PROVE  Cache!Last(s) \in S /\ List(Cache!Front(s), S \ {Cache!Last(s)})
<1>1. s \in Seq(S) /\ Len(s) \in Nat /\ Len(s) \in 1 .. Len(s) /\ \A j \in 1 .. Len(s) : s[j] \in S
  BY LenProperties, ElementOfSeq DEF List
<1>2. List(Cache!RemoveAt(s, Len(s)), S \ {Cache!Last(s)})
  BY <1>1, Unlinked DEF Cache!Last
<1>3. SubSeq(s, Len(s) + 1, Len(s)) = <<>>
  BY <1>1, SubSeqEmpty
<1>4. SubSeq(s, 1, Len(s) - 1) \in Seq(S)
  BY <1>1, SubSeqProperties
<1>5. Cache!RemoveAt(s, Len(s)) = Cache!Front(s)
  BY <1>1, <1>3, <1>4, ConcatEmptySeq DEF Cache!RemoveAt, Cache!Front
<1>. QED
  BY <1>1, <1>2, <1>5 DEF Cache!Last

\* Induction along a range.
LEMMA UpTo ==
  ASSUME NEW n \in Nat, NEW S, 0 \in S, \A k \in 1 .. n : k - 1 \in S => k \in S
  PROVE  \A k \in 0 .. n : k \in S
<1>. DEFINE Bad == (0 .. n) \ S
<1>1. SUFFICES ASSUME Bad # {} PROVE FALSE
  OBVIOUS
<1>2. Bad \in SUBSET Nat
  OBVIOUS
<1>3. PICK m \in Bad : \A y \in Bad : m <= y
  BY ONLY <1>1, <1>2, LeastNat, Zenon
<1>4. m \in 1 .. n /\ m - 1 \in 0 .. n
  BY <1>3
<1>5. m - 1 \in S
  BY <1>3, <1>4
<1>. QED
  BY <1>3, <1>4, <1>5

\* The functions that go through a range step by step, as a recursive
\* definition does.
Steps(X, a, n, step) ==
  {g \in [0 .. n -> X] : g[0] = a /\ \A k \in 1 .. n : g[k] = step[<<g[k - 1], k>>]}

\* There is such a function.
LEMMA StepsExist ==
  ASSUME NEW X, NEW a \in X, NEW n \in Nat, NEW step \in [X \X (1 .. n) -> X]
  PROVE  Steps(X, a, n, step) # {}
<1>. DEFINE Reached == {m \in 0 .. n : \E g \in [0 .. m -> X] :
                         /\ g[0] = a
                         /\ \A k \in 1 .. m : g[k] = step[<<g[k - 1], k>>]}
<1>1. 0 \in Reached
  <2>. DEFINE f == [j \in 0 .. 0 |-> a]
  <2>1. f \in [0 .. 0 -> X] /\ f[0] = a /\ \A k \in 1 .. 0 : f[k] = step[<<f[k - 1], k>>]
    OBVIOUS
  <2>. HIDE DEF f
  <2>2. 0 \in 0 .. n
    OBVIOUS
  <2>. QED
    BY <2>1, <2>2
<1>2. ASSUME NEW m \in 1 .. n, m - 1 \in Reached PROVE m \in Reached
  <2>1. PICK g \in [0 .. m - 1 -> X] : /\ g[0] = a
                                       /\ \A k \in 1 .. m - 1 : g[k] = step[<<g[k - 1], k>>]
    BY <1>2
  <2>. DEFINE h == [j \in 0 .. m |-> IF j = m THEN step[<<g[m - 1], m>>] ELSE g[j]]
  <2>2. m - 1 \in 0 .. m - 1 /\ 0 \in 0 .. m - 1 /\ m \in 0 .. m /\ m \in 0 .. n
    OBVIOUS
  <2>3. step[<<g[m - 1], m>>] \in X
    BY <2>1, <2>2
  <2>4. \A j \in 0 .. m : j # m => j \in 0 .. m - 1 /\ g[j] \in X
    BY <2>1
  <2>5. h \in [0 .. m -> X]
    BY <2>3, <2>4
  <2>6. h[m] = step[<<g[m - 1], m>>] /\ \A j \in 0 .. m - 1 : h[j] = g[j]
    BY <2>2
  <2>. HIDE DEF h
  <2>7. h[0] = a
    BY <2>1, <2>2, <2>6
  <2>8. ASSUME NEW k \in 1 .. m PROVE h[k] = step[<<h[k - 1], k>>]
    <3>1. k - 1 \in 0 .. m - 1
      OBVIOUS
    <3>2. CASE k = m
      BY <2>6, <3>1, <3>2
    <3>3. CASE k # m
      <4>1. k \in 1 .. m - 1 /\ k \in 0 .. m - 1
        BY <3>3
      <4>. QED
        BY <2>1, <2>6, <3>1, <4>1
    <3>. QED
      BY <3>2, <3>3
  <2>. QED
    BY <2>2, <2>5, <2>7, <2>8
<1>3. n \in Reached => \E g \in [0 .. n -> X] : /\ g[0] = a
                                              /\ \A k \in 1 .. n : g[k] = step[<<g[k - 1], k>>]
  OBVIOUS
<1>. HIDE DEF Reached
<1>4. \A k \in 0 .. n : k \in Reached
  BY <1>1, <1>2, UpTo
<1>5. n \in 0 .. n
  OBVIOUS
<1>. QED
  BY <1>3, <1>4, <1>5 DEF Steps


\* cache.c, cache_invalidate: the list keeps the nodes that are not dropped.
LEMMA CacheKeptIs ==
  ASSUME NEW S, NEW s, List(s, S), NEW drop
  PROVE  List(Cache!Kept(s, drop), S \ drop)
<1>. DEFINE n == Len(s)
            T == S \ drop
            X == Seq(T)
            step == [x \in X \X (1 .. n) |->
                       IF s[x[2]] \in drop THEN x[1] ELSE Append(x[1], s[x[2]])]
            IsKept(t) == t = [k \in 0 .. n |->
                            IF k = 0 THEN <<>>
                            ELSE IF s[k] \in drop THEN t[k - 1] ELSE Append(t[k - 1], s[k])]
<1>1. n \in Nat /\ \A k \in 1 .. n : s[k] \in S
  BY LenProperties, ElementOfSeq DEF List
<1>2. \A k \in 1 .. n : s[k] \notin drop => s[k] \in T
  BY <1>1
<1>. HIDE DEF n, T
<1>3. step \in [X \X (1 .. n) -> X]
  <2>1. ASSUME NEW x \in X \X (1 .. n), s[x[2]] \notin drop PROVE Append(x[1], s[x[2]]) \in X
    <3>1. x[1] \in Seq(T) /\ s[x[2]] \in T
      BY <1>2, <2>1
    <3>. QED
      BY <3>1, AppendProperties
  <2>2. \A x \in X \X (1 .. n) : x[1] \in X
    <3>. HIDE DEF X
    <3>. QED
      OBVIOUS
  <2>. QED
    BY <2>1, <2>2
<1>4. \E t \in [0 .. n -> X] : IsKept(t)
  <2>1. <<>> \in X
    OBVIOUS
  <2>2. PICK t \in [0 .. n -> X] : t[0] = <<>> /\ \A k \in 1 .. n : t[k] = step[<<t[k - 1], k>>]
    <3>. HIDE DEF X, step
    <3>1. Steps(X, <<>>, n, step) # {}
      BY ONLY <1>1, <1>3, <2>1, StepsExist, Zenon
    <3>. QED
      BY <3>1 DEF Steps
  <2>3. ASSUME NEW k \in 1 .. n
        PROVE  t[k] = IF s[k] \in drop THEN t[k - 1] ELSE Append(t[k - 1], s[k])
    <3>. HIDE DEF X
    <3>1. k - 1 \in 0 .. n
      BY <1>1
    <3>2. t[k - 1] \in X
      BY <2>2, <3>1
    <3>3. ASSUME NEW u \in X
          PROVE  step[<<u, k>>] = IF s[k] \in drop THEN u ELSE Append(u, s[k])
      OBVIOUS
    <3>4. t[k] = step[<<t[k - 1], k>>]
      BY <2>2
    <3>. HIDE DEF step
    <3>. QED
      BY <3>2, <3>3, <3>4
  <2>4. IsKept(t)
    <3>. HIDE DEF step, X
    <3>1. \A k \in 0 .. n : k = 0 \/ k \in 1 .. n
      BY <1>1
    <3>. QED
      BY <2>2, <2>3, <3>1
  <2>. QED
    BY <2>4
<1>5. PICK t : IsKept(t) /\ Cache!Kept(s, drop) = t[n]
  BY <1>4 DEF Cache!Kept, n
<1>. HIDE DEF step, X
<1>6. t[0] = <<>> /\ \A k \in 1 .. n :
        t[k] = IF s[k] \in drop THEN t[k - 1] ELSE Append(t[k - 1], s[k])
  <2>1. 0 \in 0 .. n /\ \A k \in 1 .. n : k \in 0 .. n /\ k # 0
    BY <1>1
  <2>. QED
    BY <1>5, <2>1
<1>. HIDE DEF IsKept
<1>. DEFINE Part(k) == {s[j] : j \in 1 .. k} \ drop
            Good == {k \in 0 .. n : List(t[k], Part(k))}
<1>7. 0 \in Good
  <2>1. List(<<>>, {})
    BY EmptySeq DEF List
  <2>2. Part(0) = {}
    OBVIOUS
  <2>3. 0 \in 0 .. n
    BY <1>1
  <2>. QED
    BY <1>6, <2>1, <2>2, <2>3
<1>8. ASSUME NEW k \in 1 .. n, k - 1 \in Good PROVE k \in Good
  <2>. DEFINE u == t[k - 1]  P == Part(k - 1)  Q == Part(k)
  <2>1. List(u, P)
    BY <1>8
  <2>2. \A j \in 1 .. k : j = k \/ j \in 1 .. k - 1
    BY <1>1
  <2>3. \A j \in 1 .. k - 1 : j \in 1 .. k /\ j \in 1 .. n /\ j # k
    BY <1>1
  <2>4. ASSUME s[k] \in drop PROVE List(t[k], Q)
    <3>1. P = Q
      BY <2>2, <2>3, <2>4
    <3>2. t[k] = u
      BY <1>6, <2>4
    <3>. QED
      BY ONLY <2>1, <3>1, <3>2, Zenon
  <2>5. ASSUME s[k] \notin drop PROVE List(t[k], Q)
    <3>1. Q = P \cup {s[k]}
      BY <2>2, <2>3, <2>5
    <3>2. s[k] \notin P
      BY <2>3 DEF List, n
    <3>3. t[k] = Append(u, s[k])
      BY <1>6, <2>5
    <3>. HIDE DEF u, P, Q
    <3>. QED
      BY <2>1, <3>1, <3>2, <3>3, Appended
  <2>6. k \in 0 .. n
    BY <1>1
  <2>. QED
    BY <2>4, <2>5, <2>6
<1>9. n \in Good
  <2>1. n \in 0 .. n
    BY <1>1
  <2>. HIDE DEF Good
  <2>. QED
    BY <1>1, <1>7, <1>8, <2>1, UpTo
<1>10. Part(n) = S \ drop
  <2>1. \A x \in S : \E j \in 1 .. n : s[j] = x
    BY DEF List, n
  <2>. QED
    BY <1>1, <2>1
<1>. QED
  BY <1>5, <1>9, <1>10

-----------------------------------------------------------------------------
CacheCells == CacheNames \X Nat
CacheEntries == [name : CacheNames, block : Nat, data : Seq(CacheCells)]
CacheReads == [name : CacheNames, offset : Nat, count : Nat, want : Nat, out : Seq(CacheCells)]

CacheValid == Cache!Pool \ Cache!Invalid
CacheOnChain(c) == {i \in CacheValid : Hash(pool[i].name, pool[i].block) = c}

\* What the pool holds.
CachePoolInv ==
  /\ pool \in [Cache!Pool -> CacheEntries \cup {None}] /\ free_hint \in Cache!Pool
  /\ \A i \in CacheValid : Len(pool[i].data) <= BlockSize /\ Hash(pool[i].name, pool[i].block) \in Buckets

\* The LRU list and each chain have the entries they should, once.
CacheListsInv ==
  /\ List(lru, CacheValid) /\ used_blocks = Len(lru)
  /\ hash_table \in [Buckets -> Seq(Cache!Pool)]
  /\ \A c \in Buckets : List(hash_table[c], CacheOnChain(c))

\* The read under way stays within its file.
CacheReadInv ==
  rd # None =>
    /\ rd \in CacheReads /\ rd.offset + rd.want <= Size(rd.name)
    /\ rd.count <= rd.want /\ Len(rd.out) <= rd.count

CacheStructInv == CachePoolInv /\ CacheListsInv /\ CacheReadInv

\* A block that has a byte of the file.
CacheBlockOf(n, b) == b \in 0 .. Size(n) /\ b * BlockSize < Size(n)

\* A place is in the block it is divided to.
LEMMA Place ==
  ASSUME NEW A \in Nat \ {0}, NEW x \in Nat
  PROVE  /\ x \div A \in Nat /\ x \div A <= x /\ x % A \in 0 .. A - 1
         /\ (x \div A) * A \in Nat /\ x = (x \div A) * A + (x % A)
<1>1. PICK q \in Int : q = x \div A
  BY SMT
<1>2. PICK r \in 0 .. A - 1 : r = x % A
  BY SMT
<1>3. PICK z \in Int : z = q * A
  BY SMT
<1>4. x = z + r
  BY <1>1, <1>2, <1>3, Z3
<1>5. q >= 0
  BY <1>2, <1>3, <1>4, Z3
<1>6. z >= q
  BY <1>3, <1>5, Z3
<1>7. z = (x \div A) * A
  BY <1>1, <1>3
<1>8. q <= x
  BY <1>2, <1>4, <1>5, <1>6
<1>9. z \in Nat /\ q \in Nat
  BY <1>3, <1>5, <1>6
<1>10. x = (x \div A) * A + (x % A)
  BY ONLY <1>2, <1>4, <1>7, Zenon
<1>11. (x \div A) * A \in Nat
  BY ONLY <1>7, <1>9, Zenon
<1>. QED
  BY ONLY <1>1, <1>2, <1>8, <1>9, <1>10, <1>11, Zenon

\* What fills a block.
LEMMA CacheFilledIs ==
  ASSUME Cache!CacheAssumption, NEW n \in CacheNames, NEW b, CacheBlockOf(n, b)
  PROVE  /\ Cache!Filled(n, b) \in Seq(CacheCells)
         /\ Len(Cache!Filled(n, b)) = Cache!Smaller(BlockSize, Size(n) - b * BlockSize)
         /\ Len(Cache!Filled(n, b)) \in 1 .. BlockSize
         /\ \A i \in 1 .. Len(Cache!Filled(n, b)) : Cache!Filled(n, b)[i] = <<n, b * BlockSize + i - 1>>
<1>. DEFINE z == b * BlockSize
            m == Cache!Smaller(BlockSize, Size(n) - z)
            f == Cache!Filled(n, b)
<1>1. BlockSize \in Nat \ {0} /\ Size(n) \in Nat /\ b \in Nat /\ z < Size(n)
  BY DEF Cache!CacheAssumption, CacheBlockOf
<1>2. z \in Nat
  BY <1>1, Z3
<1>. HIDE DEF z
<1>3. m \in 1 .. BlockSize
  BY <1>1, <1>2 DEF Cache!Smaller
<1>4. f = [i \in 1 .. m |-> <<n, z + i - 1>>]
  BY DEF Cache!Filled, z
<1>. HIDE DEF m, f
<1>5. \A i \in 1 .. m : <<n, z + i - 1>> \in CacheCells
  BY <1>2, <1>3 DEF CacheCells
<1>6. f \in [1 .. m -> CacheCells] /\ \A i \in 1 .. m : f[i] = <<n, z + i - 1>>
  BY <1>4, <1>5
<1>7. f \in Seq(CacheCells) /\ Len(f) = m
  BY <1>3, <1>6
<1>. QED
  BY <1>3, <1>6, <1>7 DEF f, m, z

\* cache.c, alloc_block: a free slot is found when there is one.
LEMMA CacheAllocatedIs ==
  ASSUME Cache!CacheAssumption, free_hint \in Cache!Pool, Cache!Invalid # {}
  PROVE  Cache!Allocated \in Cache!Invalid
<1>. DEFINE at(k) == (free_hint + k) % MaxBlocks
            S == {k \in Cache!Pool : at(k) \in Cache!Invalid}
<1>1. MaxBlocks \in Nat \ {0} /\ free_hint \in 0 .. MaxBlocks - 1 /\ Cache!Invalid \subseteq 0 .. MaxBlocks - 1
  BY DEF Cache!CacheAssumption, Cache!Pool, Cache!Invalid
<1>2. PICK i \in Cache!Invalid : TRUE
  OBVIOUS
<1>3. \E k \in 0 .. MaxBlocks - 1 : at(k) = i
  <2>1. i \in 0 .. MaxBlocks - 1
    BY <1>1, <1>2
  <2>2. CASE free_hint <= i
    <3>1. i - free_hint \in 0 .. MaxBlocks - 1 /\ at(i - free_hint) = i
      BY <1>1, <2>1, <2>2
    <3>. QED
      BY <3>1
  <2>3. CASE ~ (free_hint <= i)
    <3>1. i + MaxBlocks - free_hint \in 0 .. MaxBlocks - 1 /\ at(i + MaxBlocks - free_hint) = i
      BY <1>1, <2>1, <2>3
    <3>. QED
      BY <3>1
  <2>. QED
    BY <2>2, <2>3
<1>4. S # {} /\ S \in SUBSET Nat
  <2>. HIDE DEF at
  <2>1. PICK k \in Cache!Pool : at(k) = i
    BY <1>3 DEF Cache!Pool
  <2>2. Cache!Pool \in SUBSET Nat
    BY DEF Cache!Pool
  <2>. QED
    BY <1>2, <2>1, <2>2
<1>5. PICK k \in S : \A j \in S : k <= j
  <2>. HIDE DEF S
  <2>. QED
    BY <1>4, LeastNat
<1>6. \A j \in Cache!Pool : j < k => at(j) \notin Cache!Invalid
  <2>. TAKE j \in Cache!Pool
  <2>1. j \in S => k <= j
    BY <1>5
  <2>2. k \in Nat /\ j \in Nat
    BY <1>4, <1>1 DEF Cache!Pool
  <2>. HIDE DEF S
  <2>3. j < k => j \notin S
    BY <2>1, <2>2
  <2>. QED
    BY <2>3 DEF S
<1>7. \E l \in Cache!Pool : at(l) \in Cache!Invalid /\ \A j \in Cache!Pool : j < l => at(j) \notin Cache!Invalid
  BY <1>5, <1>6
<1>. HIDE DEF S
<1>. QED
  BY <1>7 DEF Cache!Allocated

\* cache.c, cache_get_block after a miss: slot i is on both lists, no other
\* entry is disturbed.
LEMMA CacheInserted ==
  ASSUME Cache!CacheAssumption, CachePoolInv, NEW n \in CacheNames, NEW b, CacheBlockOf(n, b), NEW i \in Cache!Pool,
         NEW chains \in [Buckets -> Seq(Cache!Pool)], NEW list,
         List(list, CacheValid \ {i}), \A c \in Buckets : List(chains[c], CacheOnChain(c) \ {i}),
         Cache!Insert(i, n, b, chains, list)
  PROVE  /\ pool' = [pool EXCEPT ![i] = Cache!Entry(n, b)] /\ pool' \in [Cache!Pool -> CacheEntries \cup {None}]
         /\ CacheValid' = CacheValid \cup {i} /\ Cache!Entry(n, b) \in CacheEntries
         /\ \A j \in CacheValid' : Len(pool'[j].data) <= BlockSize
                              /\ Hash(pool'[j].name, pool'[j].block) \in Buckets
         /\ List(lru', CacheValid') /\ lru'[1] = i /\ Len(lru') = Len(list) + 1
         /\ hash_table' \in [Buckets -> Seq(Cache!Pool)]
         /\ \A c \in Buckets : List(hash_table'[c], CacheOnChain(c)')
<1>. DEFINE e == Cache!Entry(n, b)  h == Hash(Tag(n), b)
<1>1. /\ e \in CacheEntries /\ e # None /\ h \in Buckets
      /\ e.name = Tag(n) /\ e.block = b /\ Len(e.data) <= BlockSize
  <2>1. Tag(n) \in CacheNames /\ b \in Nat /\ Cache!Filled(n, b) \in Seq(CacheCells) /\ Len(Cache!Filled(n, b)) <= BlockSize
    <3>1. Tag(n) \in CacheNames /\ b \in Nat
      BY DEF Cache!CacheAssumption, CacheBlockOf
    <3>. QED
      BY <3>1, CacheFilledIs
  <2>2. e # None /\ h \in Buckets
    BY <2>1 DEF Cache!CacheAssumption, CacheBlockOf
  <2>. QED
    BY <2>1, <2>2 DEF Cache!Entry, CacheEntries
<1>2. /\ pool' = [pool EXCEPT ![i] = e]
      /\ hash_table' = [chains EXCEPT ![h] = <<i>> \o @]
      /\ lru' = <<i>> \o list
  BY DEF Cache!Insert
<1>. HIDE DEF e, h
<1>3. /\ pool' \in [Cache!Pool -> CacheEntries \cup {None}] /\ pool'[i] = e
      /\ \A j \in Cache!Pool : j # i => pool'[j] = pool[j]
  BY <1>1, <1>2 DEF CachePoolInv
<1>4. CacheValid' = CacheValid \cup {i} /\ i \notin CacheValid \ {i} /\ CacheValid' = (CacheValid \ {i}) \cup {i}
  BY <1>1, <1>3 DEF CacheValid, Cache!Invalid
<1>5. \A j \in CacheValid' : Len(pool'[j].data) <= BlockSize
                        /\ Hash(pool'[j].name, pool'[j].block) \in Buckets
  <2>. TAKE j \in CacheValid'
  <2>1. CASE j = i
    BY <1>1, <1>3, <2>1 DEF h
  <2>2. CASE j # i
    BY <1>3, <1>4, <2>2 DEF CachePoolInv, CacheValid
  <2>. QED
    BY <2>1, <2>2
<1>6. List(lru', CacheValid')
  <2>. DEFINE V == CacheValid \ {i}
  <2>1. List(list, V) /\ i \notin V
    OBVIOUS
  <2>. HIDE DEF V
  <2>2. List(<<i>> \o list, V \cup {i})
    BY ONLY <2>1, Pushed, Zenon
  <2>. QED
    BY <1>2, <1>4, <2>2 DEF V
<1>7. lru'[1] = i /\ Len(lru') = Len(list) + 1
  <2>1. list \in Seq(Cache!Pool) /\ <<i>> \in Seq(Cache!Pool) /\ Len(<<i>>) = 1 /\ <<i>>[1] = i
    <3>1. list \in Seq(CacheValid \ {i})
      BY DEF List
    <3>. QED
      BY <3>1, SeqMonotonic DEF CacheValid
  <2>. QED
    BY <1>2, <2>1, ConcatProperties, LenProperties
<1>8. hash_table' \in [Buckets -> Seq(Cache!Pool)] /\ hash_table'[h] = <<i>> \o chains[h]
      /\ \A c \in Buckets : c # h => hash_table'[c] = chains[c]
  <2>1. <<i>> \o chains[h] \in Seq(Cache!Pool)
    BY <1>1, ConcatProperties
  <2>. QED
    BY <1>1, <1>2, <2>1
<1>9. /\ CacheOnChain(h)' = (CacheOnChain(h) \ {i}) \cup {i}
      /\ \A c \in Buckets : c # h => CacheOnChain(c)' = CacheOnChain(c) \ {i}
  BY <1>1, <1>3, <1>4 DEF CacheOnChain, h, CacheValid
<1>10. ASSUME NEW c \in Buckets PROVE List(hash_table'[c], CacheOnChain(c)')
  <2>1. CASE c = h
    <3>1. List(<<i>> \o chains[h], (CacheOnChain(h) \ {i}) \cup {i})
      BY <1>1, Pushed
    <3>. QED
      BY <1>8, <1>9, <2>1, <3>1
  <2>2. CASE c # h
    BY <1>8, <1>9, <2>2
  <2>. QED
    BY <2>1, <2>2
<1>. QED
  BY <1>1, <1>2, <1>3, <1>4, <1>5, <1>6, <1>7, <1>8, <1>10 DEF e

\* cache.c, cache_get_block: the block is at the head of the LRU list, as it
\* was or newly filled, and pool, chains and list agree again.
LEMMA CacheGetBlock ==
  ASSUME Cache!CacheAssumption, CachePoolInv, CacheListsInv, NEW n \in CacheNames, NEW b, CacheBlockOf(n, b),
         Cache!cache_get_block(n, b)
  PROVE  /\ CachePoolInv' /\ CacheListsInv' /\ lru'[1] \in CacheValid'
         /\ \/ pool' = pool /\ lru'[1] \in Cache!hash_lookup(n, b)
            \/ /\ pool' = [pool EXCEPT ![lru'[1]] = Cache!Entry(n, b)] /\ Cache!hash_lookup(n, b) = {}
               /\ lru'[1] \in Cache!Pool /\ CacheValid' = CacheValid \cup {lru'[1]}
<1>. DEFINE h == Hash(n, b)
<1>1. h \in Buckets /\ Cache!Range(hash_table[h]) = CacheOnChain(h) /\ MaxBlocks \in Nat \ {0}
  <2>1. h \in Buckets /\ MaxBlocks \in Nat \ {0}
    BY DEF CacheBlockOf, Cache!CacheAssumption
  <2>2. List(hash_table[h], CacheOnChain(h))
    BY <2>1 DEF CacheListsInv
  <2>. QED
    BY <2>1, <2>2, ListSize
<1>2. ASSUME NEW i \in Cache!hash_lookup(n, b), lru' = <<i>> \o Cache!Without(lru, i),
             UNCHANGED <<pool, hash_table, free_hint, used_blocks>>
      PROVE  CachePoolInv' /\ CacheListsInv' /\ lru'[1] \in CacheValid' /\ pool' = pool /\ lru'[1] = i
  <2>1. i \in CacheValid
    BY <1>1, <1>2 DEF Cache!hash_lookup, CacheOnChain
  <2>2. CacheValid' = CacheValid /\ \A c \in Buckets : CacheOnChain(c)' = CacheOnChain(c)
    BY <1>2 DEF CacheValid, Cache!Invalid, CacheOnChain
  <2>3. List(Cache!Without(lru, i), CacheValid \ {i})
    BY <2>1, CacheWithoutIs DEF CacheListsInv
  <2>4. List(lru', CacheValid)
    <3>. DEFINE V == CacheValid \ {i}  s == Cache!Without(lru, i)
    <3>1. List(s, V) /\ i \notin V
      BY <2>3
    <3>2. V \cup {i} = CacheValid
      BY <2>1
    <3>. HIDE DEF V, s
    <3>3. List(<<i>> \o s, V \cup {i})
      BY ONLY <3>1, Pushed, Zenon
    <3>. QED
      BY <1>2, <3>2, <3>3 DEF s
  <2>5. Len(lru') = Len(lru)
    <3>1. Cardinality(CacheValid) = Len(lru')
      BY <2>4, ListSize
    <3>2. Cardinality(CacheValid) = Len(lru)
      BY ListSize DEF CacheListsInv
    <3>. QED
      BY <3>1, <3>2
  <2>6. lru'[1] = i
    <3>1. <<i>> \in Seq(CacheValid) /\ Cache!Without(lru, i) \in Seq(CacheValid) /\ <<i>>[1] = i /\ Len(<<i>>) = 1
      <4>1. Cache!Without(lru, i) \in Seq(CacheValid \ {i})
        BY <2>3 DEF List
      <4>. QED
        BY <2>1, <4>1, SeqMonotonic
    <3>. QED
      BY <1>2, <3>1, ConcatProperties, LenProperties
  <2>7. CachePoolInv'
    BY <1>2, <2>2 DEF CachePoolInv
  <2>8. CacheListsInv'
    BY <1>2, <2>2, <2>4, <2>5 DEF CacheListsInv
  <2>. QED
    BY <1>2, <2>1, <2>2, <2>6, <2>7, <2>8
<1>3. ASSUME Cache!Invalid # {}, Cache!Insert(Cache!Allocated, n, b, hash_table, lru),
             free_hint' = (Cache!Allocated + 1) % MaxBlocks, used_blocks' = used_blocks + 1
      PROVE  /\ CachePoolInv' /\ CacheListsInv' /\ lru'[1] \in CacheValid' /\ lru'[1] \in Cache!Pool
             /\ pool' = [pool EXCEPT ![lru'[1]] = Cache!Entry(n, b)] /\ CacheValid' = CacheValid \cup {lru'[1]}
  <2>. DEFINE i == Cache!Allocated
  <2>1. i \in Cache!Invalid /\ i \in Cache!Pool
    BY <1>3, CacheAllocatedIs DEF CachePoolInv, Cache!Invalid
  <2>2. CacheValid \ {i} = CacheValid /\ \A c \in Buckets : CacheOnChain(c) \ {i} = CacheOnChain(c)
    BY <2>1 DEF CacheValid, CacheOnChain
  <2>3. List(lru, CacheValid \ {i}) /\ \A c \in Buckets : List(hash_table[c], CacheOnChain(c) \ {i})
    BY <2>2 DEF CacheListsInv
  <2>4. hash_table \in [Buckets -> Seq(Cache!Pool)] /\ used_blocks = Len(lru)
    BY DEF CacheListsInv
  <2>. HIDE DEF i
  <2>5. Cache!Insert(i, n, b, hash_table, lru)
    BY <1>3 DEF i
  <2>6. /\ pool' = [pool EXCEPT ![i] = Cache!Entry(n, b)] /\ pool' \in [Cache!Pool -> CacheEntries \cup {None}]
        /\ CacheValid' = CacheValid \cup {i} /\ Cache!Entry(n, b) \in CacheEntries
        /\ \A j \in CacheValid' : Len(pool'[j].data) <= BlockSize
                             /\ Hash(pool'[j].name, pool'[j].block) \in Buckets
        /\ List(lru', CacheValid') /\ lru'[1] = i /\ Len(lru') = Len(lru) + 1
        /\ hash_table' \in [Buckets -> Seq(Cache!Pool)]
        /\ \A c \in Buckets : List(hash_table'[c], CacheOnChain(c)')
    BY ONLY Cache!CacheAssumption, CachePoolInv, n \in CacheNames, CacheBlockOf(n, b), <2>1, <2>3, <2>4, <2>5, CacheInserted, Zenon
  <2>7. free_hint' \in Cache!Pool
    <3>1. i \in Nat
      BY <2>1 DEF Cache!Pool
    <3>2. (i + 1) % MaxBlocks \in 0 .. MaxBlocks - 1
      BY <1>1, <3>1
    <3>. QED
      BY <1>3, <3>2 DEF i, Cache!Pool
  <2>8. CachePoolInv'
    BY <2>6, <2>7 DEF CachePoolInv
  <2>9. CacheListsInv'
    BY <1>3, <2>4, <2>6 DEF CacheListsInv
  <2>. QED
    BY <2>1, <2>6, <2>8, <2>9
<1>4. ASSUME Cache!Invalid = {}, Cache!Insert(Cache!Last(lru), n, b, Cache!hash_remove(Cache!Last(lru)), Cache!Front(lru)),
             used_blocks' = Cache!Recycled, free_hint' = free_hint
      PROVE  /\ CachePoolInv' /\ CacheListsInv' /\ lru'[1] \in CacheValid' /\ lru'[1] \in Cache!Pool
             /\ pool' = [pool EXCEPT ![lru'[1]] = Cache!Entry(n, b)] /\ CacheValid' = CacheValid \cup {lru'[1]}
  <2>. DEFINE i == Cache!Last(lru)  list == Cache!Front(lru)  chains == Cache!hash_remove(i)
              g == Hash(pool[i].name, pool[i].block)
  <2>1. CacheValid # {}
    <3>1. 0 \in Cache!Pool
      BY <1>1 DEF Cache!Pool
    <3>. QED
      BY <1>4, <3>1 DEF CacheValid
  <2>2. i \in CacheValid /\ List(list, CacheValid \ {i})
    BY <2>1, FrontIs DEF CacheListsInv
  <2>3. i \in Cache!Pool /\ g \in Buckets /\ i \in CacheOnChain(g)
    BY <2>2 DEF CacheValid, CacheOnChain, CachePoolInv
  <2>4. hash_table \in [Buckets -> Seq(Cache!Pool)] /\ used_blocks = Len(lru)
        /\ \A c \in Buckets : List(hash_table[c], CacheOnChain(c))
    BY DEF CacheListsInv
  <2>. HIDE DEF i, list, g
  <2>5. List(Cache!Without(hash_table[g], i), CacheOnChain(g) \ {i})
    BY <2>3, <2>4, CacheWithoutIs
  <2>6. Cache!Without(hash_table[g], i) \in Seq(Cache!Pool)
    <3>1. Cache!Without(hash_table[g], i) \in Seq(CacheOnChain(g) \ {i})
      BY <2>5 DEF List
    <3>. QED
      BY <3>1, SeqMonotonic DEF CacheOnChain, CacheValid
  <2>7. chains = [hash_table EXCEPT ![g] = Cache!Without(@, i)]
    BY DEF Cache!hash_remove, g
  <2>. HIDE DEF chains
  <2>8. chains \in [Buckets -> Seq(Cache!Pool)] /\ chains[g] = Cache!Without(hash_table[g], i)
        /\ \A c \in Buckets : c # g => chains[c] = hash_table[c]
    BY <2>3, <2>4, <2>6, <2>7
  <2>9. ASSUME NEW c \in Buckets PROVE List(chains[c], CacheOnChain(c) \ {i})
    <3>1. CASE c = g
      BY <2>5, <2>8, <3>1
    <3>2. CASE c # g
      <4>1. CacheOnChain(c) \ {i} = CacheOnChain(c)
        BY <3>2 DEF CacheOnChain, g
      <4>. QED
        BY <2>4, <2>8, <3>2, <4>1
    <3>. QED
      BY <3>1, <3>2
  <2>10. Cache!Insert(i, n, b, chains, list)
    BY <1>4 DEF i, list, chains
  <2>11. /\ pool' = [pool EXCEPT ![i] = Cache!Entry(n, b)] /\ pool' \in [Cache!Pool -> CacheEntries \cup {None}]
         /\ CacheValid' = CacheValid \cup {i} /\ Cache!Entry(n, b) \in CacheEntries
         /\ \A j \in CacheValid' : Len(pool'[j].data) <= BlockSize
                              /\ Hash(pool'[j].name, pool'[j].block) \in Buckets
         /\ List(lru', CacheValid') /\ lru'[1] = i /\ Len(lru') = Len(list) + 1
         /\ hash_table' \in [Buckets -> Seq(Cache!Pool)]
         /\ \A c \in Buckets : List(hash_table'[c], CacheOnChain(c)')
    BY ONLY Cache!CacheAssumption, CachePoolInv, n \in CacheNames, CacheBlockOf(n, b), <2>2, <2>3, <2>8, <2>9, <2>10,
       CacheInserted, Zenon
  <2>12. Len(lru') = Len(lru)
    <3>1. CacheValid' = CacheValid
      BY <2>2, <2>11
    <3>2. Cardinality(CacheValid) = Len(lru')
      BY <2>11, <3>1, ListSize
    <3>3. Cardinality(CacheValid) = Len(lru)
      BY ListSize DEF CacheListsInv
    <3>. QED
      BY <3>2, <3>3
  <2>13. CachePoolInv'
    BY <1>4, <2>11 DEF CachePoolInv
  <2>14. CacheListsInv'
    BY <1>4, <2>4, <2>11, <2>12 DEF CacheListsInv, Cache!Recycled
  <2>. QED
    BY <2>3, <2>11, <2>13, <2>14
<1>5. CASE \E i \in Cache!hash_lookup(n, b) :
             /\ lru' = <<i>> \o Cache!Without(lru, i)
             /\ UNCHANGED <<pool, hash_table, free_hint, used_blocks>>
  BY <1>2, <1>5
<1>6. CASE /\ Cache!hash_lookup(n, b) = {} /\ Cache!Invalid # {}
           /\ Cache!Insert(Cache!Allocated, n, b, hash_table, lru)
           /\ free_hint' = (Cache!Allocated + 1) % MaxBlocks
           /\ used_blocks' = used_blocks + 1
  BY <1>3, <1>6
<1>7. CASE /\ Cache!hash_lookup(n, b) = {} /\ Cache!Invalid = {}
           /\ Cache!Insert(Cache!Last(lru), n, b, Cache!hash_remove(Cache!Last(lru)), Cache!Front(lru))
           /\ used_blocks' = Cache!Recycled
           /\ UNCHANGED free_hint
  BY <1>4, <1>7
<1>. QED
  BY ONLY Cache!cache_get_block(n, b), <1>5, <1>6, <1>7, Zenon DEF Cache!cache_get_block

\* The smaller of two positive numbers.
LEMMA CacheSmallerIs ==
  ASSUME NEW a \in Nat \ {0}, NEW b \in Nat \ {0}
  PROVE  Cache!Smaller(a, b) \in Nat \ {0} /\ Cache!Smaller(a, b) <= a /\ Cache!Smaller(a, b) <= b
BY DEF Cache!Smaller

\* Some elements from the middle of a sequence.
LEMMA Slice ==
  ASSUME NEW S, NEW s \in Seq(S), NEW m \in Nat, NEW c \in Nat \ {0}, m + c <= Len(s)
  PROVE  LET p == SubSeq(s, m + 1, m + c)
         IN  p \in Seq(S) /\ Len(p) = c /\ \A k \in 1 .. c : p[k] = s[m + k]
<1>. DEFINE l == m + 1  h == m + c  p == SubSeq(s, l, h)
<1>1. l \in Int /\ h \in Int /\ l <= h /\ h - l + 1 = c /\ \A k \in 1 .. c : l + k - 1 = m + k
  OBVIOUS
<1>2. \A i \in l .. h : s[i] \in S
  <2>1. \A i \in l .. h : i \in 1 .. Len(s)
    BY LenProperties
  <2>. QED
    BY <2>1, ElementOfSeq
<1>. HIDE DEF l, h
<1>3. /\ p \in Seq(S) /\ Len(p) = IF l <= h THEN h - l + 1 ELSE 0
      /\ \A i \in 1 .. h - l + 1 : p[i] = s[l + i - 1]
  BY <1>1, <1>2, SubSeqProperties
<1>. HIDE DEF p
<1>4. ASSUME NEW k \in 1 .. c PROVE p[k] = s[m + k]
  <2>1. l + k - 1 = m + k
    BY <1>1
  <2>2. p[k] = s[l + k - 1]
    BY <1>1, <1>3
  <2>. QED
    BY ONLY <2>1, <2>2, Zenon
<1>. QED
  BY <1>1, <1>3, <1>4 DEF p, l, h

\* cache.c, cache_init: an empty cache.
LEMMA CacheInitStruct == Cache!CacheAssumption /\ Cache!Init => CacheStructInv
<1>. SUFFICES ASSUME Cache!CacheAssumption, Cache!Init PROVE CacheStructInv
  OBVIOUS
<1>1. Cache!Invalid = Cache!Pool /\ CacheValid = {} /\ \A c \in Buckets : CacheOnChain(c) = {}
  BY DEF Cache!Init, Cache!Invalid, CacheValid, CacheOnChain
<1>2. List(<<>>, {}) /\ Len(<<>>) = 0
  BY EmptySeq DEF List
<1>3. 0 \in Cache!Pool
  BY DEF Cache!CacheAssumption, Cache!Pool
<1>4. CachePoolInv
  BY <1>1, <1>3 DEF Cache!Init, CachePoolInv
<1>5. CacheListsInv
  <2>1. hash_table \in [Buckets -> Seq(Cache!Pool)] /\ \A c \in Buckets : hash_table[c] = <<>>
    BY DEF Cache!Init
  <2>. QED
    BY <1>1, <1>2, <2>1 DEF Cache!Init, CacheListsInv
<1>. QED
  BY <1>4, <1>5 DEF Cache!Init, CacheStructInv, CacheReadInv

\* What a turn of the loop finds: its place is in a block of the file, and
\* the block it gets is a valid entry.
LEMMA CacheTurnIs ==
  ASSUME Cache!CacheAssumption, CacheStructInv, Cache!ReadBlock
  PROVE  LET at == rd.offset + Len(rd.out)
             b == at \div BlockSize
             off == at % BlockSize
             data == pool'[lru'[1]].data
             left == rd.count - Len(rd.out)
         IN  /\ rd \in CacheReads /\ at \in Nat /\ off \in 0 .. BlockSize - 1
             /\ b * BlockSize \in Nat /\ at = b * BlockSize + off /\ CacheBlockOf(rd.name, b)
             /\ at < Size(rd.name)
             /\ Cache!cache_get_block(rd.name, b) /\ CachePoolInv' /\ CacheListsInv'
             /\ data \in Seq(CacheCells) /\ Len(data) \in 0 .. BlockSize
             /\ rd' = IF off >= Len(data) THEN [rd EXCEPT !.count = Len(rd.out)]
                      ELSE [rd EXCEPT !.out = @ \o SubSeq(data, off + 1,
                              off + Cache!Smaller(Cache!Smaller(BlockSize - off, left), Len(data) - off))]
<1>. DEFINE n == rd.name
            at == rd.offset + Len(rd.out)
            b == at \div BlockSize
            off == at % BlockSize
            data == pool'[lru'[1]].data
<1>1. /\ rd \in CacheReads /\ rd.offset + rd.want <= Size(n) /\ rd.count <= rd.want
      /\ Len(rd.out) < rd.count /\ rd # None
  <2>1. rd \in CacheReads
    BY DEF CacheStructInv, CacheReadInv, Cache!ReadBlock
  <2>2. Len(rd.out) \in Nat
    BY <2>1 DEF CacheReads
  <2>. QED
    BY <2>1, <2>2 DEF CacheStructInv, CacheReadInv, Cache!ReadBlock
<1>2. n \in CacheNames /\ rd.offset \in Nat /\ rd.count \in Nat /\ rd.want \in Nat /\ Len(rd.out) \in Nat
  BY <1>1 DEF CacheReads
<1>3. BlockSize \in Nat \ {0} /\ Size(n) \in Nat
  BY <1>2 DEF Cache!CacheAssumption
<1>4. at \in Nat /\ at < Size(n)
  BY <1>1, <1>2, <1>3
<1>. HIDE DEF at
<1>5. b \in Nat /\ b <= at /\ off \in 0 .. BlockSize - 1 /\ b * BlockSize \in Nat
      /\ at = b * BlockSize + off
  <2>1. /\ at \div BlockSize \in Nat /\ at \div BlockSize <= at /\ at % BlockSize \in 0 .. BlockSize - 1
        /\ (at \div BlockSize) * BlockSize \in Nat
        /\ at = (at \div BlockSize) * BlockSize + (at % BlockSize)
    BY ONLY <1>3, <1>4, Place, Zenon
  <2>. QED
    BY ONLY <2>1, Zenon
<1>. HIDE DEF b, off
<1>6. CacheBlockOf(n, b)
  <2>1. b \in 0 .. Size(n)
    BY <1>3, <1>4, <1>5
  <2>. DEFINE z == b * BlockSize
  <2>2. z \in Nat /\ at = z + off
    BY <1>5
  <2>. HIDE DEF z
  <2>3. z < Size(n)
    BY <1>3, <1>4, <1>5, <2>2
  <2>. QED
    BY <2>1, <2>3 DEF CacheBlockOf, z
<1>7. Cache!cache_get_block(n, b)
  BY DEF Cache!ReadBlock, b, at
<1>8. CachePoolInv' /\ CacheListsInv' /\ lru'[1] \in CacheValid'
  BY <1>2, <1>6, <1>7, CacheGetBlock DEF CacheStructInv
<1>9. data \in Seq(CacheCells) /\ Len(data) <= BlockSize
  <2>1. pool'[lru'[1]] \in CacheEntries /\ Len(data) <= BlockSize
    BY <1>8 DEF CachePoolInv, CacheValid, Cache!Invalid
  <2>. QED
    BY <2>1 DEF CacheEntries
<1>10. Len(data) \in 0 .. BlockSize
  <2>1. Len(data) \in Nat
    BY <1>9
  <2>. QED
    BY <1>3, <1>9, <2>1
<1>11. rd' = IF off >= Len(data) THEN [rd EXCEPT !.count = Len(rd.out)]
             ELSE [rd EXCEPT !.out = @ \o SubSeq(data, off + 1,
                     off + Cache!Smaller(Cache!Smaller(BlockSize - off, rd.count - Len(rd.out)), Len(data) - off))]
  BY DEF Cache!ReadBlock, off, at
<1>. HIDE DEF data
<1>. QED
  BY ONLY <1>1, <1>4, <1>5, <1>6, <1>7, <1>8, <1>9, <1>10, <1>11, Zenon DEF at, b, off, data

\* cache.c, the end of a turn of cache_read.
LEMMA CacheReadBlockStruct == Cache!CacheAssumption /\ CacheStructInv /\ Cache!ReadBlock => CacheStructInv'
<1>. SUFFICES ASSUME Cache!CacheAssumption, CacheStructInv, Cache!ReadBlock PROVE CacheStructInv'
  OBVIOUS
<1>. DEFINE at == rd.offset + Len(rd.out)
            off == at % BlockSize
            data == pool'[lru'[1]].data
            left == rd.count - Len(rd.out)
            chunk == Cache!Smaller(Cache!Smaller(BlockSize - off, left), Len(data) - off)
<1>1. /\ rd \in CacheReads /\ off \in 0 .. BlockSize - 1 /\ CachePoolInv' /\ CacheListsInv'
      /\ data \in Seq(CacheCells) /\ Len(data) \in 0 .. BlockSize
      /\ rd' = IF off >= Len(data) THEN [rd EXCEPT !.count = Len(rd.out)]
               ELSE [rd EXCEPT !.out = @ \o SubSeq(data, off + 1, off + chunk)]
  BY ONLY Cache!CacheAssumption, CacheStructInv, Cache!ReadBlock, CacheTurnIs, ZenonT(120)
<1>2. /\ rd.offset + rd.want <= Size(rd.name) /\ rd.count <= rd.want /\ Len(rd.out) < rd.count
      /\ Len(rd.out) \in Nat /\ rd.count \in Nat /\ rd.want \in Nat /\ rd.out \in Seq(CacheCells)
  <2>1. rd \in CacheReads /\ rd # None
    BY ONLY <1>1, Cache!ReadBlock DEF Cache!ReadBlock
  <2>2. /\ rd.offset + rd.want <= Size(rd.name) /\ rd.count <= rd.want /\ Len(rd.out) < rd.count
    <3>1. CacheReadInv
      BY DEF CacheStructInv
    <3>2. Len(rd.out) < rd.count
      BY ONLY Cache!ReadBlock DEF Cache!ReadBlock
    <3>. QED
      BY ONLY <2>1, <3>1, <3>2, Zenon DEF CacheReadInv
  <2>. QED
    BY ONLY <2>1, <2>2 DEF CacheReads
<1>3. BlockSize \in Nat \ {0}
  BY DEF Cache!CacheAssumption
<1>. HIDE DEF at, off, data
<1>4. CASE off >= Len(data)
  <2>1. rd' = [rd EXCEPT !.count = Len(rd.out)]
    BY <1>1, <1>4
  <2>2. rd' \in CacheReads /\ rd'.offset = rd.offset /\ rd'.want = rd.want /\ rd'.name = rd.name
        /\ rd'.count = Len(rd.out) /\ rd'.out = rd.out
    BY <1>1, <1>2, <2>1 DEF CacheReads
  <2>3. CacheReadInv'
    BY <1>2, <2>2 DEF CacheReadInv
  <2>. QED
    BY <1>1, <2>3 DEF CacheStructInv
<1>5. CASE ~ (off >= Len(data))
  <2>. DEFINE piece == SubSeq(data, off + 1, off + chunk)
  <2>1. chunk \in 1 .. left /\ chunk <= Len(data) - off /\ left \in Nat /\ off \in Nat
    <3>1. off \in 0 .. BlockSize - 1 /\ Len(data) \in 0 .. BlockSize
      BY <1>1
    <3>2. /\ off \in Nat /\ BlockSize - off \in Nat \ {0} /\ left \in Nat \ {0}
          /\ Len(data) - off \in Nat \ {0}
      BY ONLY <1>2, <1>3, <1>5, <3>1
    <3>. HIDE DEF left
    <3>. DEFINE c == Cache!Smaller(BlockSize - off, left)
    <3>3. c \in Nat \ {0} /\ c <= left
      BY ONLY <3>2, CacheSmallerIs
    <3>. HIDE DEF c
    <3>4. Cache!Smaller(c, Len(data) - off) \in Nat \ {0} /\ Cache!Smaller(c, Len(data) - off) <= c
          /\ Cache!Smaller(c, Len(data) - off) <= Len(data) - off
      BY ONLY <3>2, <3>3, CacheSmallerIs
    <3>. DEFINE d == Cache!Smaller(c, Len(data) - off)
    <3>5. chunk = d
      BY DEF c
    <3>. HIDE DEF chunk, d
    <3>6. d \in Nat \ {0} /\ d <= c /\ d <= Len(data) - off
      BY ONLY <3>4 DEF d
    <3>. QED
      BY ONLY <3>2, <3>3, <3>5, <3>6
  <2>. HIDE DEF chunk, left
  <2>2. chunk \in Nat \ {0} /\ off + chunk <= Len(data) /\ off \in Nat
    <3>1. Len(data) \in 0 .. BlockSize
      BY <1>1
    <3>. QED
      BY ONLY <1>3, <2>1, <3>1
  <2>3. piece \in Seq(CacheCells) /\ Len(piece) = chunk
    <3>1. data \in Seq(CacheCells)
      BY <1>1
    <3>. QED
      BY ONLY <3>1, <2>2, Slice, ZenonT(30)
  <2>4. rd' = [rd EXCEPT !.out = @ \o piece]
    BY <1>1, <1>5
  <2>. HIDE DEF piece
  <2>5. rd.out \o piece \in Seq(CacheCells) /\ Len(rd.out \o piece) = Len(rd.out) + chunk
    BY <1>2, <2>3, ConcatProperties
  <2>6. rd' \in CacheReads /\ rd'.offset = rd.offset /\ rd'.want = rd.want /\ rd'.name = rd.name
        /\ rd'.count = rd.count /\ rd'.out = rd.out \o piece
    BY <1>1, <2>4, <2>5 DEF CacheReads
  <2>7. Len(rd.out) + chunk <= rd.count
    BY <1>2, <2>1 DEF left
  <2>8. CacheReadInv'
    BY <1>2, <2>5, <2>6, <2>7 DEF CacheReadInv
  <2>. QED
    BY <1>1, <2>8 DEF CacheStructInv
<1>. QED
  BY <1>4, <1>5

\* cache.c, cache_invalidate: the entries of a name leave all lists.
LEMMA CacheInvalidateStruct ==
  ASSUME Cache!CacheAssumption, CacheStructInv, NEW n \in CacheNames, Cache!cache_invalidate(n)
  PROVE  CacheStructInv' /\ CacheValid' = CacheValid \ {i \in Cache!Pool : pool[i] # None /\ pool[i].name = n}
<1>. DEFINE drop == {i \in Cache!Pool : pool[i] # None /\ pool[i].name = n}
<1>1. drop \in SUBSET CacheValid
  BY DEF CacheValid, Cache!Invalid
<1>2. /\ pool' = [i \in Cache!Pool |-> IF i \in drop THEN None ELSE pool[i]]
      /\ hash_table' = [b \in Buckets |-> Cache!Kept(hash_table[b], drop)]
      /\ lru' = Cache!Kept(lru, drop)
      /\ used_blocks' = used_blocks - Cardinality(drop)
      /\ UNCHANGED <<free_hint, rd>>
  <2>1. Cache!Cardinality(drop) = Cardinality(drop)
    BY ONLY SameCardinality, Zenon
  <2>. QED
    BY <2>1 DEF Cache!cache_invalidate
<1>. HIDE DEF drop
<1>3. CacheValid' = CacheValid \ drop
  BY <1>2 DEF CacheValid, Cache!Invalid
<1>4. \A c \in Buckets : CacheOnChain(c)' = CacheOnChain(c) \ drop
  BY <1>2, <1>3 DEF CacheOnChain, CacheValid
<1>5. CachePoolInv'
  <2>1. pool' \in [Cache!Pool -> CacheEntries \cup {None}] /\ \A i \in CacheValid' : pool'[i] = pool[i] /\ i \in CacheValid
    BY <1>2, <1>3 DEF CacheStructInv, CachePoolInv, CacheValid
  <2>. QED
    BY <1>2, <2>1 DEF CacheStructInv, CachePoolInv
<1>6. List(lru', CacheValid \ drop)
  BY <1>2, CacheKeptIs DEF CacheStructInv, CacheListsInv
<1>7. ASSUME NEW c \in Buckets
      PROVE  List(hash_table'[c], CacheOnChain(c) \ drop) /\ hash_table'[c] \in Seq(Cache!Pool)
  <2>1. List(hash_table'[c], CacheOnChain(c) \ drop)
    BY <1>2, CacheKeptIs DEF CacheStructInv, CacheListsInv
  <2>2. hash_table'[c] \in Seq(CacheOnChain(c) \ drop)
    BY <2>1 DEF List
  <2>. QED
    BY <2>1, <2>2, SeqMonotonic DEF CacheOnChain, CacheValid
<1>8. used_blocks' = Len(lru')
  <2>1. IsFiniteSet(CacheValid) /\ Cardinality(CacheValid) = Len(lru) /\ Cardinality(CacheValid \ drop) = Len(lru')
        /\ used_blocks = Len(lru)
    BY <1>6, ListSize DEF CacheStructInv, CacheListsInv
  <2>2. Cardinality(CacheValid \ drop) = Cardinality(CacheValid) - Cardinality(CacheValid \cap drop)
    BY ONLY <2>1, FS_Difference, Zenon
  <2>3. CacheValid \cap drop = drop
    BY <1>1
  <2>. QED
    BY <1>2, <2>1, <2>2, <2>3
<1>9. CacheListsInv'
  BY <1>2, <1>3, <1>4, <1>6, <1>7, <1>8 DEF CacheListsInv
<1>10. CacheReadInv'
  BY <1>2 DEF CacheStructInv, CacheReadInv
<1>. QED
  BY <1>3, <1>5, <1>9, <1>10 DEF CacheStructInv, drop

\* Pool, chains and list agree after every step.
LEMMA CacheNextStruct == Cache!CacheAssumption /\ CacheStructInv /\ [Cache!Next]_(Cache!vars) => CacheStructInv'
<1>. SUFFICES ASSUME Cache!CacheAssumption, CacheStructInv, [Cache!Next]_(Cache!vars) PROVE CacheStructInv'
  OBVIOUS
<1>1. ASSUME UNCHANGED Cache!cache PROVE CachePoolInv' /\ CacheListsInv'
  BY <1>1 DEF CacheStructInv, CachePoolInv, CacheListsInv, CacheValid, Cache!Invalid, CacheOnChain, Cache!cache
<1>2. CASE Cache!ReadBlock
  BY <1>2, CacheReadBlockStruct
<1>3. CASE Cache!ReadDone
  BY <1>1, <1>3 DEF Cache!ReadDone, CacheStructInv, CacheReadInv
<1>4. CASE Cache!cache_flush_all
  <2>1. CacheValid' = {} /\ \A c \in Buckets : CacheOnChain(c)' = {}
    BY <1>4 DEF Cache!cache_flush_all, CacheValid, Cache!Invalid, CacheOnChain
  <2>2. List(<<>>, {}) /\ Len(<<>>) = 0
    BY EmptySeq DEF List
  <2>3. 0 \in Cache!Pool
    BY DEF Cache!CacheAssumption, Cache!Pool
  <2>4. CachePoolInv'
    BY <1>4, <2>1, <2>3 DEF Cache!cache_flush_all, CachePoolInv
  <2>5. hash_table' \in [Buckets -> Seq(Cache!Pool)] /\ \A c \in Buckets : hash_table'[c] = <<>>
    BY <1>4 DEF Cache!cache_flush_all
  <2>6. CacheListsInv'
    BY <1>4, <2>1, <2>2, <2>5 DEF Cache!cache_flush_all, CacheListsInv
  <2>. QED
    BY <1>4, <2>4, <2>6 DEF Cache!cache_flush_all, CacheStructInv, CacheReadInv
<1>5. ASSUME NEW n \in CacheNames, Cache!cache_invalidate(n) PROVE CacheStructInv'
  BY <1>5, CacheInvalidateStruct
<1>6. ASSUME NEW n \in CacheNames, NEW o \in 0 .. Size(n) - 1, NEW k \in CacheCounts, Cache!cache_read(n, o, k)
      PROVE  CacheStructInv'
  <2>. DEFINE want == Cache!Smaller(k, Size(n) - o)
  <2>1. Size(n) \in Nat /\ k \in Nat /\ o \in Nat /\ o < Size(n)
    BY <1>6 DEF Cache!CacheAssumption
  <2>2. want \in Nat /\ o + want <= Size(n)
    BY <2>1 DEF Cache!Smaller
  <2>. HIDE DEF want
  <2>3. rd' = [name |-> n, offset |-> o, count |-> want, want |-> want, out |-> <<>>]
    BY <1>6 DEF Cache!cache_read, want
  <2>4. rd' \in CacheReads /\ rd'.name = n /\ rd'.offset = o /\ rd'.count = want /\ rd'.want = want
        /\ Len(rd'.out) = 0
    BY <2>1, <2>2, <2>3 DEF CacheReads
  <2>5. CacheReadInv'
    BY <2>2, <2>4 DEF CacheReadInv
  <2>. QED
    BY <1>1, <1>6, <2>5 DEF Cache!cache_read, CacheStructInv
<1>7. CASE UNCHANGED Cache!vars
  BY <1>1, <1>7 DEF Cache!vars, Cache!cache, CacheStructInv, CacheReadInv
<1>. QED
  BY <1>2, <1>3, <1>4, <1>5, <1>6, <1>7 DEF Cache!Next

\* What the invariant says of pool, chains and list, as the runs check it.
LEMMA CacheStructSafe == Cache!CacheAssumption /\ CacheStructInv => Cache!TypeOK /\ Cache!Linked
<1>. SUFFICES ASSUME Cache!CacheAssumption, CacheStructInv PROVE Cache!TypeOK /\ Cache!Linked
  OBVIOUS
<1>1. Cache!Range(lru) = CacheValid /\ Len(lru) = Cardinality(CacheValid) /\ used_blocks = Len(lru) /\ Len(lru) \in Nat
  <2>1. List(lru, CacheValid) /\ used_blocks = Len(lru)
    BY DEF CacheStructInv, CacheListsInv
  <2>2. Len(lru) \in Nat
    BY <2>1, LenProperties DEF List
  <2>. QED
    BY <2>1, <2>2, ListSize
<1>2. \A c \in Buckets : Cache!Range(hash_table[c]) = CacheOnChain(c)
                         /\ Len(hash_table[c]) = Cardinality(Cache!Range(hash_table[c]))
  BY ListSize DEF CacheStructInv, CacheListsInv
<1>3. Cardinality(CacheValid) <= MaxBlocks
  <2>1. MaxBlocks \in Nat \ {0}
    BY DEF Cache!CacheAssumption
  <2>2. IsFiniteSet(0 .. MaxBlocks - 1) /\ Cardinality(0 .. MaxBlocks - 1) = MaxBlocks
    <3>1. 0 \in Int /\ MaxBlocks - 1 \in Int
      BY <2>1
    <3>2. IsFiniteSet(0 .. MaxBlocks - 1) /\ Cardinality(0 .. MaxBlocks - 1) =
            IF 0 > MaxBlocks - 1 THEN 0 ELSE (MaxBlocks - 1) - 0 + 1
      BY ONLY <3>1, FS_Interval, Zenon
    <3>. QED
      BY <2>1, <3>2
  <2>3. CacheValid \in SUBSET (0 .. MaxBlocks - 1)
    BY DEF CacheValid, Cache!Pool
  <2>. QED
    BY ONLY <2>2, <2>3, FS_Subset
<1>4. Cache!TypeOK
  <2>1. \A i \in Cache!Pool : pool[i] # None => pool[i].name \in CacheNames /\ Len(pool[i].data) <= BlockSize
    BY DEF CacheStructInv, CachePoolInv, CacheValid, Cache!Invalid, CacheEntries
  <2>2. free_hint \in Cache!Pool /\ (rd # None => Len(rd.out) <= rd.count)
    BY DEF CacheStructInv, CachePoolInv, CacheReadInv
  <2>3. used_blocks \in 0 .. MaxBlocks
    BY <1>1, <1>3 DEF Cache!CacheAssumption
  <2>. QED
    BY <2>1, <2>2, <2>3 DEF Cache!TypeOK
<1>5. Cache!Linked
  <2>1. Cache!Cardinality(CacheValid) = Cardinality(CacheValid)
    BY ONLY SameCardinality, Zenon
  <2>2. ASSUME NEW b \in Buckets
        PROVE  Cache!Cardinality(Cache!Range(hash_table[b])) = Cardinality(Cache!Range(hash_table[b]))
    BY ONLY SameCardinality, Zenon
  <2>. QED
    BY <1>1, <1>2, <2>1, <2>2 DEF Cache!Linked, CacheValid, CacheOnChain
<1>. QED
  BY <1>4, <1>5

-----------------------------------------------------------------------------
\* No file has a name longer than a tag.
ShortNames == \A n \in CacheNames : Tag(n) = n

\* What the entries hold, and what the read under way has copied.
CacheContentInv ==
  /\ \A i \in CacheValid : /\ CacheBlockOf(pool[i].name, pool[i].block)
                      /\ pool[i].data = Cache!Filled(pool[i].name, pool[i].block)
  /\ Cache!KeysUnique
  /\ rd # None => /\ rd.count = rd.want
                  /\ \A k \in 1 .. Len(rd.out) : rd.out[k] = <<rd.name, rd.offset + k - 1>>

\* cache.c, cache_get_block and the fill: the entry at the head of the list is
\* the block asked for, holds the file's bytes, and no other entry has its key.
LEMMA CacheBlockContent ==
  ASSUME Cache!CacheAssumption, ShortNames, CacheStructInv, CacheContentInv, CachePoolInv',
         NEW n \in CacheNames, NEW b, CacheBlockOf(n, b), Cache!cache_get_block(n, b)
  PROVE  /\ pool'[lru'[1]].data = Cache!Filled(n, b) /\ Cache!KeysUnique'
         /\ \A i \in CacheValid' : /\ CacheBlockOf(pool'[i].name, pool'[i].block)
                              /\ pool'[i].data = Cache!Filled(pool'[i].name, pool'[i].block)
<1>. DEFINE i == lru'[1]  h == Hash(n, b)
<1>1. /\ i \in CacheValid'
      /\ \/ pool' = pool /\ i \in Cache!hash_lookup(n, b)
         \/ /\ pool' = [pool EXCEPT ![i] = Cache!Entry(n, b)] /\ Cache!hash_lookup(n, b) = {}
            /\ i \in Cache!Pool /\ CacheValid' = CacheValid \cup {i}
  BY CacheGetBlock DEF CacheStructInv
<1>2. Cache!Range(hash_table[h]) = CacheOnChain(h)
  <2>1. h \in Buckets
    BY DEF Cache!CacheAssumption, CacheBlockOf
  <2>. QED
    BY <2>1, ListSize DEF CacheStructInv, CacheListsInv
<1>. HIDE DEF i
<1>3. CASE pool' = pool /\ i \in Cache!hash_lookup(n, b)
  <2>1. CacheValid' = CacheValid
    BY <1>3 DEF CacheValid, Cache!Invalid
  <2>2. i \in CacheValid /\ pool[i].name = n /\ pool[i].block = b
    BY <1>2, <1>3 DEF Cache!hash_lookup, CacheOnChain
  <2>3. Cache!KeysUnique'
    BY <1>3 DEF CacheContentInv, Cache!KeysUnique
  <2>. QED
    BY <1>3, <2>1, <2>2, <2>3 DEF CacheContentInv, i
<1>4. CASE /\ pool' = [pool EXCEPT ![i] = Cache!Entry(n, b)] /\ Cache!hash_lookup(n, b) = {}
           /\ i \in Cache!Pool /\ CacheValid' = CacheValid \cup {i}
  <2>1. pool'[i] = Cache!Entry(n, b) /\ \A j \in Cache!Pool : j # i => pool'[j] = pool[j]
    BY <1>4 DEF CacheStructInv, CachePoolInv
  <2>2. pool'[i].name = n /\ pool'[i].block = b /\ pool'[i].data = Cache!Filled(n, b)
    BY <2>1 DEF Cache!Entry, ShortNames
  <2>3. ASSUME NEW j \in Cache!Pool, j # i, pool[j] # None PROVE ~ (pool[j].name = n /\ pool[j].block = b)
    <3>1. SUFFICES ASSUME pool[j].name = n, pool[j].block = b PROVE FALSE
      OBVIOUS
    <3>2. j \in CacheOnChain(h)
      BY <2>3, <3>1 DEF CacheOnChain, CacheValid, Cache!Invalid
    <3>. QED
      BY <1>2, <1>4, <3>1, <3>2 DEF Cache!hash_lookup
  <2>4. Cache!KeysUnique'
    <3>1. ASSUME NEW j \in Cache!Pool, NEW k \in Cache!Pool, pool'[j] # None, pool'[k] # None,
                 pool'[j].name = pool'[k].name, pool'[j].block = pool'[k].block
          PROVE  j = k
      <4>1. CASE j # i /\ k # i
        BY <2>1, <3>1, <4>1 DEF CacheContentInv, Cache!KeysUnique
      <4>2. CASE j = i \/ k = i
        BY <2>1, <2>2, <2>3, <3>1, <4>2
      <4>. QED
        BY <4>1, <4>2
    <3>. QED
      BY <3>1 DEF Cache!KeysUnique
  <2>5. ASSUME NEW j \in CacheValid'
        PROVE  CacheBlockOf(pool'[j].name, pool'[j].block)
               /\ pool'[j].data = Cache!Filled(pool'[j].name, pool'[j].block)
    <3>1. CASE j = i
      BY <2>2, <3>1
    <3>2. CASE j # i
      <4>1. j \in CacheValid /\ j \in Cache!Pool
        BY <1>4, <3>2 DEF CacheValid
      <4>. QED
        BY <2>1, <3>2, <4>1 DEF CacheContentInv
    <3>. QED
      BY <3>1, <3>2
  <2>. QED
    BY <2>2, <2>4, <2>5 DEF i
<1>. QED
  BY <1>1, <1>3, <1>4

\* cache.c, cache_read: a turn copies the file's own bytes, at least one.
LEMMA CacheReadBlockContent ==
  Cache!CacheAssumption /\ ShortNames /\ CacheStructInv /\ CacheContentInv /\ Cache!ReadBlock => CacheContentInv'
<1>. SUFFICES ASSUME Cache!CacheAssumption, ShortNames, CacheStructInv, CacheContentInv, Cache!ReadBlock PROVE CacheContentInv'
  OBVIOUS
<1>. DEFINE at == rd.offset + Len(rd.out)
            b == at \div BlockSize
            off == at % BlockSize
            data == pool'[lru'[1]].data
            left == rd.count - Len(rd.out)
            chunk == Cache!Smaller(Cache!Smaller(BlockSize - off, left), Len(data) - off)
            n == rd.name
            z == b * BlockSize
<1>1. /\ rd \in CacheReads /\ at \in Nat /\ off \in 0 .. BlockSize - 1
      /\ z \in Nat /\ at = z + off /\ CacheBlockOf(n, b) /\ at < Size(n)
      /\ Cache!cache_get_block(n, b) /\ CachePoolInv'
      /\ rd' = IF off >= Len(data) THEN [rd EXCEPT !.count = Len(rd.out)]
               ELSE [rd EXCEPT !.out = @ \o SubSeq(data, off + 1, off + chunk)]
  BY ONLY Cache!CacheAssumption, CacheStructInv, Cache!ReadBlock, CacheTurnIs, ZenonT(120)
<1>2. n \in CacheNames /\ rd.out \in Seq(CacheCells) /\ rd # None /\ rd.offset \in Nat
      /\ rd.count \in Nat /\ Len(rd.out) \in Nat /\ Len(rd.out) < rd.count
  <2>1. rd # None /\ Len(rd.out) < rd.count
    BY ONLY Cache!ReadBlock, Zenon DEF Cache!ReadBlock
  <2>2. rd \in CacheReads
    BY ONLY <1>1, Zenon
  <2>3. n \in CacheNames /\ rd.out \in Seq(CacheCells) /\ rd.offset \in Nat /\ rd.count \in Nat
    BY ONLY <2>2 DEF CacheReads
  <2>4. Len(rd.out) \in Nat
    BY ONLY <2>3
  <2>. QED
    BY ONLY <2>1, <2>3, <2>4, Zenon
<1>3. /\ data = Cache!Filled(n, b) /\ Cache!KeysUnique'
      /\ \A i \in CacheValid' : /\ CacheBlockOf(pool'[i].name, pool'[i].block)
                           /\ pool'[i].data = Cache!Filled(pool'[i].name, pool'[i].block)
  BY <1>1, <1>2, CacheBlockContent
<1>4. BlockSize \in Nat \ {0} /\ Size(n) \in Nat
  BY <1>2 DEF Cache!CacheAssumption
<1>5. /\ data \in Seq(CacheCells) /\ Len(data) = Cache!Smaller(BlockSize, Size(n) - z)
      /\ \A i \in 1 .. Len(data) : data[i] = <<n, z + i - 1>>
  <2>1. CacheBlockOf(n, b) /\ n \in CacheNames
    BY ONLY <1>1, <1>2
  <2>. DEFINE f == Cache!Filled(n, b)
  <2>2. /\ f \in Seq(CacheCells) /\ Len(f) = Cache!Smaller(BlockSize, Size(n) - b * BlockSize)
        /\ \A i \in 1 .. Len(f) : f[i] = <<n, b * BlockSize + i - 1>>
    BY ONLY Cache!CacheAssumption, <2>1, CacheFilledIs, ZenonT(30)
  <2>. HIDE DEF f, data
  <2>3. data = f
    BY ONLY <1>3 DEF f
  <2>. QED
    BY ONLY <2>2, <2>3, ZenonT(30)
<1>. HIDE DEF data, z, off, b
<1>14. off \in 0 .. BlockSize - 1 /\ z \in Nat /\ z + off = rd.offset + Len(rd.out) /\ z + off < Size(n)
  BY ONLY <1>1 DEF at
<1>6. off < Len(data) /\ Len(data) \in Nat
  BY <1>4, <1>5, <1>14 DEF Cache!Smaller
<1>7. chunk \in Nat /\ off + chunk <= Len(data) /\ chunk >= 1
  <2>1. /\ off \in Nat /\ BlockSize - off \in Nat \ {0} /\ left \in Nat \ {0}
        /\ Len(data) - off \in Nat \ {0}
    BY <1>2, <1>4, <1>6, <1>14
  <2>. DEFINE c == Cache!Smaller(BlockSize - off, left)
  <2>2. c \in Nat \ {0}
    BY <2>1, CacheSmallerIs
  <2>. HIDE DEF c, left
  <2>3. Cache!Smaller(c, Len(data) - off) \in Nat \ {0} /\ Cache!Smaller(c, Len(data) - off) <= Len(data) - off
    BY <2>1, <2>2, CacheSmallerIs
  <2>4. chunk \in Nat \ {0} /\ chunk <= Len(data) - off
    BY <2>3 DEF c
  <2>. HIDE DEF chunk
  <2>. QED
    BY <1>6, <2>1, <2>4
<1>. HIDE DEF chunk
<1>. DEFINE piece == SubSeq(data, off + 1, off + chunk)
<1>8. piece \in Seq(CacheCells) /\ Len(piece) = chunk /\ \A k \in 1 .. chunk : piece[k] = data[off + k]
  <2>1. off \in Nat /\ chunk \in Nat \ {0}
    BY <1>1, <1>4, <1>7
  <2>. QED
    BY ONLY <1>5, <1>7, <2>1, Slice, ZenonT(30)
<1>9. rd' = [rd EXCEPT !.out = @ \o piece]
  <2>1. ~ (off >= Len(data))
    BY <1>1, <1>4, <1>6
  <2>. QED
    BY <1>1, <2>1
<1>. HIDE DEF piece
<1>10. /\ rd'.name = n /\ rd'.offset = rd.offset /\ rd'.count = rd.count /\ rd'.want = rd.want
       /\ rd'.out = rd.out \o piece
  BY <1>1, <1>9 DEF CacheReads
<1>11. /\ Len(rd'.out) = Len(rd.out) + chunk
       /\ \A k \in 1 .. Len(rd.out) + chunk :
            rd'.out[k] = IF k <= Len(rd.out) THEN rd.out[k] ELSE piece[k - Len(rd.out)]
  <2>1. Len(rd.out \o piece) = Len(rd.out) + Len(piece)
        /\ \A k \in 1 .. Len(rd.out) + Len(piece) :
             (rd.out \o piece)[k] = IF k <= Len(rd.out) THEN rd.out[k] ELSE piece[k - Len(rd.out)]
    BY ONLY <1>2, <1>8, ConcatProperties, Zenon
  <2>. QED
    BY ONLY <1>8, <1>10, <2>1, Zenon
<1>12. ASSUME NEW k \in 1 .. Len(rd'.out) PROVE rd'.out[k] = <<rd'.name, rd'.offset + k - 1>>
  <2>1. CASE k <= Len(rd.out)
    <3>1. k \in 1 .. Len(rd.out)
      BY <1>2, <1>7, <1>11, <2>1
    <3>2. rd.out[k] = <<rd.name, rd.offset + k - 1>>
      BY <1>2, <3>1 DEF CacheContentInv
    <3>. QED
      BY <1>10, <1>11, <2>1, <3>2
  <2>2. CASE ~ (k <= Len(rd.out))
    <3>. DEFINE j == k - Len(rd.out)
    <3>1. j \in 1 .. chunk /\ off + j \in 1 .. Len(data)
      <4>1. k \in Nat /\ k <= Len(rd.out) + chunk /\ Len(rd.out) \in Nat /\ off \in Nat
        BY ONLY <1>2, <1>4, <1>7, <1>11, <1>14
      <4>2. j \in 1 .. chunk
        BY ONLY <1>7, <2>2, <4>1
      <4>. QED
        BY ONLY <1>6, <1>7, <4>1, <4>2
    <3>2. z + (off + j) - 1 = rd.offset + k - 1
      <4>1. k \in Nat /\ off \in Nat /\ Len(rd.out) \in Nat /\ rd.offset \in Nat /\ z \in Nat
        BY <1>2, <1>4, <1>7, <1>11, <1>14
      <4>2. z + off = rd.offset + Len(rd.out)
        BY <1>14
      <4>3. \A l \in Nat, o \in Nat : z + off = o + l => z + (off + (k - l)) - 1 = o + k - 1
        BY ONLY <4>1
      <4>4. Len(rd.out) \in Nat /\ rd.offset \in Nat
        BY <4>1
      <4>. QED
        BY ONLY <4>2, <4>3, <4>4, Zenon
    <3>. HIDE DEF j
    <3>3. piece[j] = <<n, z + (off + j) - 1>>
      BY <1>5, <1>8, <3>1
    <3>4. rd'.out[k] = piece[j]
      BY <1>11, <2>2 DEF j
    <3>. QED
      BY ONLY <1>10, <3>2, <3>3, <3>4, Zenon
  <2>. QED
    BY <2>1, <2>2
<1>13. rd'.count = rd'.want
  BY <1>2, <1>10 DEF CacheContentInv
<1>. QED
  BY <1>3, <1>12, <1>13 DEF CacheContentInv

\* What a read returns is the file's after every step.
LEMMA CacheNextContent ==
  Cache!CacheAssumption /\ ShortNames /\ CacheStructInv /\ CacheContentInv /\ [Cache!Next]_(Cache!vars) => CacheContentInv'
<1>. SUFFICES ASSUME Cache!CacheAssumption, ShortNames, CacheStructInv, CacheContentInv, [Cache!Next]_(Cache!vars) PROVE CacheContentInv'
  OBVIOUS
<1>1. ASSUME UNCHANGED Cache!cache, rd' # None => rd'.count = rd'.want
               /\ \A k \in 1 .. Len(rd'.out) : rd'.out[k] = <<rd'.name, rd'.offset + k - 1>>
      PROVE  CacheContentInv'
  <2>1. CacheValid' = CacheValid /\ pool' = pool
    BY <1>1 DEF Cache!cache, CacheValid, Cache!Invalid
  <2>2. Cache!KeysUnique'
    BY <2>1 DEF CacheContentInv, Cache!KeysUnique
  <2>. QED
    BY <1>1, <2>1, <2>2 DEF CacheContentInv
<1>2. ASSUME CacheValid' \subseteq CacheValid, \A i \in CacheValid' : pool'[i] = pool[i], rd' = rd PROVE CacheContentInv'
  <2>1. Cache!KeysUnique'
    BY <1>2 DEF CacheContentInv, Cache!KeysUnique, CacheValid, Cache!Invalid
  <2>. QED
    BY <1>2, <2>1 DEF CacheContentInv
<1>3. CASE Cache!ReadBlock
  BY <1>3, CacheReadBlockContent
<1>4. CASE Cache!ReadDone
  BY <1>1, <1>4 DEF Cache!ReadDone
<1>5. CASE Cache!cache_flush_all
  <2>1. CacheValid' = {} /\ rd' = rd
    BY <1>5 DEF Cache!cache_flush_all, CacheValid, Cache!Invalid
  <2>. QED
    BY <1>2, <2>1
<1>6. ASSUME NEW n \in CacheNames, Cache!cache_invalidate(n) PROVE CacheContentInv'
  <2>. DEFINE drop == {i \in Cache!Pool : pool[i] # None /\ pool[i].name = n}
  <2>1. CacheValid' = CacheValid \ drop
    BY <1>6, CacheInvalidateStruct
  <2>2. pool' = [i \in Cache!Pool |-> IF i \in drop THEN None ELSE pool[i]] /\ rd' = rd
    BY <1>6 DEF Cache!cache_invalidate
  <2>. HIDE DEF drop
  <2>3. \A i \in CacheValid' : pool'[i] = pool[i]
    BY <2>1, <2>2 DEF CacheValid
  <2>. QED
    BY <1>2, <2>1, <2>2, <2>3
<1>7. ASSUME NEW n \in CacheNames, NEW o \in 0 .. Size(n) - 1, NEW k \in CacheCounts, Cache!cache_read(n, o, k)
      PROVE  CacheContentInv'
  <2>1. rd'.count = rd'.want /\ Len(rd'.out) = 0
    BY <1>7 DEF Cache!cache_read
  <2>. QED
    BY <1>1, <1>7, <2>1 DEF Cache!cache_read
<1>8. CASE UNCHANGED Cache!vars
  BY <1>1, <1>8 DEF Cache!vars, Cache!cache, CacheContentInv
<1>. QED
  BY <1>3, <1>4, <1>5, <1>6, <1>7, <1>8 DEF Cache!Next

\* cache.c: whatever is read, evicted, invalidated and flushed, each valid
\* entry is on the LRU list once and on the chain of its key once, nothing else
\* is on either, and the count of used blocks is theirs.
THEOREM CacheStaysLinked == ASSUME Cache!CacheAssumption PROVE Cache!Spec => [](Cache!TypeOK /\ Cache!Linked)
<1>1. Cache!Init => CacheStructInv
  BY CacheInitStruct
<1>2. CacheStructInv /\ [Cache!Next]_(Cache!vars) => CacheStructInv'
  BY CacheNextStruct
<1>3. CacheStructInv => Cache!TypeOK /\ Cache!Linked
  BY CacheStructSafe
<1>. QED
  BY <1>1, <1>2, <1>3, PTL DEF Cache!Spec

\* cache.c: with names no longer than a tag, no block is cached twice and a
\* read returns the file's own bytes, all of those asked for.
THEOREM CacheReadsTheFile == ASSUME Cache!CacheAssumption, ShortNames PROVE Cache!Spec => []Cache!Safety
<1>1. Cache!Init => CacheStructInv /\ CacheContentInv
  <2>1. Cache!Init => CacheContentInv
    BY DEF Cache!Init, CacheContentInv, CacheValid, Cache!Invalid, Cache!KeysUnique
  <2>. QED
    BY <2>1, CacheInitStruct
<1>2. CacheStructInv /\ CacheContentInv /\ [Cache!Next]_(Cache!vars) => (CacheStructInv /\ CacheContentInv)'
  BY CacheNextStruct, CacheNextContent
<1>3. CacheStructInv /\ CacheContentInv => Cache!Safety
  <2>. SUFFICES ASSUME CacheStructInv, CacheContentInv PROVE Cache!Safety
    OBVIOUS
  <2>1. Cache!ReadsTheFile
    BY DEF CacheContentInv, Cache!ReadsTheFile
  <2>. QED
    BY <2>1, CacheStructSafe DEF Cache!Safety, CacheContentInv
<1>. QED
  BY <1>1, <1>2, <1>3, PTL DEF Cache!Spec

-----------------------------------------------------------------------------
(***************************************************************************)
(* The decoders of keyboard and mouse.  What each has kept is the part of  *)
(* its device's report that has arrived, whatever the other one sends.     *)
(***************************************************************************)
\* What a device has not sent yet is the end of its report.
Rest(dev) ==
  /\ dev \in [report : Seq(Input!Byte), left : Seq(Input!Byte), lost : BOOLEAN, down : SUBSET Int]
  /\ Len(dev.left) <= Len(dev.report)
  /\ \A i \in 1 .. Len(dev.left) : dev.left[i] = dev.report[i + (Len(dev.report) - Len(dev.left))]

\* The reports of a key: a code, a prefix and a code, Pause.
KeyKind(r) ==
  \/ Len(r) = 1 /\ r[1] \in Input!Codes
  \/ Len(r) = 2 /\ r[1] = 224 /\ r[2] \in Input!Codes
  \/ Len(r) = 6 /\ r[1] = 225 /\ r = Input!PAUSE

MouseKind(p) ==
  Len(p) = 3 /\ Input!Bit(p[1], 3) /\ (noise => ~Input!Bit(p[2], 3) /\ ~Input!Bit(p[3], 3))

\* The decoder of keys knows how far the report has come.
DecoderInv ==
  /\ Rest(kbd)
  /\ kbd.left # <<>> => ~kbd.lost /\ KeyKind(kbd.report) /\ (noise => Len(kbd.report) = 1)
  /\ pause_bytes = IF Len(kbd.report) = 6 /\ Len(kbd.left) < 6 THEN Len(kbd.left) ELSE 0
  /\ extended_key \in BOOLEAN
  /\ extended_key <=> Len(kbd.report) = 2 /\ Len(kbd.left) = 1
  /\ shift_pressed \in BOOLEAN /\ caps_lock_active \in BOOLEAN

\* The collected bytes are the first ones of the mouse's report, unless one
\* was lost; then what is left of it is no first byte.
MouseInv ==
  /\ Rest(mouse) /\ mouse_present \in BOOLEAN /\ noise \in BOOLEAN
  /\ mouse.left # <<>> => MouseKind(mouse.report)
  /\ mouse.lost => noise /\ Len(mouse.left) < 3
  /\ packet \in Seq(Input!Byte)
  /\ Len(packet) = IF mouse_present /\ ~mouse.lost /\ Len(mouse.left) \in {1, 2}
                   THEN 3 - Len(mouse.left) ELSE 0
  /\ \A i \in 1 .. Len(packet) : packet[i] = mouse.report[i]

\* A finger that is down, or the report of a shift key still to come.
ShiftInv ==
  /\ ~noise /\ shift_pressed =>
       \/ kbd.down \cap {Input!LSHIFT, Input!RSHIFT} # {}
       \/ Len(kbd.left) = 1 /\ Len(kbd.report) = 1 /\ kbd.report[1] % 128 \in {Input!LSHIFT, Input!RSHIFT}
  /\ Len(kbd.left) = 1 /\ Len(kbd.report) = 1 /\ kbd.report[1] < 128 => kbd.report[1] \in kbd.down

Chars == [special : Input!SpecialKeys] \cup [code : Input!Printable, upper : BOOLEAN]

InputQueueInv ==
  /\ inputs \in Seq(Input!Event) /\ Len(inputs) <= InputRoom
  /\ chars \in Seq(Chars) /\ Len(chars) <= InputRoom

InputIInv == DecoderInv /\ MouseInv /\ ShiftInv /\ InputQueueInv

\* What a step owes to the reports.
Owed ==
  /\ \/ Input!Due # <<>> /\ inputs' = Input!Pushed(inputs, Input!Due[1])
     \/ Input!Due = <<>> /\ (inputs' = inputs \/ Input!TakeEvent)
  /\ chars' # chars => Input!keyboard_get_char \/ (kbd.left # <<>> /\ Input!Due # <<>>)

-----------------------------------------------------------------------------
\* A sequence of length zero is the empty one.
LEMMA Nonempty ==
  ASSUME NEW S, NEW s \in Seq(S)
  PROVE  Len(s) \in Nat /\ (s = <<>> <=> Len(s) = 0)
BY EmptySeq

\* What is left of a report is a sequence of bytes.
LEMMA RestLeft ==
  ASSUME NEW dev, Rest(dev)
  PROVE  /\ dev.left \in Seq(Input!Byte) /\ Len(dev.left) \in Nat
         /\ dev.report \in Seq(Input!Byte) /\ Len(dev.report) \in Nat
         /\ dev.left = <<>> <=> Len(dev.left) = 0
         /\ Len(dev.left) <= Len(dev.report)
<1>1. dev.left \in Seq(Input!Byte) /\ dev.report \in Seq(Input!Byte) /\ Len(dev.left) <= Len(dev.report)
  BY DEF Rest
<1>. QED
  BY <1>1, Nonempty

\* After a byte is sent, what is left is still the end of the report.
LEMMA SentRest ==
  ASSUME NEW dev, Rest(dev), dev.left # <<>>
  PROVE  /\ Rest(Input!Sent(dev)) /\ Len(Input!Sent(dev).left) = Len(dev.left) - 1
         /\ Input!Sent(dev).report = dev.report /\ Input!Sent(dev).lost = dev.lost /\ Input!Sent(dev).down = dev.down
         /\ Head(dev.left) = dev.report[1 + (Len(dev.report) - Len(dev.left))]
         /\ Head(dev.left) \in Input!Byte /\ Len(dev.left) \in Nat \ {0}
<1>1. /\ dev.left \in Seq(Input!Byte) /\ Len(dev.left) \in Nat \ {0} /\ Len(dev.report) \in Nat
      /\ Len(dev.left) <= Len(dev.report)
      /\ \A i \in 1 .. Len(dev.left) : dev.left[i] = dev.report[i + (Len(dev.report) - Len(dev.left))]
  BY Nonempty DEF Rest
<1>2. /\ Tail(dev.left) \in Seq(Input!Byte) /\ Len(Tail(dev.left)) = Len(dev.left) - 1
      /\ \A i \in 1 .. Len(dev.left) - 1 : Tail(dev.left)[i] = dev.left[i + 1]
      /\ Head(dev.left) = dev.left[1] /\ Head(dev.left) \in Input!Byte
  BY <1>1, HeadTailProperties, ElementOfSeq
<1>3. /\ Input!Sent(dev) \in [report : Seq(Input!Byte), left : Seq(Input!Byte), lost : BOOLEAN, down : SUBSET Int]
      /\ Input!Sent(dev).left = Tail(dev.left) /\ Input!Sent(dev).report = dev.report
      /\ Input!Sent(dev).lost = dev.lost /\ Input!Sent(dev).down = dev.down
  BY <1>2 DEF Rest, Input!Sent
<1>4. ASSUME NEW i \in 1 .. Len(Tail(dev.left))
      PROVE  Tail(dev.left)[i] = dev.report[i + (Len(dev.report) - Len(Tail(dev.left)))]
  <2>1. i \in 1 .. Len(dev.left) - 1 /\ i + 1 \in 1 .. Len(dev.left)
    BY <1>1, <1>2
  <2>2. Tail(dev.left)[i] = dev.report[(i + 1) + (Len(dev.report) - Len(dev.left))]
    BY <1>1, <1>2, <2>1
  <2>3. (i + 1) + (Len(dev.report) - Len(dev.left)) = i + (Len(dev.report) - Len(Tail(dev.left)))
    <3>1. ASSUME NEW m \in Nat, NEW l \in Nat
          PROVE  (i + 1) + (m - l) = i + (m - (l - 1))
      BY <2>1
    <3>2. Len(dev.report) \in Nat /\ Len(dev.left) \in Nat
      BY <1>1
    <3>3. (i + 1) + (Len(dev.report) - Len(dev.left)) = i + (Len(dev.report) - (Len(dev.left) - 1))
      BY ONLY <3>1, <3>2, Zenon
    <3>. QED
      BY ONLY <3>3, <1>2, Zenon
  <2>. QED
    BY <2>2, <2>3
<1>5. Len(Tail(dev.left)) <= Len(dev.report)
  BY <1>1, <1>2
<1>6. Rest(Input!Sent(dev))
  BY ONLY <1>3, <1>4, <1>5 DEF Rest
<1>7. dev.left[1] = dev.report[1 + (Len(dev.report) - Len(dev.left))]
  <2>1. 1 \in 1 .. Len(dev.left)
    BY <1>1
  <2>. QED
    BY ONLY <1>1, <2>1, Zenon
<1>. QED
  BY <1>1, <1>2, <1>3, <1>6, <1>7

\* Nothing sent: what is left is the report.
LEMMA AllLeft ==
  ASSUME NEW dev, Rest(dev), Len(dev.left) = Len(dev.report)
  PROVE  dev.left = dev.report
<1>1. /\ dev.left \in Seq(Input!Byte) /\ dev.report \in Seq(Input!Byte) /\ Len(dev.report) \in Nat
      /\ \A i \in 1 .. Len(dev.left) : dev.left[i] = dev.report[i + (Len(dev.report) - Len(dev.left))]
  BY DEF Rest
<1>2. \A i \in 1 .. Len(dev.left) : dev.left[i] = dev.report[i]
  BY <1>1
<1>. QED
  BY <1>1, <1>2, SeqEqual

\* Pushing keeps the type and the bound.
LEMMA InputPushedTyped ==
  ASSUME NEW S, NEW q \in Seq(S), NEW e \in S, Len(q) <= InputRoom, InputRoom \in Nat
  PROVE  Input!Pushed(q, e) \in Seq(S) /\ Len(Input!Pushed(q, e)) <= InputRoom
<1>1. Len(q) \in Nat /\ Append(q, e) \in Seq(S) /\ Len(Append(q, e)) = Len(q) + 1
  BY AppendProperties
<1>. QED
  BY <1>1 DEF Input!Pushed

\* Taking from the front does too.
LEMMA InputTailTyped ==
  ASSUME NEW S, NEW q \in Seq(S), q # <<>>, Len(q) <= InputRoom, InputRoom \in Nat
  PROVE  Tail(q) \in Seq(S) /\ Len(Tail(q)) <= InputRoom
<1>1. Len(q) \in Nat /\ Tail(q) \in Seq(S) /\ Len(Tail(q)) = Len(q) - 1
  BY HeadTailProperties
<1>. QED
  BY <1>1

-----------------------------------------------------------------------------
\* At the start nothing is under way.
LEMMA InputInitIInv == Input!ReportAssumption /\ Input!Init => InputIInv
<1>. SUFFICES ASSUME Input!ReportAssumption, Input!Init PROVE InputIInv
  OBVIOUS
<1>1. /\ kbd = Input!Idle /\ mouse = Input!Idle /\ packet = <<>> /\ pause_bytes = 0 /\ extended_key = FALSE
      /\ shift_pressed = FALSE /\ caps_lock_active = FALSE /\ inputs = <<>> /\ chars = <<>>
      /\ mouse_present \in BOOLEAN /\ noise \in BOOLEAN /\ InputRoom \in Nat
  BY DEF Input!Init, Input!ReportAssumption
<1>2. Rest(Input!Idle) /\ Input!Idle.left = <<>> /\ Input!Idle.report = <<>> /\ Input!Idle.lost = FALSE
  BY DEF Rest, Input!Idle
<1>3. DecoderInv
  <2>1. Rest(kbd) /\ kbd.left = <<>> /\ Len(kbd.report) = 0 /\ Len(kbd.left) = 0
    BY <1>1, <1>2
  <2>2. pause_bytes = IF Len(kbd.report) = 6 /\ Len(kbd.left) < 6 THEN Len(kbd.left) ELSE 0
    BY ONLY <1>1, <2>1
  <2>3. extended_key \in BOOLEAN /\ (extended_key <=> Len(kbd.report) = 2 /\ Len(kbd.left) = 1)
    <3>1. Len(kbd.report) # 2
      BY ONLY <2>1
    <3>. QED
      BY ONLY <1>1, <3>1, Zenon
  <2>4. shift_pressed \in BOOLEAN /\ caps_lock_active \in BOOLEAN
    BY ONLY <1>1, Zenon
  <2>. QED
    BY ONLY <2>1, <2>2, <2>3, <2>4, Zenon DEF DecoderInv
<1>4. MouseInv
  BY <1>1, <1>2 DEF MouseInv
<1>5. ShiftInv
  BY <1>1, <1>2 DEF ShiftInv
<1>6. InputQueueInv
  BY <1>1 DEF InputQueueInv
<1>. QED
  BY <1>3, <1>4, <1>5, <1>6 DEF InputIInv

\* A key is pressed or released.
LEMMA KeyReportKeeps ==
  ASSUME Input!ReportAssumption, InputIInv, NEW r \in IF noise THEN NoisyReports ELSE KeyReports, Input!KeyReport(r)
  PROVE  InputIInv' /\ Owed
<1>1. /\ r \in Seq(Input!Byte) /\ KeyKind(r) /\ (noise => Len(r) = 1) /\ r # <<>>
  <2>1. noise \in BOOLEAN
    BY DEF InputIInv, MouseInv
  <2>2. ASSUME NEW b \in Input!Codes, r = <<b>>
        PROVE  r \in Seq(Input!Byte) /\ Len(r) = 1 /\ r[1] \in Input!Codes
    BY <2>2 DEF Input!Codes, Input!Byte
  <2>3. ASSUME NEW b \in Input!Codes, r = <<224, b>>
        PROVE  r \in Seq(Input!Byte) /\ Len(r) = 2 /\ r[1] = 224 /\ r[2] \in Input!Codes
    BY <2>3 DEF Input!Codes, Input!Byte
  <2>4. ASSUME r = Input!PAUSE
        PROVE  r \in Seq(Input!Byte) /\ Len(r) = 6 /\ r[1] = 225
    BY <2>4 DEF Input!PAUSE, Input!Byte
  <2>5. \/ ~noise /\ r = Input!PAUSE
        \/ ~noise /\ \E b \in Input!Codes : r \in {<<b>>, <<224, b>>}
        \/ \E b \in Input!Codes : r = <<b>>
    BY <2>1 DEF Input!ReportAssumption
  <2>6. r \in Seq(Input!Byte) /\ KeyKind(r) /\ (noise => Len(r) = 1)
    BY <2>2, <2>3, <2>4, <2>5 DEF KeyKind
  <2>. QED
    BY <2>6, Nonempty DEF KeyKind
<1>2. /\ kbd.left = <<>> /\ Rest(kbd)
      /\ kbd' = [kbd EXCEPT !.report = r, !.left = r, !.lost = FALSE,
                            !.down = IF Len(r) = 1 THEN Input!Made(r[1], kbd.down) ELSE kbd.down]
      /\ UNCHANGED <<mouse, mouse_present, noise, packet, pause_bytes, extended_key,
                     shift_pressed, caps_lock_active, inputs, chars>>
  BY DEF Input!KeyReport, InputIInv, DecoderInv, Input!decode, Input!queues
<1>3. Len(r) = 1 => r[1] \in Input!Codes /\ r[1] \in Int
  <2>1. Len(r) = 1 => r[1] \in Input!Codes
    BY <1>1 DEF KeyKind
  <2>. QED
    BY <2>1 DEF Input!Codes, Input!Byte
<1>4. Input!Made(r[1], kbd.down) \in SUBSET Int \/ Len(r) # 1
  BY <1>2, <1>3 DEF Input!Made, Rest
<1>5. /\ kbd'.report = r /\ kbd'.left = r /\ kbd'.lost = FALSE
      /\ kbd'.down = IF Len(r) = 1 THEN Input!Made(r[1], kbd.down) ELSE kbd.down
      /\ kbd' \in [report : Seq(Input!Byte), left : Seq(Input!Byte), lost : BOOLEAN, down : SUBSET Int]
  BY <1>1, <1>2, <1>4 DEF Rest
<1>6. Len(r) \in Nat \ {0}
  BY <1>1, Nonempty
<1>7. Rest(kbd')
  BY <1>5, <1>6 DEF Rest
<1>8. pause_bytes = 0 /\ ~extended_key /\ extended_key \in BOOLEAN /\ Len(kbd.left) = 0
  BY <1>2 DEF InputIInv, DecoderInv
<1>9. DecoderInv'
  <2>1. KeyKind(kbd.report)' /\ (noise' => Len(kbd'.report) = 1) /\ ~kbd'.lost
    <3>1. KeyKind(kbd.report)'
      BY <1>1, <1>5 DEF KeyKind
    <3>2. noise' = noise
      BY <1>2
    <3>. QED
      BY ONLY <1>1, <1>5, <3>1, <3>2, Zenon
  <2>2. pause_bytes' = 0 /\ ~extended_key' /\ extended_key' \in BOOLEAN
    BY <1>2, <1>8
  <2>3. shift_pressed' \in BOOLEAN /\ caps_lock_active' \in BOOLEAN
    BY <1>2 DEF InputIInv, DecoderInv
  <2>4. ~(Len(kbd'.report) = 6 /\ Len(kbd'.left) < 6) /\ ~(Len(kbd'.report) = 2 /\ Len(kbd'.left) = 1)
    <3>1. kbd'.report = r /\ kbd'.left = r
      BY <1>5
    <3>2. ASSUME NEW n PROVE ~(n = 6 /\ n < 6) /\ ~(n = 2 /\ n = 1)
      OBVIOUS
    <3>. QED
      BY ONLY <3>1, <3>2
  <2>5. Rest(kbd)'
    BY ONLY <1>7 DEF Rest
  <2>6. (pause_bytes = IF Len(kbd.report) = 6 /\ Len(kbd.left) < 6 THEN Len(kbd.left) ELSE 0)'
    BY ONLY <2>2, <2>4, Zenon
  <2>7. (extended_key <=> Len(kbd.report) = 2 /\ Len(kbd.left) = 1)'
    BY ONLY <2>2, <2>4, Zenon
  <2>. QED
    BY ONLY <2>1, <2>2, <2>3, <2>5, <2>6, <2>7, Zenon DEF DecoderInv
<1>10. ShiftInv'
  <2>1. ~noise /\ shift_pressed => kbd.down \cap {Input!LSHIFT, Input!RSHIFT} # {}
    BY <1>8 DEF InputIInv, ShiftInv
  <2>2. Len(r) = 1 /\ r[1] < 128 => r[1] \in kbd'.down
    BY <1>5 DEF Input!Made
  <2>3. CASE Len(r) # 1
    BY <1>2, <1>5, <2>1, <2>3 DEF ShiftInv
  <2>4. CASE Len(r) = 1 /\ r[1] % 128 \in {Input!LSHIFT, Input!RSHIFT}
    BY <1>2, <1>5, <2>2, <2>4 DEF ShiftInv
  <2>5. CASE Len(r) = 1 /\ r[1] % 128 \notin {Input!LSHIFT, Input!RSHIFT}
    <3>1. r[1] \in 0 .. 255
      BY <1>3, <2>5 DEF Input!Codes, Input!Byte
    <3>2. r[1] >= 128 => r[1] - 128 \notin {Input!LSHIFT, Input!RSHIFT}
      BY <2>5, <3>1 DEF Input!LSHIFT, Input!RSHIFT
    <3>3. kbd.down \cap {Input!LSHIFT, Input!RSHIFT} \subseteq kbd'.down
      <4>1. CASE r[1] < 128
        BY <1>5, <2>5, <4>1 DEF Input!Made
      <4>2. CASE ~(r[1] < 128)
        <5>1. kbd'.down = kbd.down \ {r[1] - 128}
          BY <1>5, <2>5, <4>2 DEF Input!Made
        <5>2. r[1] - 128 \notin {Input!LSHIFT, Input!RSHIFT}
          BY <3>1, <3>2, <4>2
        <5>. QED
          BY ONLY <5>1, <5>2, Zenon
      <4>. QED
        BY <4>1, <4>2
    <3>. QED
      BY <1>2, <1>5, <2>1, <2>2, <3>3 DEF ShiftInv
  <2>. QED
    BY <2>3, <2>4, <2>5
<1>11. MouseInv' /\ InputQueueInv'
  BY <1>2 DEF InputIInv, MouseInv, InputQueueInv, MouseKind
<1>12. Input!Due = <<>>
  BY <1>1, <1>2, <1>5 DEF Input!Due
<1>. QED
  BY <1>2, <1>9, <1>10, <1>11, <1>12 DEF InputIInv, Owed

\* The mouse has something to report.
LEMMA MouseReportKeeps ==
  ASSUME Input!ReportAssumption, InputIInv, NEW p \in IF noise THEN NoisyPackets ELSE Packets, Input!MouseReport(p)
  PROVE  InputIInv' /\ Owed
<1>1. p \in Seq(Input!Byte) /\ MouseKind(p) /\ Len(p) = 3
  <2>1. noise \in BOOLEAN
    BY DEF InputIInv, MouseInv
  <2>2. p \in Packets \cup NoisyPackets /\ (noise => p \in NoisyPackets)
    BY <2>1
  <2>. QED
    BY <2>2 DEF Input!ReportAssumption, MouseKind
<1>2. /\ mouse.left = <<>> /\ Rest(mouse)
      /\ mouse' = [mouse EXCEPT !.report = p, !.left = p, !.lost = FALSE]
      /\ UNCHANGED <<kbd, mouse_present, noise, packet, pause_bytes, extended_key,
                     shift_pressed, caps_lock_active, inputs, chars>>
  BY DEF Input!MouseReport, InputIInv, MouseInv, Input!decode, Input!queues
<1>3. /\ mouse'.report = p /\ mouse'.left = p /\ mouse'.lost = FALSE
      /\ mouse' \in [report : Seq(Input!Byte), left : Seq(Input!Byte), lost : BOOLEAN, down : SUBSET Int]
  BY <1>1, <1>2 DEF Rest
<1>4. Rest(mouse')
  BY <1>1, <1>3 DEF Rest
<1>5. packet \in Seq(Input!Byte) /\ Len(packet) = 0 /\ Len(mouse.left) = 0
  BY <1>2 DEF InputIInv, MouseInv
<1>6. MouseInv'
  <2>1. MouseKind(mouse.report)'
    BY ONLY <1>1, <1>2, <1>3 DEF MouseKind
  <2>2. packet' = packet /\ Len(mouse'.left) = 3 /\ mouse_present' = mouse_present /\ noise' = noise
    BY ONLY <1>1, <1>2, <1>3, Zenon
  <2>3. mouse_present \in BOOLEAN /\ noise \in BOOLEAN
    BY DEF InputIInv, MouseInv
  <2>4. (Len(packet) = IF mouse_present /\ ~mouse.lost /\ Len(mouse.left) \in {1, 2}
                       THEN 3 - Len(mouse.left) ELSE 0)'
    <3>1. Len(mouse'.left) \notin {1, 2}
      BY ONLY <2>2
    <3>. QED
      BY ONLY <1>5, <2>2, <3>1, Zenon
  <2>5. Rest(mouse)' /\ ~mouse'.lost
    BY ONLY <1>3, <1>4, Zenon DEF Rest
  <2>6. 1 .. Len(packet)' = {}
    BY ONLY <1>5, <2>2
  <2>. QED
    BY ONLY <1>5, <2>1, <2>2, <2>3, <2>4, <2>5, <2>6, Zenon DEF MouseInv
<1>7. DecoderInv' /\ ShiftInv' /\ InputQueueInv'
  BY <1>2 DEF InputIInv, DecoderInv, ShiftInv, InputQueueInv, KeyKind
<1>8. p # <<>>
  BY ONLY <1>1
<1>9. Input!Due = <<>>
  BY <1>2, <1>3, <1>8 DEF Input!Due
<1>. QED
  BY <1>2, <1>6, <1>7, <1>9 DEF InputIInv, Owed

\* A code behind no prefix or one: the event and the character it makes.
LEMMA KeyQueues ==
  ASSUME Input!ReportAssumption, InputIInv, NEW b \in Input!Codes, Input!Key(b % 128, b < 128)
  PROVE  /\ InputQueueInv'
         /\ inputs' = Input!Pushed(inputs, [code |-> (b % 128) + (IF extended_key THEN 256 ELSE 0),
                                      value |-> b < 128])
         /\ shift_pressed' \in BOOLEAN /\ caps_lock_active' \in BOOLEAN
<1>1. b \in 0 .. 255 /\ b % 128 \in 0 .. 127
  BY DEF Input!Codes, Input!Byte
<1>2. extended_key \in BOOLEAN /\ shift_pressed \in BOOLEAN /\ caps_lock_active \in BOOLEAN
  BY DEF InputIInv, DecoderInv
<1>. DEFINE e == [code |-> (b % 128) + (IF extended_key THEN 256 ELSE 0), value |-> b < 128]
            ch == Input!Char(b % 128, b < 128)
<1>3. /\ inputs' = Input!Pushed(inputs, e)
      /\ chars' = IF ch = <<>> THEN chars ELSE Input!Pushed(chars, ch[1])
      /\ Input!Modify(b % 128, b < 128)
  BY DEF Input!Key
<1>4. e \in Input!Event
  BY <1>1, <1>2 DEF Input!Event
<1>5. ch = <<>> \/ ch[1] \in Chars
  <2>1. Input!Upper(b % 128) \in BOOLEAN
    BY <1>2 DEF Input!Upper
  <2>2. \/ ch = <<[special |-> b % 128]>> /\ b % 128 \in Input!SpecialKeys
        \/ ch = <<[code |-> b % 128, upper |-> Input!Upper(b % 128)]>> /\ b % 128 \in Input!Printable
        \/ ch = <<>>
    BY DEF Input!Char
  <2>. HIDE DEF ch
  <2>. QED
    BY <2>1, <2>2 DEF Chars
<1>6. /\ inputs \in Seq(Input!Event) /\ Len(inputs) <= InputRoom /\ chars \in Seq(Chars) /\ Len(chars) <= InputRoom
      /\ InputRoom \in Nat
  BY DEF InputIInv, InputQueueInv, Input!ReportAssumption
<1>. HIDE DEF e, ch
<1>7. inputs' \in Seq(Input!Event) /\ Len(inputs') <= InputRoom
  BY <1>3, <1>4, <1>6, InputPushedTyped
<1>8. chars' \in Seq(Chars) /\ Len(chars') <= InputRoom
  BY <1>3, <1>5, <1>6, InputPushedTyped
<1>9. shift_pressed' \in BOOLEAN /\ caps_lock_active' \in BOOLEAN
  <2>1. (b < 128) \in BOOLEAN
    OBVIOUS
  <2>2. shift_pressed' \in {shift_pressed, b < 128}
    BY <1>3 DEF Input!Modify
  <2>3. ASSUME NEW x, NEW y PROVE (x # y) \in BOOLEAN
    OBVIOUS
  <2>4. caps_lock_active' \in BOOLEAN
    BY <1>3, <2>3, Zenon DEF Input!Modify
  <2>. QED
    BY ONLY <1>2, <2>1, <2>2, <2>4, Zenon
<1>. QED
  BY <1>3, <1>7, <1>8, <1>9 DEF InputQueueInv, e

\* A byte of the keyboard arrives: of all the bytes of a report only the
\* last one has an effect, the event of the report.
LEMMA KeyByteKeeps ==
  ASSUME Input!ReportAssumption, InputIInv, Input!KeyByte
  PROVE  InputIInv' /\ Owed
<1>. DEFINE r == kbd.report
            k == Len(kbd.left)
            b == Head(kbd.left)
<1>1. /\ kbd.left # <<>> /\ kbd' = Input!Sent(kbd) /\ Input!keyboard_handler(b)
      /\ UNCHANGED <<mouse, mouse_present, noise, packet>>
  BY DEF Input!KeyByte
<1>2. /\ Rest(kbd) /\ kbd.lost = FALSE /\ KeyKind(r) /\ (noise => Len(r) = 1)
      /\ pause_bytes = IF Len(r) = 6 /\ k < 6 THEN k ELSE 0
      /\ extended_key \in BOOLEAN /\ (extended_key <=> Len(r) = 2 /\ k = 1)
      /\ shift_pressed \in BOOLEAN /\ caps_lock_active \in BOOLEAN
  BY <1>1 DEF InputIInv, DecoderInv, Rest
<1>3. /\ Rest(kbd') /\ Len(kbd'.left) = k - 1 /\ kbd'.report = r /\ kbd'.lost = FALSE
      /\ kbd'.down = kbd.down /\ b = r[1 + (Len(r) - k)] /\ b \in Input!Byte /\ k \in Nat \ {0}
  BY <1>1, <1>2, SentRest
<1>4. k <= Len(r) /\ Len(r) \in Nat /\ (kbd'.left = <<>> <=> k = 1) /\ kbd'.left # kbd.left
  <2>1. kbd'.left = <<>> <=> k = 1
    <3>1. (kbd'.left = <<>> <=> Len(kbd'.left) = 0) /\ Len(kbd'.left) \in Nat
      BY ONLY <1>3, RestLeft, Zenon
    <3>. HIDE DEF k
    <3>. QED
      BY ONLY <1>3, <3>1
  <2>2. Len(kbd'.left) # Len(kbd.left)
    BY <1>3
  <2>. QED
    BY <1>2, <2>1, <2>2 DEF Rest
<1>5. MouseInv'
  BY <1>1 DEF InputIInv, MouseInv, MouseKind
<1>. HIDE DEF r, k, b
<1>6. Input!Due = IF k = 1 THEN Input!KeyMeaning(r) ELSE <<>>
  BY <1>1, <1>3, <1>4 DEF Input!Due, r
<1>7. CASE Len(r) = 6
  <2>1. r = Input!PAUSE /\ (k = 6 => b = 225) /\ pause_bytes = (IF k < 6 THEN k ELSE 0) /\ ~extended_key
    BY <1>2, <1>3, <1>4, <1>7 DEF KeyKind
  <2>2. /\ pause_bytes' = k - 1 /\ extended_key' \in BOOLEAN /\ ~extended_key'
        /\ UNCHANGED <<shift_pressed, caps_lock_active, inputs, chars>>
    <3>1. CASE k < 6
      <4>1. pause_bytes = k /\ k > 0
        BY <1>3, <2>1, <3>1
      <4>. QED
        BY <1>1, <2>1, <1>2, <4>1 DEF Input!keyboard_handler, Input!queues
    <3>2. CASE k = 6
      <4>1. pause_bytes = 0 /\ b = 225
        BY <2>1, <3>2
      <4>2. pause_bytes' = 5 /\ extended_key' = FALSE /\ UNCHANGED <<shift_pressed, caps_lock_active, Input!queues>>
        <5>1. ~(pause_bytes > 0) /\ b # 224
          BY ONLY <4>1
        <5>. QED
          BY ONLY <1>1, <4>1, <5>1, Zenon DEF Input!keyboard_handler
      <4>3. 5 = k - 1
        BY ONLY <3>2
      <4>. QED
        BY ONLY <4>2, <4>3, Zenon DEF Input!queues
    <3>. QED
      BY <1>3, <1>4, <1>7, <3>1, <3>2
  <2>3. Input!Due = <<>>
    BY <1>6, <2>1 DEF Input!KeyMeaning
  <2>4. DecoderInv'
    BY <1>1, <1>2, <1>3, <1>4, <1>7, <2>2 DEF DecoderInv, KeyKind
  <2>5. ShiftInv' /\ InputQueueInv'
    BY <1>1, <1>3, <1>7, <2>2 DEF InputIInv, ShiftInv, InputQueueInv, r
  <2>. QED
    BY <1>5, <2>2, <2>3, <2>4, <2>5 DEF InputIInv, Owed
<1>8. CASE Len(r) = 2 /\ k = 2
  <2>1. b = 224 /\ pause_bytes = 0
    BY <1>2, <1>3, <1>8 DEF KeyKind
  <2>2. /\ pause_bytes' = 0 /\ extended_key' = TRUE
        /\ UNCHANGED <<shift_pressed, caps_lock_active, inputs, chars>>
    BY <1>1, <2>1 DEF Input!keyboard_handler, Input!queues
  <2>3. Input!Due = <<>>
    BY <1>6, <1>8
  <2>4. DecoderInv'
    BY <1>1, <1>2, <1>3, <1>4, <1>8, <2>2 DEF DecoderInv, KeyKind
  <2>5. ShiftInv' /\ InputQueueInv'
    BY <1>1, <1>3, <1>8, <2>2 DEF InputIInv, ShiftInv, InputQueueInv, r
  <2>. QED
    BY <1>5, <2>2, <2>3, <2>4, <2>5 DEF InputIInv, Owed
<1>9. CASE Len(r) \in {1, 2} /\ k = 1
  <2>1. b = r[Len(r)] /\ b \in Input!Codes /\ pause_bytes = 0 /\ (extended_key <=> Len(r) = 2)
    <3>1. b = r[Len(r)] /\ pause_bytes = 0 /\ (extended_key <=> Len(r) = 2)
      <4>1. ~(Len(r) = 6 /\ k < 6) /\ 1 + (Len(r) - k) = Len(r)
        BY ONLY <1>9
      <4>. QED
        BY ONLY <1>2, <1>3, <1>9, <4>1, Zenon
    <3>2. CASE Len(r) = 1
      BY <1>2, <3>1, <3>2 DEF KeyKind
    <3>3. CASE Len(r) = 2
      BY <1>2, <3>1, <3>3 DEF KeyKind
    <3>. QED
      BY <1>9, <3>1, <3>2, <3>3
  <2>2. Input!Key(b % 128, b < 128)
    BY <1>1, <2>1 DEF Input!keyboard_handler, Input!Codes
  <2>3. /\ InputQueueInv' /\ shift_pressed' \in BOOLEAN /\ caps_lock_active' \in BOOLEAN
        /\ inputs' = Input!Pushed(inputs, [code |-> (b % 128) + (IF extended_key THEN 256 ELSE 0),
                                     value |-> b < 128])
    BY <2>1, <2>2, KeyQueues
  <2>4. extended_key' = FALSE /\ pause_bytes' = 0 /\ Input!Modify(b % 128, b < 128)
    BY <2>1, <2>2 DEF Input!Key
  <2>5. r # Input!PAUSE
    <3>1. Len(Input!PAUSE) = 6
      BY DEF Input!PAUSE
    <3>. QED
      BY <1>9, <3>1
  <2>6. Input!Due # <<>> /\ Input!Due[1] = [code |-> (b % 128) + (IF extended_key THEN 256 ELSE 0), value |-> b < 128]
    BY <1>6, <1>9, <2>1, <2>5 DEF Input!KeyMeaning
  <2>7. DecoderInv'
    BY <1>1, <1>2, <1>3, <1>4, <1>9, <2>3, <2>4 DEF DecoderInv, KeyKind
  <2>8. ShiftInv'
    <3>1. Len(kbd'.left) = 0 /\ kbd'.down = kbd.down
      BY <1>3, <1>9
    <3>2. CASE ~extended_key /\ b % 128 \in {Input!LSHIFT, Input!RSHIFT}
      <4>1. shift_pressed' = (b < 128)
        BY <2>4, <3>2 DEF Input!Modify
      <4>2. Len(r) = 1 /\ b = r[1] /\ b \in 0 .. 255
        BY <1>9, <2>1, <3>2 DEF Input!Codes, Input!Byte
      <4>3. b < 128 => b \in kbd.down
        BY <1>9, <4>2 DEF InputIInv, ShiftInv, r, k
      <4>4. b < 128 => b \in {Input!LSHIFT, Input!RSHIFT}
        BY <3>2, <4>2 DEF Input!LSHIFT, Input!RSHIFT
      <4>5. shift_pressed' => kbd'.down \cap {Input!LSHIFT, Input!RSHIFT} # {}
        BY ONLY <3>1, <4>1, <4>3, <4>4, Zenon
      <4>. QED
        BY <1>1, <3>1, <4>5 DEF ShiftInv
    <3>3. CASE ~(~extended_key /\ b % 128 \in {Input!LSHIFT, Input!RSHIFT})
      <4>1. shift_pressed' = shift_pressed
        BY <2>4, <3>3 DEF Input!Modify
      <4>2. ~noise /\ shift_pressed => kbd.down \cap {Input!LSHIFT, Input!RSHIFT} # {}
        BY <1>9, <2>1, <3>3 DEF InputIInv, ShiftInv, r, k
      <4>. QED
        BY <1>1, <3>1, <4>1, <4>2 DEF ShiftInv
    <3>. QED
      BY <3>2, <3>3
  <2>. QED
    BY <1>1, <1>5, <2>3, <2>6, <2>7, <2>8 DEF InputIInv, Owed
<1>10. Len(r) \in {1, 2, 6}
  BY <1>2 DEF KeyKind
<1>11. Len(r) = 6 \/ (Len(r) = 2 /\ k = 2) \/ (Len(r) \in {1, 2} /\ k = 1)
  <2>1. k \in Nat \ {0} /\ k <= Len(r)
    BY ONLY <1>3, <1>4, Zenon
  <2>2. ASSUME NEW n \in Nat \ {0}, NEW m \in {1, 2, 6}, n <= m
        PROVE  m = 6 \/ (m = 2 /\ n = 2) \/ (m \in {1, 2} /\ n = 1)
    BY <2>2
  <2>. QED
    BY ONLY <1>10, <2>1, <2>2, Zenon
<1>. QED
  BY ONLY <1>7, <1>8, <1>9, <1>11, Zenon

\* The sign bit makes a byte a number on either side of zero.
LEMMA SignedTyped ==
  ASSUME NEW x \in 0 .. 255, NEW s
  PROVE  Input!Signed(x, s) \in -256 .. 255 /\ -Input!Signed(x, s) \in -255 .. 256 /\ x % 8 \in 0 .. 7
<1>1. x % 8 \in 0 .. 7
  OBVIOUS
<1>2. Input!Signed(x, s) = x \/ Input!Signed(x, s) = x - 256
  BY DEF Input!Signed
<1>. QED
  BY <1>1, <1>2

\* The movement that a whole packet stands for is an event.
LEMMA MovementTyped ==
  ASSUME NEW p \in Seq(Input!Byte), Len(p) = 3
  PROVE  Input!Movement(p) \in Input!Event
<1>1. p[1] \in 0 .. 255 /\ p[2] \in 0 .. 255 /\ p[3] \in 0 .. 255
  <2>1. \A i \in 1 .. 3 : p[i] \in Input!Byte
    BY ElementOfSeq
  <2>. QED
    BY <2>1 DEF Input!Byte
<1>2. p[1] % 8 \in 0 .. 7
  BY ONLY <1>1, SignedTyped
<1>3. Input!Signed(p[2], Input!Bit(p[1], 4)) \in -256 .. 255
  BY ONLY <1>1, SignedTyped, Zenon
<1>4. -Input!Signed(p[3], Input!Bit(p[1], 5)) \in -255 .. 256
  BY ONLY <1>1, SignedTyped, Zenon
<1>. QED
  BY <1>2, <1>3, <1>4 DEF Input!Movement, Input!Event

\* A byte of the mouse arrives: the last one of a packet of which none was
\* lost gives the packet's event, all others give nothing.
LEMMA MouseByteKeeps ==
  ASSUME Input!ReportAssumption, InputIInv, Input!MouseByte
  PROVE  InputIInv' /\ Owed
<1>. DEFINE p == mouse.report
            k == Len(mouse.left)
            b == Head(mouse.left)
            whole == Append(packet, b)
<1>1. /\ mouse.left # <<>> /\ mouse' = Input!Sent(mouse)
      /\ IF mouse_present THEN Input!ps2_mouse_byte(b) ELSE UNCHANGED <<packet, inputs>>
      /\ UNCHANGED <<kbd, mouse_present, noise, pause_bytes, extended_key, shift_pressed,
                     caps_lock_active, chars>>
  BY DEF Input!MouseByte, Input!decode
<1>2. /\ Rest(mouse) /\ mouse_present \in BOOLEAN /\ noise \in BOOLEAN /\ mouse.lost \in BOOLEAN
      /\ Len(p) = 3 /\ Input!Bit(p[1], 3) /\ (noise => ~Input!Bit(p[2], 3) /\ ~Input!Bit(p[3], 3))
      /\ mouse.lost => noise /\ k < 3
      /\ packet \in Seq(Input!Byte)
      /\ Len(packet) = IF mouse_present /\ ~mouse.lost /\ k \in {1, 2} THEN 3 - k ELSE 0
      /\ \A i \in 1 .. Len(packet) : packet[i] = p[i]
  BY <1>1 DEF InputIInv, MouseInv, MouseKind, Rest
<1>3. /\ Rest(mouse') /\ Len(mouse'.left) = k - 1 /\ mouse'.report = p /\ mouse'.lost = mouse.lost
      /\ b = p[1 + (Len(p) - k)] /\ b \in Input!Byte /\ k \in Nat \ {0}
  BY <1>1, <1>2, SentRest
<1>4. k \in 1 .. 3 /\ (mouse'.left = <<>> <=> k = 1) /\ mouse'.left # mouse.left
  <2>1. mouse'.left = <<>> <=> k = 1
    <3>1. (mouse'.left = <<>> <=> Len(mouse'.left) = 0) /\ Len(mouse'.left) \in Nat
      BY ONLY <1>3, RestLeft, Zenon
    <3>. HIDE DEF k
    <3>. QED
      BY ONLY <1>3, <3>1
  <2>2. Len(mouse'.left) # Len(mouse.left)
    BY <1>3
  <2>3. k <= Len(p)
    BY <1>2 DEF Rest
  <2>4. k \in Nat \ {0} /\ k <= 3
    BY ONLY <1>2, <1>3, <2>3, Zenon
  <2>5. ASSUME NEW n \in Nat \ {0}, n <= 3 PROVE n \in 1 .. 3
    BY <2>5
  <2>. QED
    BY ONLY <2>1, <2>2, <2>4, <2>5, Zenon
<1>5. DecoderInv' /\ ShiftInv'
  BY <1>1 DEF InputIInv, DecoderInv, ShiftInv, KeyKind
<1>6. /\ whole \in Seq(Input!Byte) /\ Len(whole) = Len(packet) + 1 /\ whole[Len(packet) + 1] = b
      /\ \A i \in 1 .. Len(packet) : whole[i] = packet[i]
  BY <1>2, <1>3, AppendProperties
<1>7. /\ inputs \in Seq(Input!Event) /\ Len(inputs) <= InputRoom /\ chars \in Seq(Chars) /\ Len(chars) <= InputRoom
      /\ InputRoom \in Nat
  BY DEF InputIInv, InputQueueInv, Input!ReportAssumption
<1>8. p \in Seq(Input!Byte)
  BY <1>2 DEF Rest
<1>9. Input!Due = IF k = 1 /\ ~mouse.lost THEN Input!MouseMeaning(p) ELSE <<>>
  <2>. HIDE DEF k
  <2>. QED
    BY <1>1, <1>3, <1>4 DEF Input!Due
<1>10. packet = <<>> <=> Len(packet) = 0
  BY <1>2, Nonempty
<1>. HIDE DEF p, k, b, whole
<1>11. ASSUME Len(packet') = 0, packet' \in Seq(Input!Byte), k = 1 \/ ~mouse_present \/ mouse.lost
       PROVE  MouseInv'
  BY <1>1, <1>2, <1>3, <1>4, <1>11 DEF MouseInv, MouseKind, p
<1>12. CASE ~mouse_present
  <2>1. UNCHANGED <<packet, inputs>> /\ Len(packet) = 0
    BY <1>1, <1>2, <1>12
  <2>2. Input!Due = <<>>
    BY <1>9, <1>12 DEF Input!MouseMeaning
  <2>. QED
    BY <1>1, <1>2, <1>5, <1>7, <1>11, <1>12, <2>1, <2>2 DEF InputIInv, InputQueueInv, Owed
<1>13. CASE mouse_present /\ mouse.lost
  <2>1. packet = <<>> /\ b \in {p[2], p[3]} /\ ~Input!Bit(b, 3)
    BY <1>2, <1>3, <1>4, <1>10, <1>13
  <2>2. UNCHANGED <<packet, inputs>> /\ Len(packet) = 0
    <3>1. Input!ps2_mouse_byte(b)
      BY ONLY <1>1, <1>13, Zenon
    <3>2. UNCHANGED <<packet, inputs>>
      BY ONLY <2>1, <3>1, Zenon DEF Input!ps2_mouse_byte
    <3>. QED
      BY ONLY <1>10, <2>1, <3>2, Zenon
  <2>3. Input!Due = <<>>
    BY <1>9, <1>13
  <2>. QED
    BY <1>1, <1>2, <1>5, <1>7, <1>11, <1>13, <2>2, <2>3 DEF InputIInv, InputQueueInv, Owed
<1>14. CASE mouse_present /\ ~mouse.lost /\ k # 1
  <2>1. Len(whole) < 3 /\ Len(packet) = 3 - k
    BY <1>2, <1>4, <1>6, <1>14
  <2>2. ~(packet = <<>> /\ ~Input!Bit(b, 3))
    BY <1>2, <1>3, <1>4, <1>10, <1>14, <2>1
  <2>3. packet' = whole /\ inputs' = inputs
    BY <1>1, <1>14, <2>1, <2>2 DEF Input!ps2_mouse_byte, whole
  <2>4. Input!Due = <<>>
    BY <1>9, <1>14
  <2>5. b = p[4 - k] /\ \A i \in 1 .. Len(whole) : whole[i] = p[i]
    <3>1. b = p[4 - k]
      BY <1>2, <1>3, <1>4
    <3>. QED
      BY <1>2, <1>4, <1>6, <2>1, <3>1
  <2>6. MouseInv'
    <3>1. k - 1 \in {1, 2} /\ Len(whole) = 3 - (k - 1)
      <4>1. k \in {2, 3} /\ Len(packet) = 3 - k /\ Len(whole) = Len(packet) + 1
        BY ONLY <1>4, <1>6, <1>14, <2>1
      <4>. QED
        BY ONLY <4>1
    <3>2. /\ packet' = whole /\ mouse'.report = p /\ Len(mouse'.left) = k - 1 /\ mouse'.lost = mouse.lost
          /\ mouse_present' = mouse_present /\ noise' = noise
      BY ONLY <1>1, <1>3, <2>3, Zenon
    <3>3. Rest(mouse)'
      BY ONLY <1>3 DEF Rest
    <3>4. (Len(packet) = IF mouse_present /\ ~mouse.lost /\ Len(mouse.left) \in {1, 2}
                         THEN 3 - Len(mouse.left) ELSE 0)'
      BY ONLY <1>14, <3>1, <3>2
    <3>5. (\A i \in 1 .. Len(packet) : packet[i] = mouse.report[i])' /\ packet' \in Seq(Input!Byte)
      BY ONLY <1>6, <2>5, <3>2
    <3>6. MouseKind(mouse.report)' /\ ~mouse'.lost
      BY ONLY <1>2, <1>14, <3>2 DEF MouseKind
    <3>7. mouse_present' \in BOOLEAN /\ noise' \in BOOLEAN
      BY ONLY <1>2, <3>2, Zenon
    <3>. QED
      BY ONLY <3>3, <3>4, <3>5, <3>6, <3>7 DEF MouseInv
  <2>. QED
    BY <1>1, <1>5, <1>7, <2>3, <2>4, <2>6 DEF InputIInv, InputQueueInv, Owed
<1>15. CASE mouse_present /\ ~mouse.lost /\ k = 1
  <2>1. Len(packet) = 2 /\ Len(whole) = 3
    BY <1>2, <1>6, <1>15
  <2>2. packet' = <<>> /\ inputs' = IF Input!Overflowed(whole) THEN inputs ELSE Input!Pushed(inputs, Input!Movement(whole))
    BY <1>1, <1>10, <1>15, <2>1 DEF Input!ps2_mouse_byte, whole
  <2>3. whole = p
    <3>1. b = p[3]
      BY <1>2, <1>3, <1>15
    <3>2. \A i \in 1 .. Len(whole) : whole[i] = p[i]
      BY <1>2, <1>6, <2>1, <3>1
    <3>. QED
      BY <1>2, <1>6, <1>8, <2>1, <3>2, SeqEqual
  <2>4. Input!Due = IF Input!Overflowed(p) THEN <<>> ELSE <<Input!Movement(p)>>
    BY <1>9, <1>15 DEF Input!MouseMeaning
  <2>5. inputs' \in Seq(Input!Event) /\ Len(inputs') <= InputRoom
    BY <1>2, <1>7, <1>8, <2>2, <2>3, MovementTyped, InputPushedTyped
  <2>6. MouseInv'
    BY <1>11, <1>15, <2>2
  <2>7. InputQueueInv'
    BY <1>1, <1>7, <2>5 DEF InputQueueInv
  <2>8. Owed
    BY <1>1, <2>2, <2>3, <2>4 DEF Owed
  <2>. QED
    BY <1>5, <2>6, <2>7, <2>8 DEF InputIInv
<1>. QED
  BY <1>2, <1>12, <1>13, <1>14, <1>15

\* A damaged byte: it is dropped with what was collected of a packet.
LEMMA ErrorKeeps ==
  ASSUME Input!ReportAssumption, InputIInv, Input!KeyError \/ Input!MouseError
  PROVE  InputIInv' /\ Owed
<1>1. /\ noise /\ packet' = <<>>
      /\ UNCHANGED <<mouse_present, noise, pause_bytes, extended_key, shift_pressed,
                     caps_lock_active, inputs, chars>>
  BY DEF Input!KeyError, Input!MouseError, Input!Reset, Input!decode, Input!queues
<1>2. InputQueueInv'
  BY <1>1 DEF InputIInv, InputQueueInv
<1>3. Rest(kbd) /\ Rest(mouse)
  BY DEF InputIInv, DecoderInv, MouseInv
<1>4. Len(packet') = 0 /\ packet' \in Seq(Input!Byte)
  BY <1>1
<1>5. CASE Input!KeyError
  <2>1. /\ kbd.left # <<>> /\ kbd' = [Input!Sent(kbd) EXCEPT !.lost = TRUE]
        /\ mouse' = [mouse EXCEPT !.lost = @ \/ mouse.left \notin {<<>>, mouse.report}]
    BY <1>5 DEF Input!KeyError
  <2>2. /\ Rest(Input!Sent(kbd)) /\ Len(Input!Sent(kbd).left) = Len(kbd.left) - 1
        /\ Input!Sent(kbd).report = kbd.report /\ Input!Sent(kbd).down = kbd.down
    BY <1>3, <2>1, SentRest
  <2>3. /\ Rest(kbd') /\ Len(kbd'.left) = Len(kbd.left) - 1 /\ kbd'.lost = TRUE
        /\ kbd'.report = kbd.report /\ kbd'.down = kbd.down
    BY <2>1, <2>2 DEF Rest
  <2>4. Len(kbd.report) = 1 /\ Len(kbd.left) = 1 /\ KeyKind(kbd.report) /\ kbd.lost = FALSE
    <3>1. Len(kbd.report) = 1 /\ KeyKind(kbd.report) /\ kbd.lost = FALSE
      BY <1>1, <1>3, <2>1 DEF InputIInv, DecoderInv, Rest
    <3>2. Len(kbd.left) \in Nat /\ Len(kbd.left) # 0 /\ Len(kbd.left) <= Len(kbd.report)
      BY <1>3, <2>1, Nonempty DEF Rest
    <3>3. ASSUME NEW n \in Nat, n # 0, n <= 1 PROVE n = 1
      BY <3>3
    <3>. QED
      BY ONLY <3>1, <3>2, <3>3, Zenon
  <2>5. kbd'.left = <<>>
    BY <2>3, <2>4, Nonempty DEF Rest
  <2>6. DecoderInv'
    BY <1>1, <2>3, <2>4, <2>5 DEF InputIInv, DecoderInv
  <2>7. ShiftInv'
    BY <1>1, <2>3, <2>4 DEF ShiftInv
  <2>8. /\ mouse'.left = mouse.left /\ mouse'.report = mouse.report
        /\ mouse'.lost = (mouse.lost \/ mouse.left \notin {<<>>, mouse.report})
        /\ mouse' \in [report : Seq(Input!Byte), left : Seq(Input!Byte), lost : BOOLEAN, down : SUBSET Int]
    BY <1>3, <2>1 DEF Rest
  <2>9. Rest(mouse')
    BY <1>3, <2>8 DEF Rest
  <2>10. mouse.left \notin {<<>>, mouse.report} => Len(mouse.left) < 3
    <3>1. SUFFICES ASSUME mouse.left \notin {<<>>, mouse.report} PROVE Len(mouse.left) < 3
      OBVIOUS
    <3>2. Len(mouse.report) = 3 /\ Len(mouse.left) <= Len(mouse.report) /\ Len(mouse.left) \in Nat
      BY <1>3, <3>1 DEF InputIInv, MouseInv, MouseKind, Rest
    <3>3. Len(mouse.left) # Len(mouse.report)
      BY <1>3, <3>1, AllLeft
    <3>4. ASSUME NEW n \in Nat, n # 3, n <= 3 PROVE n < 3
      BY <3>4
    <3>. QED
      BY ONLY <3>2, <3>3, <3>4, Zenon
  <2>11. Len(mouse.left) \in {1, 2} => mouse'.lost
    <3>1. SUFFICES ASSUME Len(mouse.left) \in {1, 2} PROVE mouse.left \notin {<<>>, mouse.report}
      BY <2>8
    <3>2. mouse.left # <<>>
      <4>1. Len(<<>>) \notin {1, 2}
        OBVIOUS
      <4>. QED
        BY ONLY <3>1, <4>1, Zenon
    <3>3. Len(mouse.report) = 3
      BY <3>2 DEF InputIInv, MouseInv, MouseKind
    <3>4. 3 \notin {1, 2}
      OBVIOUS
    <3>. QED
      BY ONLY <3>1, <3>2, <3>3, <3>4, Zenon
  <2>12. MouseInv'
    BY <1>1, <1>4, <2>8, <2>9, <2>10, <2>11 DEF InputIInv, MouseInv, MouseKind
  <2>13. Input!Due = <<>>
    BY <2>3, <2>8 DEF Input!Due
  <2>. QED
    BY <1>1, <1>2, <2>6, <2>7, <2>12, <2>13 DEF InputIInv, Owed
<1>6. CASE Input!MouseError
  <2>1. mouse.left # <<>> /\ mouse' = [Input!Sent(mouse) EXCEPT !.lost = TRUE] /\ kbd' = kbd
    BY <1>6 DEF Input!MouseError
  <2>2. /\ Rest(Input!Sent(mouse)) /\ Len(Input!Sent(mouse).left) = Len(mouse.left) - 1
        /\ Input!Sent(mouse).report = mouse.report
    BY <1>3, <2>1, SentRest
  <2>3. /\ Rest(mouse') /\ Len(mouse'.left) = Len(mouse.left) - 1 /\ mouse'.lost = TRUE
        /\ mouse'.report = mouse.report
    BY <2>1, <2>2 DEF Rest
  <2>4. MouseKind(mouse.report)
    BY <2>1 DEF InputIInv, MouseInv
  <2>5. Len(mouse.left) \in Nat /\ Len(mouse.left) <= 3
    BY <1>3, <2>4 DEF Rest, MouseKind
  <2>6. MouseInv'
    BY <1>1, <1>4, <2>3, <2>4, <2>5 DEF InputIInv, MouseInv, MouseKind
  <2>7. DecoderInv' /\ ShiftInv'
    BY <1>1, <2>1 DEF InputIInv, DecoderInv, ShiftInv, KeyKind
  <2>8. Input!Due = <<>>
    BY <2>1, <2>3 DEF Input!Due
  <2>. QED
    BY <1>1, <1>2, <2>6, <2>7, <2>8 DEF InputIInv, Owed
<1>. QED
  BY <1>5, <1>6

\* The readers take from the front.
LEMMA ReaderKeeps ==
  ASSUME Input!ReportAssumption, InputIInv, Input!TakeEvent \/ Input!keyboard_get_char
  PROVE  InputIInv' /\ Owed
<1>1. /\ UNCHANGED <<kbd, mouse, mouse_present, noise, packet, pause_bytes, extended_key,
                     shift_pressed, caps_lock_active>>
      /\ \/ Input!TakeEvent /\ inputs # <<>> /\ inputs' = Tail(inputs) /\ chars' = chars
         \/ Input!keyboard_get_char /\ chars # <<>> /\ chars' = Tail(chars) /\ inputs' = inputs
  BY DEF Input!TakeEvent, Input!keyboard_get_char, Input!decode
<1>2. /\ inputs \in Seq(Input!Event) /\ Len(inputs) <= InputRoom /\ chars \in Seq(Chars) /\ Len(chars) <= InputRoom
      /\ InputRoom \in Nat
  BY DEF InputIInv, InputQueueInv, Input!ReportAssumption
<1>3. InputQueueInv'
  BY <1>1, <1>2, InputTailTyped DEF InputQueueInv
<1>4. DecoderInv' /\ MouseInv' /\ ShiftInv'
  BY <1>1 DEF InputIInv, DecoderInv, MouseInv, ShiftInv, KeyKind, MouseKind
<1>5. Input!Due = <<>>
  BY <1>1 DEF Input!Due
<1>. QED
  BY <1>1, <1>3, <1>4, <1>5 DEF InputIInv, Owed

\* Every step keeps the invariant and gives what it owes.
LEMMA InputStepIInv ==
  ASSUME Input!ReportAssumption
  PROVE  InputIInv /\ [Input!Next]_(Input!vars) => InputIInv' /\ [Owed]_(Input!vars)
<1>1. SUFFICES ASSUME InputIInv, [Input!Next]_(Input!vars) PROVE InputIInv' /\ [Owed]_(Input!vars)
  OBVIOUS
<1>2. CASE Input!Next
  BY <1>1, <1>2, KeyReportKeeps, MouseReportKeeps, KeyByteKeeps, MouseByteKeeps, ErrorKeeps,
     ReaderKeeps DEF Input!Next
<1>3. CASE UNCHANGED Input!vars
  BY <1>1, <1>3 DEF Input!vars, Input!decode, Input!queues, InputIInv, DecoderInv, MouseInv, ShiftInv, InputQueueInv, KeyKind, MouseKind
<1>. QED
  BY <1>1, <1>2, <1>3

\* The invariant is what the safety properties say, and more.
LEMMA InputIInvSafe == Input!ReportAssumption /\ InputIInv => Input!Safety
<1>. SUFFICES ASSUME Input!ReportAssumption, InputIInv PROVE Input!Safety
  OBVIOUS
<1>1. Len(kbd.left) \in Nat /\ (kbd.left = <<>> <=> Len(kbd.left) = 0) /\ Len(kbd.report) \in Nat
  BY Nonempty DEF InputIInv, DecoderInv, Rest
<1>2. Len(mouse.left) \in Nat
  BY DEF InputIInv, MouseInv, Rest
<1>3. Input!ShiftHeld
  BY <1>1 DEF InputIInv, ShiftInv, Input!ShiftHeld
<1>4. Len(packet) < 3 /\ \A i \in DOMAIN packet : packet[i] \in Input!Byte
  <2>1. packet \in Seq(Input!Byte) /\ Len(packet) \in {0, 1, 2}
    <3>1. packet \in Seq(Input!Byte)
      BY DEF InputIInv, MouseInv
    <3>2. Len(packet) = IF mouse_present /\ ~mouse.lost /\ Len(mouse.left) \in {1, 2}
                        THEN 3 - Len(mouse.left) ELSE 0
      BY DEF InputIInv, MouseInv
    <3>3. ASSUME NEW n, n \in {1, 2} PROVE 3 - n \in {0, 1, 2}
      BY <3>3
    <3>. QED
      BY ONLY <3>1, <3>2, <3>3, Zenon
  <2>. QED
    BY <2>1, ElementOfSeq, LenProperties
<1>5. \A i \in DOMAIN inputs : inputs[i] \in Input!Event
  BY ElementOfSeq, LenProperties DEF InputIInv, InputQueueInv
<1>6. pause_bytes \in 0 .. 5 /\ extended_key \in BOOLEAN
  <2>1. /\ pause_bytes = IF Len(kbd.report) = 6 /\ Len(kbd.left) < 6 THEN Len(kbd.left) ELSE 0
        /\ extended_key \in BOOLEAN
    BY DEF InputIInv, DecoderInv
  <2>2. ASSUME NEW n \in Nat, n < 6 PROVE n \in 0 .. 5
    BY <2>2
  <2>3. 0 \in 0 .. 5
    OBVIOUS
  <2>. QED
    BY ONLY <1>1, <2>1, <2>2, <2>3, Zenon
<1>7. Input!TypeOK
  BY <1>4, <1>5, <1>6 DEF InputIInv, DecoderInv, MouseInv, InputQueueInv, Input!TypeOK
<1>. QED
  BY <1>3, <1>7 DEF Input!Safety

\* keyboard.c, ps2.c: the decoders' state fits the bytes that came so far.
THEOREM DecodersFit == ASSUME Input!ReportAssumption PROVE Input!Spec => []Input!Safety
<1>1. Input!Init => InputIInv
  BY InputInitIInv
<1>2. InputIInv /\ [Input!Next]_(Input!vars) => InputIInv'
  BY InputStepIInv
<1>3. InputIInv => Input!Safety
  BY InputIInvSafe
<1>. QED
  BY <1>1, <1>2, <1>3, PTL DEF Input!Spec

\* keyboard.c, ps2.c: the last byte of an undamaged report, and no other
\* byte, yields that report's event.
THEOREM ReportsAnswered == ASSUME Input!ReportAssumption PROVE Input!Spec => Input!OneEventPerReport
<1>1. Input!Init => InputIInv
  BY InputInitIInv
<1>2. InputIInv /\ [Input!Next]_(Input!vars) => InputIInv'
  BY InputStepIInv
<1>3. InputIInv /\ [Input!Next]_(Input!vars) => [Owed]_(Input!vars)
  BY InputStepIInv
<1>4. [Owed]_(Input!vars) =>
        [ /\ \/ Input!Due # <<>> /\ inputs' = Input!Pushed(inputs, Input!Due[1])
             \/ Input!Due = <<>> /\ (inputs' = inputs \/ Input!TakeEvent)
          /\ chars' # chars => Input!keyboard_get_char \/ (kbd.left # <<>> /\ Input!Due # <<>>) ]_(Input!vars)
  BY DEF Owed
<1>. QED
  BY <1>1, <1>2, <1>3, <1>4, PTL DEF Input!Spec, Input!OneEventPerReport

-----------------------------------------------------------------------------
\* A step of the services side by side is a step of each of them or leaves
\* it as it is.
LEMMA StepOfEach ==
  ASSUME [ServicesNext]_<<part, vars, fileVars, cacheVars, keyVars, inputVars>>
  PROVE  /\ [Next]_vars /\ [Keys!Next]_(Keys!vars) /\ [Cache!Next]_(Cache!vars)
         /\ [Input!Next]_(Input!vars)
<1>1. /\ UNCHANGED keyVars => UNCHANGED Keys!vars
      /\ UNCHANGED cacheVars => UNCHANGED Cache!vars
      /\ UNCHANGED inputVars => UNCHANGED Input!vars
  BY DEF keyVars, Keys!vars, cacheVars, Cache!vars, inputVars, Input!vars, Input!decode, Input!queues
<1>2. CASE UNCHANGED <<part, vars, fileVars, cacheVars, keyVars, inputVars>>
  BY <1>1, <1>2
<1>3. CASE ServicesNext
  BY <1>1, <1>3 DEF ServicesNext
<1>4. QED
  BY <1>2, <1>3

\* input.c beside the other services: the ring of events stays a queue.
THEOREM RingAmongServices == ServicesSpec => RingSafe
<1>1. ServicesInit => Init
  BY DEF ServicesInit
<1>2. [ServicesNext]_<<part, vars, fileVars, cacheVars, keyVars, inputVars>> => [Next]_vars
  BY StepOfEach
<1>3. ServicesSpec => Spec
  BY <1>1, <1>2, PTL DEF ServicesSpec, Spec
<1>4. QED
  BY <1>3, RingStaysSafe

\* keystore.c beside the other services: the key store stays a map from
\* names to values.
THEOREM KeysAmongServices == ServicesSpec => KeysSafe
<1>1. ServicesInit => Keys!Init
  BY DEF ServicesInit
<1>2. [ServicesNext]_<<part, vars, fileVars, cacheVars, keyVars, inputVars>>
        => [Keys!Next]_(Keys!vars)
  BY StepOfEach
<1>3. ServicesSpec => Keys!Spec
  BY <1>1, <1>2, PTL DEF ServicesSpec, Keys!Spec
<1>4. QED
  BY <1>3, KeysStaySafe, KeysAssumption DEF KeysSafe

\* cache.c beside the other services: lists and chains stay whole, and with
\* names no longer than a tag reads return the file's own bytes.
THEOREM CacheAmongServices == ASSUME ShortNames PROVE ServicesSpec => []CacheSafe
<1>1. ServicesInit => Cache!Init
  BY DEF ServicesInit
<1>2. [ServicesNext]_<<part, vars, fileVars, cacheVars, keyVars, inputVars>>
        => [Cache!Next]_(Cache!vars)
  BY StepOfEach
<1>3. ServicesSpec => Cache!Spec
  BY <1>1, <1>2, PTL DEF ServicesSpec, Cache!Spec
<1>4. Cache!Spec => []Cache!Safety
  BY CacheReadsTheFile, CacheAssumption
<1>5. Cache!Safety => CacheSafe
  BY DEF CacheSafe
<1>6. QED
  BY <1>3, <1>4, <1>5, PTL

\* keyboard.c, ps2.c beside the other services: each undamaged report is
\* answered by its own event, and no shift state is left behind.
THEOREM InputAmongServices == ServicesSpec => InputSafe
<1>1. ServicesInit => Input!Init
  BY DEF ServicesInit
<1>2. [ServicesNext]_<<part, vars, fileVars, cacheVars, keyVars, inputVars>>
        => [Input!Next]_(Input!vars)
  BY StepOfEach
<1>3. ServicesSpec => Input!Spec
  BY <1>1, <1>2, PTL DEF ServicesSpec, Input!Spec
<1>4. Input!Spec => []Input!Safety
  BY DecodersFit, InputAssumption
<1>5. Input!Spec => Input!OneEventPerReport
  BY ReportsAnswered, InputAssumption
<1>6. Input!Safety => (part = "input" => Input!Safety)
  OBVIOUS
<1>7. QED
  BY <1>3, <1>4, <1>5, <1>6, PTL DEF InputSafe
=============================================================================
