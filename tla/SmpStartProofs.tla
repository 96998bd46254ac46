--------------------------- MODULE SmpStartProofs ---------------------------
(***************************************************************************)
(* Theorems about SmpStart for any number of processors in the loader's    *)
(* list, in any order, and any limit on their number.                      *)
(***************************************************************************)
EXTENDS SmpStart, SequenceTheorems, FiniteSetTheorems, WellFoundedInduction, TLAPS

Counted == {"gate", "switch", "running", "halted"}
Alive == {"count"} \cup Counted

ApPlaces == {"parked", "launched", "tss", "msrs", "alive", "count", "gate", "switch",
             "running", "halted"}
PercpuData == [kernel_stack_top : Indices \cup {None}, rsp0 : Indices \cup {None},
               ist1 : BOOLEAN, msrs : BOOLEAN,
               idle : [stack : Indices \cup {None}] \cup {None}, online : BOOLEAN]

\* From "launch" on the list is the boot processor and others, no two alike,
\* and a slot of cpus[] that has been filled names the processor of the list.
ListInv ==
  /\ At("select") => selected = <<>>
  /\ ~At("select") =>
       /\ selected \in Seq(Nat) /\ cpu_count \in 1 .. MaxCpus /\ bsp.i < cpu_count
       /\ selected[1] = response.bsp
       /\ \A j, k \in 1 .. cpu_count : selected[j] = selected[k] => j = k
  /\ \A i \in 0 .. cpu_count - 1 :
       (At("launch") => i < bsp.i) => cpus[i].apic_id = selected[i + 1]

\* What an application processor has done, by its place in smp_ap_main, and
\* that only one that reported itself has an idle task, on its own stack.
ProcessorInv(i) ==
  /\ ap[i] # "parked" => ~At("select") /\ i \in 1 .. cpu_count - 1 /\ (At("launch") => i < bsp.i)
  /\ ap[i] \notin {"parked", "launched"} => percpu[i].kernel_stack_top = i
  /\ ap[i] \in {"msrs", "alive"} \cup Alive => percpu[i].rsp0 = i
  /\ ap[i] \in {"alive"} \cup Alive => percpu[i].msrs
  /\ cpus[i].active => i = 0 \/ ap[i] \in Alive
  /\ percpu[i].idle # None => percpu[i].idle = [stack |-> i]
  /\ ap[i] \in {"switch", "running"} => percpu[i].idle # None /\ At("running")
  /\ ap[i] = "running" => percpu[i].online

\* The two counters are the numbers of processors started and reported.
CountInv ==
  /\ ap_count = Cardinality({i \in Indices : ap[i] # "parked"})
  /\ aps_booted = Cardinality({i \in Indices : ap[i] \in Counted})

\* How far the boot processor is.
BootInv ==
  /\ ap_go = At("running")
  /\ bsp.at \in {"reaper", "shell", "timer", "gate", "running"} \/ (At("tasks") /\ bsp.i > 0)
       => percpu[0].idle # None
  /\ bsp.at \in {"gate", "running"} => percpu[0].online
  /\ ran # {} => At("running")
  /\ bsp.at \in {"select", "launch", "wait", "ist", "tasks", "reaper", "shell"}
       => placement_cursor = 0

\* Once the wait ended in time nobody is left who would clear a TSS.
StackInv ==
  /\ bsp.at \in {"select", "launch", "wait"} => istStacks = {}
  /\ bsp.at \notin {"select", "launch", "wait"} /\ ~late =>
       \A i \in Indices : /\ ap[i] \in {"parked"} \cup Counted
                          /\ i \in istStacks => percpu[i].ist1

IInv ==
  /\ TypeOK /\ ListInv /\ CountInv /\ BootInv /\ StackInv
  /\ \A i \in Indices : ProcessorInv(i)

-----------------------------------------------------------------------------
\* Every nonempty set of natural numbers has a least element.
LEMMA LeastNat ==
  ASSUME NEW S \in SUBSET Nat, S # {}
  PROVE  \E x \in S : \A y \in S : x <= y
<1>1. PICK x \in S : \A y \in S : ~ (<<y, x>> \in OpToRel(<, Nat))
  BY NatLessThanWellFounded, WFMin
<1>2. \A y \in S : ~ (y < x)
  BY <1>1 DEF OpToRel
<1>. QED
  BY <1>2

\* Induction along a range.
LEMMA UpTo ==
  ASSUME NEW n \in Nat, NEW S, 0 \in S, \A k \in 1 .. n : k - 1 \in S => k \in S
  PROVE  \A k \in 0 .. n : k \in S
<1>. DEFINE Bad == (0 .. n) \ S
<1>1. SUFFICES ASSUME Bad # {} PROVE FALSE
  OBVIOUS
<1>2. Bad \in SUBSET Nat
  OBVIOUS
<1>3. PICK m \in Bad : \A y \in Bad : m <= y
  BY ONLY <1>1, <1>2, LeastNat, Zenon
<1>4. m \in 1 .. n /\ m - 1 \in 0 .. n
  BY <1>3
<1>5. m - 1 \in S
  BY <1>3, <1>4
<1>. QED
  BY <1>3, <1>4, <1>5

\* The functions that go through a range step by step, as a recursive
\* definition does.
Steps(X, a, n, step) ==
  {g \in [0 .. n -> X] : g[0] = a /\ \A k \in 1 .. n : g[k] = step[<<g[k - 1], k>>]}

\* There is such a function.
LEMMA StepsExist ==
  ASSUME NEW X, NEW a \in X, NEW n \in Nat, NEW step \in [X \X (1 .. n) -> X]
  PROVE  Steps(X, a, n, step) # {}
<1>. DEFINE Reached == {m \in 0 .. n : \E g \in [0 .. m -> X] :
                         /\ g[0] = a
                         /\ \A k \in 1 .. m : g[k] = step[<<g[k - 1], k>>]}
<1>1. 0 \in Reached
  <2>. DEFINE f == [j \in 0 .. 0 |-> a]
  <2>1. f \in [0 .. 0 -> X] /\ f[0] = a /\ \A k \in 1 .. 0 : f[k] = step[<<f[k - 1], k>>]
    OBVIOUS
  <2>. HIDE DEF f
  <2>2. 0 \in 0 .. n
    OBVIOUS
  <2>. QED
    BY <2>1, <2>2
<1>2. ASSUME NEW m \in 1 .. n, m - 1 \in Reached PROVE m \in Reached
  <2>1. PICK g \in [0 .. m - 1 -> X] : /\ g[0] = a
                                       /\ \A k \in 1 .. m - 1 : g[k] = step[<<g[k - 1], k>>]
    BY <1>2
  <2>. DEFINE h == [j \in 0 .. m |-> IF j = m THEN step[<<g[m - 1], m>>] ELSE g[j]]
  <2>2. m - 1 \in 0 .. m - 1 /\ 0 \in 0 .. m - 1 /\ m \in 0 .. m /\ m \in 0 .. n
    OBVIOUS
  <2>3. step[<<g[m - 1], m>>] \in X
    BY <2>1, <2>2
  <2>4. \A j \in 0 .. m : j # m => j \in 0 .. m - 1 /\ g[j] \in X
    BY <2>1
  <2>5. h \in [0 .. m -> X]
    BY <2>3, <2>4
  <2>6. h[m] = step[<<g[m - 1], m>>] /\ \A j \in 0 .. m - 1 : h[j] = g[j]
    BY <2>2
  <2>. HIDE DEF h
  <2>7. h[0] = a
    BY <2>1, <2>2, <2>6
  <2>8. ASSUME NEW k \in 1 .. m PROVE h[k] = step[<<h[k - 1], k>>]
    <3>1. k - 1 \in 0 .. m - 1
      OBVIOUS
    <3>2. CASE k = m
      BY <2>6, <3>1, <3>2
    <3>3. CASE k # m
      <4>1. k \in 1 .. m - 1 /\ k \in 0 .. m - 1
        BY <3>3
      <4>. QED
        BY <2>1, <2>6, <3>1, <4>1
    <3>. QED
      BY <3>2, <3>3
  <2>. QED
    BY <2>2, <2>5, <2>7, <2>8
<1>3. n \in Reached => \E g \in [0 .. n -> X] : /\ g[0] = a
                                              /\ \A k \in 1 .. n : g[k] = step[<<g[k - 1], k>>]
  OBVIOUS
<1>. HIDE DEF Reached
<1>4. \A k \in 0 .. n : k \in Reached
  BY <1>1, <1>2, UpTo
<1>5. n \in 0 .. n
  OBVIOUS
<1>. QED
  BY <1>3, <1>4, <1>5 DEF Steps

-----------------------------------------------------------------------------
\* smp.c, select_cpus: the list is empty, or begins with the boot processor
\* and has at most MAX_CPUS processors of the loader's list, no two alike.
LEMMA SelectIs ==
  ASSUME NEW r \in Responses, select_cpus(r) # <<>>
  PROVE  LET s == select_cpus(r) IN
         /\ s \in Seq(Nat) /\ Len(s) \in 1 .. MaxCpus /\ s[1] = r.bsp
         /\ \A j, k \in 1 .. Len(s) : s[j] = s[k] => j = k
         /\ \A k \in 1 .. Len(s) : s[k] = r.bsp \/ s[k] \in {r.cpus[j] : j \in DOMAIN r.cpus} \ {None}
<1>. DEFINE c == r.cpus
            n == Len(c)
            step == [x \in Seq(Nat) \X (1 .. n) |->
                       IF c[x[2]] \in {None, r.bsp} \/ Len(x[1]) = MaxCpus THEN x[1]
                       ELSE Append(x[1], c[x[2]])]
            IsTaken(t) == t = [k \in 0 .. n |->
                            IF k = 0 THEN <<r.bsp>>
                            ELSE IF c[k] \in {None, r.bsp} \/ Len(t[k - 1]) = MaxCpus THEN t[k - 1]
                            ELSE Append(t[k - 1], c[k])]
<1>1. /\ c \in Seq(Nat \cup {None}) /\ n \in Nat /\ DOMAIN c = 1 .. n /\ r.bsp \in Nat
      /\ \A k \in 1 .. n : c[k] # None => c[k] \in Nat
      /\ \A j, k \in 1 .. n : c[j] = c[k] /\ c[j] # None => j = k
  BY SmpAssumption, LenProperties, ElementOfSeq
<1>2. step \in [Seq(Nat) \X (1 .. n) -> Seq(Nat)]
  <2>. HIDE DEF c, n
  <2>1. ASSUME NEW x \in Seq(Nat) \X (1 .. n), c[x[2]] \notin {None, r.bsp}
        PROVE  Append(x[1], c[x[2]]) \in Seq(Nat)
    BY <1>1, <2>1, AppendProperties
  <2>. QED
    BY <2>1
<1>3. \E t \in [0 .. n -> Seq(Nat)] : IsTaken(t)
  <2>1. <<r.bsp>> \in Seq(Nat)
    BY <1>1
  <2>2. PICK t \in [0 .. n -> Seq(Nat)] :
              t[0] = <<r.bsp>> /\ \A k \in 1 .. n : t[k] = step[<<t[k - 1], k>>]
    <3>. DEFINE X == Seq(Nat)
                first == <<r.bsp>>
    <3>1. n \in Nat /\ first \in X /\ step \in [X \X (1 .. n) -> X]
      BY <1>1, <1>2, <2>1
    <3>. HIDE DEF n, step, X, first
    <3>2. Steps(X, first, n, step) # {}
      BY ONLY <3>1, StepsExist, Zenon
    <3>. QED
      BY <3>2 DEF X, first, Steps
  <2>3. ASSUME NEW k \in 1 .. n
        PROVE  t[k] = IF c[k] \in {None, r.bsp} \/ Len(t[k - 1]) = MaxCpus THEN t[k - 1]
                      ELSE Append(t[k - 1], c[k])
    <3>1. t[k - 1] \in Seq(Nat)
      <4>. HIDE DEF n, c, step
      <4>1. k - 1 \in 0 .. n
        BY <1>1
      <4>. QED
        BY <2>2, <4>1
    <3>2. t[k] = step[<<t[k - 1], k>>]
      BY <2>2
    <3>3. ASSUME NEW u \in Seq(Nat)
          PROVE  step[<<u, k>>] = IF c[k] \in {None, r.bsp} \/ Len(u) = MaxCpus THEN u
                                  ELSE Append(u, c[k])
      <4>. HIDE DEF c, n
      <4>. QED
        OBVIOUS
    <3>. HIDE DEF c, n, step
    <3>. QED
      BY <3>1, <3>2, <3>3
  <2>4. IsTaken(t)
    <3>. HIDE DEF c, n, step
    <3>1. \A k \in 0 .. n : k = 0 \/ k \in 1 .. n
      BY <1>1
    <3>. QED
      BY <2>2, <2>3, <3>1
  <2>. QED
    BY <2>4
<1>4. PICK t : IsTaken(t) /\ select_cpus(r) = t[n]
  BY <1>3 DEF select_cpus
<1>. HIDE DEF IsTaken, step
<1>5. t[0] = <<r.bsp>> /\ \A k \in 1 .. n :
         t[k] = IF c[k] \in {None, r.bsp} \/ Len(t[k - 1]) = MaxCpus THEN t[k - 1]
                ELSE Append(t[k - 1], c[k])
  <2>. HIDE DEF c, n
  <2>1. 0 \in 0 .. n /\ \A k \in 1 .. n : k \in 0 .. n /\ k # 0
    BY <1>1
  <2>. QED
    BY <1>4, <2>1 DEF IsTaken
<1>. DEFINE Taken(x, k) ==
              /\ x \in Seq(Nat) /\ Len(x) \in 1 .. MaxCpus /\ x[1] = r.bsp
              /\ \A i, j \in 1 .. Len(x) : x[i] = x[j] => i = j
              /\ \A j \in 2 .. Len(x) : \E i \in 1 .. k : x[j] = c[i] /\ c[i] \notin {None, r.bsp}
            Good == {k \in 0 .. n : Taken(t[k], k)}
<1>. HIDE DEF c, n
<1>6. 0 \in Good
  <2>1. <<r.bsp>> \in Seq(Nat) /\ Len(<<r.bsp>>) = 1 /\ <<r.bsp>>[1] = r.bsp
    BY <1>1
  <2>2. MaxCpus \in Nat \ {0}
    BY SmpAssumption
  <2>3. Taken(t[0], 0)
    BY <1>1, <1>5, <2>1, <2>2
  <2>4. 0 \in 0 .. n
    BY <1>1
  <2>. HIDE DEF Taken
  <2>. QED
    BY <2>3, <2>4
<1>7. ASSUME NEW k \in 1 .. n, k - 1 \in Good PROVE k \in Good
  <2>. DEFINE u == t[k - 1]
  <2>1. /\ u \in Seq(Nat) /\ Len(u) \in 1 .. MaxCpus /\ u[1] = r.bsp
        /\ \A i, j \in 1 .. Len(u) : u[i] = u[j] => i = j
        /\ \A j \in 2 .. Len(u) : \E i \in 1 .. k - 1 : u[j] = c[i] /\ c[i] \notin {None, r.bsp}
    <3>1. Taken(u, k - 1)
      BY <1>7 DEF Taken
    <3>. QED
      BY <3>1
  <2>. HIDE DEF u
  <2>2. ASSUME c[k] \in {None, r.bsp} \/ Len(u) = MaxCpus PROVE Taken(t[k], k)
    <3>1. t[k] = u
      BY <1>5, <2>2 DEF u
    <3>2. \A i \in 1 .. k - 1 : i \in 1 .. k
      BY <1>1
    <3>3. Taken(u, k)
      BY <1>1, <2>1, <3>2
    <3>. QED
      BY <3>1, <3>3, Zenon
  <2>3. ASSUME ~(c[k] \in {None, r.bsp} \/ Len(u) = MaxCpus) PROVE Taken(t[k], k)
    <3>. DEFINE v == Append(u, c[k])
    <3>1. t[k] = v
      BY <1>5, <2>3 DEF u
    <3>2. /\ v \in Seq(Nat) /\ Len(v) = Len(u) + 1 /\ v[Len(u) + 1] = c[k]
          /\ \A i \in 1 .. Len(u) : v[i] = u[i]
      BY <1>1, <2>1, <2>3, AppendProperties
    <3>. HIDE DEF v
    <3>3. Len(v) \in 1 .. MaxCpus /\ v[1] = r.bsp
      BY <2>1, <2>3, <3>2, SmpAssumption
    <3>4. \A j \in 1 .. Len(u) : u[j] # c[k]
      <4>1. SUFFICES ASSUME NEW j \in 1 .. Len(u), u[j] = c[k] PROVE FALSE
        OBVIOUS
      <4>2. j \in 2 .. Len(u)
        BY <2>1, <2>3, <4>1
      <4>3. PICK i \in 1 .. k - 1 : u[j] = c[i] /\ c[i] \notin {None, r.bsp}
        BY <2>1, <4>2
      <4>4. i \in 1 .. n /\ i # k
        BY <1>1
      <4>. QED
        BY <1>1, <4>1, <4>3, <4>4
    <3>5. ASSUME NEW i \in 1 .. Len(v), NEW j \in 1 .. Len(v), v[i] = v[j] PROVE i = j
      <4>1. \A x \in 1 .. Len(v) : x \in 1 .. Len(u) \/ x = Len(u) + 1
        BY <2>1, <3>2
      <4>. QED
        BY <2>1, <3>2, <3>4, <3>5, <4>1
    <3>6. ASSUME NEW j \in 2 .. Len(v)
          PROVE  \E i \in 1 .. k : v[j] = c[i] /\ c[i] \notin {None, r.bsp}
      <4>1. CASE j = Len(u) + 1
        BY <1>1, <2>3, <3>2, <4>1
      <4>2. CASE j # Len(u) + 1
        <5>1. j \in 2 .. Len(u) /\ j \in 1 .. Len(u)
          BY <2>1, <3>2, <4>2
        <5>2. PICK i \in 1 .. k - 1 : u[j] = c[i] /\ c[i] \notin {None, r.bsp}
          BY <2>1, <5>1
        <5>3. i \in 1 .. k
          BY <1>1
        <5>. QED
          BY <3>2, <5>1, <5>2, <5>3
      <4>. QED
        BY <4>1, <4>2
    <3>7. Taken(v, k)
      BY <1>1, <3>2, <3>3, <3>5, <3>6
    <3>. QED
      BY <3>1, <3>7, Zenon
  <2>4. Taken(t[k], k)
    BY <2>2, <2>3 DEF u
  <2>5. k \in 0 .. n
    BY <1>1
  <2>. HIDE DEF Taken
  <2>. QED
    BY <2>4, <2>5
<1>8. Taken(t[n], n)
  <2>1. n \in 0 .. n
    BY <1>1
  <2>2. n \in Good
    <3>. HIDE DEF Good
    <3>. QED
      BY <1>1, <1>6, <1>7, <2>1, UpTo
  <2>. HIDE DEF Taken
  <2>. QED
    BY <2>2
<1>. DEFINE w == t[n]
<1>9. /\ w \in Seq(Nat) /\ Len(w) \in 1 .. MaxCpus /\ w[1] = r.bsp
      /\ \A j, k \in 1 .. Len(w) : w[j] = w[k] => j = k
      /\ \A j \in 2 .. Len(w) : \E i \in 1 .. n : w[j] = c[i] /\ c[i] \notin {None, r.bsp}
  BY <1>8
<1>. HIDE DEF w
<1>10. \A j \in 1 .. Len(w) : j = 1 \/ j \in 2 .. Len(w)
  BY <1>9
<1>11. \A j \in 1 .. Len(w) : w[j] = r.bsp \/ w[j] \in {c[i] : i \in DOMAIN c} \ {None}
  BY <1>1, <1>9, <1>10
<1>12. select_cpus(r) = w
  BY <1>4 DEF w
<1>. QED
  BY <1>9, <1>11, <1>12 DEF c

-----------------------------------------------------------------------------
\* percpu.c, percpu_current: a processor whose LAPIC id is known finds its own
\* data by it.
LEMMA SelfIs ==
  ASSUME ListInv, ~At("select"), ~At("launch"), NEW i \in 0 .. cpu_count - 1
  PROVE  Self(i) = i
<1>1. /\ \A j \in 0 .. cpu_count - 1 : cpus[j].apic_id = selected[j + 1]
      /\ \A j, k \in 1 .. cpu_count : selected[j] = selected[k] => j = k
      /\ cpu_count \in Nat
  BY DEF ListInv, At
<1>2. {j \in 0 .. cpu_count - 1 : cpus[j].apic_id = selected[i + 1]} = {i}
  <2>1. \A j \in 0 .. cpu_count - 1 : j + 1 \in 1 .. cpu_count
    BY <1>1
  <2>. QED
    BY <1>1, <2>1
<1>3. Min({i}) = i
  BY DEF Min
<1>4. cpu_count <= 1 => i = 0
  BY <1>1
<1>. QED
  BY <1>2, <1>3, <1>4 DEF Self, smp_get_current_cpu_id

\* The constants' ranges.
LEMMA IndicesAre ==
  /\ MaxCpus \in Nat \ {0} /\ Indices = 0 .. MaxCpus - 1 /\ 0 \in Indices
  /\ None \notin Nat
  /\ Lapics \subseteq Nat /\ IsFiniteSet(Indices)
<1>1. Lapics \subseteq Nat
  BY SmpAssumption, ElementOfSeq, LenProperties DEF Lapics
<1>. QED
  BY <1>1, SmpAssumption, FS_Interval DEF Indices

\* Where application processors are, no more than MAX_CPUS - 1 have started
\* and no more have reported than started.
LEMMA CountsFit ==
  ASSUME NEW a, \A i \in Indices : a[i] # "parked" => i # 0
  PROVE  LET A == {i \in Indices : a[i] # "parked"}
             B == {i \in Indices : a[i] \in Counted}
         IN  Cardinality(B) \in 0 .. Cardinality(A) /\ Cardinality(A) \in 0 .. MaxCpus - 1
<1>. DEFINE A == {i \in Indices : a[i] # "parked"}
            B == {i \in Indices : a[i] \in Counted}
            O == 1 .. MaxCpus - 1
<1>1. B \subseteq A /\ A \subseteq O
  BY IndicesAre DEF Counted
<1>2. IsFiniteSet(O) /\ Cardinality(O) = MaxCpus - 1
  BY IndicesAre, FS_Interval
<1>. HIDE DEF A, B, O
<1>3. IsFiniteSet(A) /\ Cardinality(A) \in Nat /\ Cardinality(A) <= Cardinality(O)
  BY <1>1, <1>2, FS_Subset, FS_CardinalityType
<1>4. Cardinality(B) \in Nat /\ Cardinality(B) <= Cardinality(A)
  BY <1>1, <1>3, FS_Subset, FS_CardinalityType
<1>5. Cardinality(B) \in 0 .. Cardinality(A) /\ Cardinality(A) \in 0 .. MaxCpus - 1
  BY <1>2, <1>3, <1>4, IndicesAre
<1>. QED
  BY <1>5 DEF A, B

\* One more element changes the size of a set of processors by one.
LEMMA OneMore ==
  ASSUME NEW A \in SUBSET Indices, NEW i \in Indices \ A
  PROVE  Cardinality(A \cup {i}) = Cardinality(A) + 1
<1>1. IsFiniteSet(A)
  BY IndicesAre, FS_Subset
<1>. QED
  BY <1>1, FS_AddElement

\* Counters that have not changed still count.
LEMMA CountsKept ==
  ASSUME CountInv, UNCHANGED <<ap_count, aps_booted>>,
         {i \in Indices : ap'[i] # "parked"} = {i \in Indices : ap[i] # "parked"},
         {i \in Indices : ap'[i] \in Counted} = {i \in Indices : ap[i] \in Counted}
  PROVE  CountInv'
BY DEF CountInv

\* The boot processor begins with every other one parked and nothing counted.
LEMMA InitIInv == Init => IInv
<1>. SUFFICES ASSUME Init PROVE IInv
  OBVIOUS
<1>1. Len(<<>>) = 0 /\ DOMAIN selected = {}
  BY DEF Init
<1>2. CountInv
  <2>1. {i \in Indices : ap[i] # "parked"} = {} /\ {i \in Indices : ap[i] \in Counted} = {}
    BY DEF Init, Counted
  <2>. QED
    BY <2>1, FS_EmptySet DEF Init, CountInv
<1>3. 0 \in Lapics
  BY DEF Lapics
<1>4. TypeOK
  <2>1. cpu_count = 0
    BY <1>1 DEF Init, cpu_count
  <2>2. /\ bsp = [at |-> "select", i |-> 0] /\ bsp.at = "select" /\ bsp.i = 0
    BY DEF Init
  <2>3. cpus \in [Indices -> [apic_id : Lapics, active : BOOLEAN]]
    BY <1>3 DEF Init
  <2>4. percpu \in [Indices -> [kernel_stack_top : Indices \cup {None}, rsp0 : Indices \cup {None},
             ist1 : BOOLEAN, msrs : BOOLEAN,
             idle : [stack : Indices \cup {None}] \cup {None}, online : BOOLEAN]]
    BY DEF Init
  <2>5. 0 \in 0 .. ap_count /\ ap_count < MaxCpus /\ 0 \in 0 .. MaxPlaced + MaxCpus
    BY IndicesAre, SmpAssumption DEF Init
  <2>6. ap \in [Indices -> {"parked", "launched", "tss", "msrs", "alive", "count", "gate",
                          "switch", "running", "halted"}]
    BY DEF Init
  <2>7. cpu_count <= MaxCpus /\ \A i \in DOMAIN selected : selected[i] \in Lapics
    BY <1>1, <2>1, IndicesAre
  <2>8. /\ response \in Responses /\ ap_go \in BOOLEAN /\ late \in BOOLEAN
        /\ istStacks \subseteq Indices /\ placed \subseteq Indices /\ ran \subseteq Indices
        /\ aps_booted = 0 /\ placement_cursor = 0
    BY DEF Init
  <2>. QED
    BY <2>2, <2>3, <2>4, <2>5, <2>6, <2>7, <2>8, IndicesAre DEF TypeOK
<1>5. ListInv
  <2>1. cpu_count = 0
    BY <1>1 DEF Init, cpu_count
  <2>2. \A i \in 0 .. cpu_count - 1 : FALSE
    BY <2>1
  <2>. QED
    BY <2>2 DEF Init, ListInv, At
<1>6. \A i \in Indices : ProcessorInv(i)
  BY DEF Init, ProcessorInv, At, Alive, Counted
<1>7. BootInv /\ StackInv
  BY DEF Init, BootInv, StackInv, At
<1>. QED
  BY <1>2, <1>4, <1>5, <1>6, <1>7 DEF IInv

-----------------------------------------------------------------------------
\* What the invariant says of the ranges, in the form the steps use.
LEMMA Ranges ==
  ASSUME IInv, ~At("select")
  PROVE  /\ cpu_count \in 1 .. MaxCpus /\ bsp.i \in 0 .. cpu_count - 1
         /\ \A i \in 0 .. cpu_count - 1 : i \in Indices /\ i + 1 \in 1 .. cpu_count
         /\ 0 \in 0 .. cpu_count - 1
         /\ bsp = [at |-> bsp.at, i |-> bsp.i]
         /\ DOMAIN selected = 1 .. cpu_count
BY IndicesAre, LenProperties DEF IInv, TypeOK, ListInv, Indices, cpu_count

\* percpu.c: no application processor has index 0, so none is "parked" there.
LEMMA NotBoot ==
  ASSUME IInv, NEW i \in Indices, ap[i] # "parked"
  PROVE  i \in Indices \ {0} /\ ~At("select") /\ i \in 0 .. cpu_count - 1
<1>1. ~At("select") /\ i \in 1 .. cpu_count - 1
  BY DEF IInv, ProcessorInv
<1>2. cpu_count \in Nat
  BY <1>1, Ranges
<1>. QED
  BY <1>1, <1>2

\* Every processor has its per-CPU data.
LEMMA DataIs == IInv => percpu \in [Indices -> PercpuData]
BY DEF IInv, TypeOK, PercpuData

\* Its fields take indices, and a task that has a stack.
LEMMA FieldSet ==
  ASSUME NEW p \in PercpuData, NEW x \in Indices, NEW b \in BOOLEAN
  PROVE  /\ [p EXCEPT !.kernel_stack_top = x] \in PercpuData
         /\ [p EXCEPT !.ist1 = b, !.rsp0 = x] \in PercpuData
         /\ [p EXCEPT !.ist1 = b] \in PercpuData
         /\ [p EXCEPT !.msrs = b] \in PercpuData
         /\ [p EXCEPT !.online = b] \in PercpuData
         /\ [p EXCEPT !.idle = [stack |-> x]] \in PercpuData
<1>1. /\ p.kernel_stack_top \in Indices \cup {None} /\ p.rsp0 \in Indices \cup {None}
      /\ p.ist1 \in BOOLEAN /\ p.msrs \in BOOLEAN /\ p.online \in BOOLEAN
      /\ p = [kernel_stack_top |-> p.kernel_stack_top, rsp0 |-> p.rsp0, ist1 |-> p.ist1,
              msrs |-> p.msrs, idle |-> p.idle, online |-> p.online]
  BY DEF PercpuData
<1>. DEFINE Idles == [stack : Indices \cup {None}] \cup {None}
<1>2. p.idle \in Idles /\ [stack |-> x] \in Idles
  BY DEF PercpuData
<1>3. PercpuData = [kernel_stack_top : Indices \cup {None}, rsp0 : Indices \cup {None},
                    ist1 : BOOLEAN, msrs : BOOLEAN, idle : Idles, online : BOOLEAN]
  BY DEF PercpuData
<1>. HIDE DEF Idles
<1>. QED
  BY <1>1, <1>2, <1>3

\* A step of a started processor that touches only its own data, and counts
\* nobody, leaves the invariant to what it says of that processor.
LEMMA ApMoves ==
  ASSUME IInv, NEW i \in Indices \ {0}, NEW from, NEW to, Step(i, from, to),
         from # "parked", to \in ApPlaces \ {"parked"}, from \in Counted <=> to \in Counted,
         percpu' \in [Indices -> PercpuData],
         \A j \in Indices \ {i} : percpu'[j] = percpu[j],
         from \in Counted => percpu'[i].ist1 = percpu[i].ist1,
         cpus' \in [Indices -> [apic_id : Lapics, active : BOOLEAN]],
         \A j \in Indices \ {i} : cpus'[j] = cpus[j],
         cpus'[i].apic_id = cpus[i].apic_id,
         UNCHANGED <<response, bsp, selected, aps_booted, ap_count, ap_go, late,
                     istStacks, placement_cursor, placed, ran>>,
         ProcessorInv(i)'
  PROVE  IInv'
<1>1. /\ ap[i] = from /\ ap' = [ap EXCEPT ![i] = to] /\ ap \in [Indices -> ApPlaces]
      /\ cpu_count' = cpu_count
  BY DEF Step, IInv, TypeOK, ApPlaces, cpu_count
<1>2. TypeOK'
  <2>1. ap' \in [Indices -> ApPlaces]
    BY <1>1
  <2>2. /\ aps_booted \in 0 .. ap_count /\ ap_count < MaxCpus
        /\ placement_cursor \in 0 .. MaxPlaced + MaxCpus
        /\ cpu_count <= MaxCpus /\ \A j \in DOMAIN selected : selected[j] \in Lapics
    BY DEF IInv, TypeOK
  <2>. QED
    BY <1>1, <2>1, <2>2, Zenon DEF IInv, TypeOK, ApPlaces, PercpuData
<1>3. ListInv'
  <2>1. \A j \in 0 .. cpu_count - 1 : j \in Indices
    BY Ranges, NotBoot, <1>1
  <2>2. \A j \in 0 .. cpu_count - 1 : cpus'[j].apic_id = cpus[j].apic_id
    BY <2>1
  <2>. QED
    BY <1>1, <2>2 DEF IInv, ListInv, At
<1>4. CountInv'
  <2>1. /\ {j \in Indices : ap'[j] # "parked"} = {j \in Indices : ap[j] # "parked"}
        /\ {j \in Indices : ap'[j] \in Counted} = {j \in Indices : ap[j] \in Counted}
    BY <1>1
  <2>. QED
    BY <2>1, CountsKept DEF IInv
<1>5. BootInv'
  BY IndicesAre DEF IInv, BootInv, At
<1>6. StackInv'
  BY <1>1 DEF IInv, StackInv, At
<1>7. ASSUME NEW j \in Indices, j # i PROVE ProcessorInv(j)'
  <2>1. ProcessorInv(j)
    BY DEF IInv
  <2>. QED
    BY <1>1, <1>7, <2>1 DEF ProcessorInv, At
<1>. QED
  BY <1>2, <1>3, <1>4, <1>5, <1>6, <1>7 DEF IInv

\* percpu.c, percpu_init_ap: the first fields of the processor's own data.
LEMMA ApEnterStep ==
  ASSUME IInv, NEW i \in Indices \ {0}, ApEnter(i)
  PROVE  IInv'
<1>1. /\ Step(i, "launched", "tss") /\ ap' = [ap EXCEPT ![i] = "tss"] /\ ap[i] = "launched"
      /\ percpu' = [percpu EXCEPT ![i].kernel_stack_top = i]
      /\ UNCHANGED <<response, bsp, selected, cpus, aps_booted, ap_count, ap_go, late,
                     istStacks, placement_cursor, placed, ran, cpu_count>>
  BY DEF ApEnter, Step, cpu_count
<1>2. percpu' \in [Indices -> PercpuData]
  BY <1>1, DataIs, FieldSet
<1>3. ProcessorInv(i)'
  BY <1>1, DataIs DEF IInv, TypeOK, ProcessorInv, Alive, Counted, At, PercpuData
<1>4. /\ \A j \in Indices \ {i} : percpu'[j] = percpu[j]
      /\ cpus' \in [Indices -> [apic_id : Lapics, active : BOOLEAN]]
  BY <1>1, DataIs DEF IInv, TypeOK
<1>. QED
  BY <1>1, <1>2, <1>3, <1>4, ApMoves DEF Counted, ApPlaces

\* percpu.c, percpu_init_ap: the task state segment, which starts out empty.
LEMMA ApTssStep ==
  ASSUME IInv, NEW i \in Indices \ {0}, ApTss(i)
  PROVE  IInv'
<1>1. /\ Step(i, "tss", "msrs") /\ ap' = [ap EXCEPT ![i] = "msrs"] /\ ap[i] = "tss"
      /\ percpu' = [percpu EXCEPT ![i].ist1 = FALSE, ![i].rsp0 = i]
      /\ UNCHANGED <<response, bsp, selected, cpus, aps_booted, ap_count, ap_go, late,
                     istStacks, placement_cursor, placed, ran, cpu_count>>
  BY DEF ApTss, Step, cpu_count
<1>2. percpu' = [percpu EXCEPT ![i] = [percpu[i] EXCEPT !.ist1 = FALSE, !.rsp0 = i]]
  BY <1>1, DataIs DEF PercpuData
<1>3. percpu' \in [Indices -> PercpuData]
  BY <1>2, DataIs, FieldSet
<1>4. ProcessorInv(i)'
  BY <1>1, <1>2, DataIs DEF IInv, TypeOK, ProcessorInv, Alive, Counted, At, PercpuData
<1>5. /\ \A j \in Indices \ {i} : percpu'[j] = percpu[j]
      /\ cpus' \in [Indices -> [apic_id : Lapics, active : BOOLEAN]]
  BY <1>2, <1>1, DataIs DEF IInv, TypeOK
<1>. QED
  BY <1>1, <1>3, <1>4, <1>5, ApMoves DEF Counted, ApPlaces

\* smp.c, smp_ap_main: the interrupt table, the system-call registers, the LAPIC.
LEMMA ApMsrsStep ==
  ASSUME IInv, NEW i \in Indices \ {0}, ApMsrs(i)
  PROVE  IInv'
<1>1. /\ Step(i, "msrs", "alive") /\ ap' = [ap EXCEPT ![i] = "alive"] /\ ap[i] = "msrs"
      /\ percpu' = [percpu EXCEPT ![i].msrs = TRUE]
      /\ UNCHANGED <<response, bsp, selected, cpus, aps_booted, ap_count, ap_go, late,
                     istStacks, placement_cursor, placed, ran, cpu_count>>
  BY DEF ApMsrs, Step, cpu_count
<1>2. percpu' \in [Indices -> PercpuData]
  BY <1>1, DataIs, FieldSet
<1>3. ProcessorInv(i)'
  BY <1>1, DataIs DEF IInv, TypeOK, ProcessorInv, Alive, Counted, At, PercpuData
<1>4. /\ \A j \in Indices \ {i} : percpu'[j] = percpu[j]
      /\ cpus' \in [Indices -> [apic_id : Lapics, active : BOOLEAN]]
  BY <1>1, DataIs DEF IInv, TypeOK
<1>. QED
  BY <1>1, <1>2, <1>3, <1>4, ApMoves DEF Counted, ApPlaces

\* smp.c, smp_ap_main: the processor reports itself alive.
LEMMA ApAliveStep ==
  ASSUME IInv, NEW i \in Indices \ {0}, ApAlive(i)
  PROVE  IInv'
<1>1. /\ Step(i, "alive", "count") /\ ap' = [ap EXCEPT ![i] = "count"] /\ ap[i] = "alive"
      /\ cpus' = [cpus EXCEPT ![i].active = TRUE]
      /\ UNCHANGED <<response, bsp, selected, percpu, aps_booted, ap_count, ap_go, late,
                     istStacks, placement_cursor, placed, ran, cpu_count>>
  BY DEF ApAlive, Step, cpu_count
<1>2. cpus \in [Indices -> [apic_id : Lapics, active : BOOLEAN]]
  BY DEF IInv, TypeOK
<1>3. /\ cpus' \in [Indices -> [apic_id : Lapics, active : BOOLEAN]]
      /\ \A j \in Indices \ {i} : cpus'[j] = cpus[j]
      /\ cpus'[i].apic_id = cpus[i].apic_id
  BY <1>1, <1>2
<1>4. ProcessorInv(i)'
  BY <1>1 DEF IInv, TypeOK, ProcessorInv, Alive, Counted, At
<1>. QED
  BY <1>1, <1>3, <1>4, DataIs, ApMoves DEF Counted, ApPlaces

\* smp.c, smp_ap_main: once the gate is open the processor finds its idle task
\* or halts.
LEMMA ApGateStep ==
  ASSUME IInv, NEW i \in Indices \ {0}, ApGate(i)
  PROVE  IInv'
<1>1. PICK to \in {"switch", "halted"} :
         /\ Step(i, "gate", to) /\ ap' = [ap EXCEPT ![i] = to] /\ ap[i] = "gate"
         /\ ap_go /\ (to = "switch" => percpu[Self(i)].idle # None)
         /\ UNCHANGED <<response, bsp, selected, cpus, percpu, aps_booted, ap_count, ap_go,
                        late, istStacks, placement_cursor, placed, ran, cpu_count>>
  BY DEF ApGate, Step, cpu_count
<1>2. At("running")
  BY <1>1 DEF IInv, BootInv
<1>3. Self(i) = i
  BY <1>1, <1>2, NotBoot, SelfIs DEF IInv, At
<1>4. ProcessorInv(i)'
  BY <1>1, <1>2, <1>3 DEF IInv, TypeOK, ProcessorInv, Alive, Counted, At
<1>5. cpus' \in [Indices -> [apic_id : Lapics, active : BOOLEAN]]
  BY <1>1 DEF IInv, TypeOK
<1>. QED
  BY <1>1, <1>4, <1>5, DataIs, ApMoves DEF Counted, ApPlaces

\* smp.c, smp_ap_main: scheduler_online in its own data, then interrupts.
LEMMA ApOnlineStep ==
  ASSUME IInv, NEW i \in Indices \ {0}, ApOnline(i)
  PROVE  IInv'
<1>1. /\ Step(i, "switch", "running") /\ ap' = [ap EXCEPT ![i] = "running"] /\ ap[i] = "switch"
      /\ percpu' = [percpu EXCEPT ![Self(i)].online = TRUE]
      /\ UNCHANGED <<response, bsp, selected, cpus, aps_booted, ap_count, ap_go, late,
                     istStacks, placement_cursor, placed, ran, cpu_count>>
  BY DEF ApOnline, Step, cpu_count
<1>2. At("running")
  BY <1>1 DEF IInv, ProcessorInv
<1>3. Self(i) = i
  BY <1>1, <1>2, NotBoot, SelfIs DEF IInv, At
<1>4. percpu' = [percpu EXCEPT ![i].online = TRUE]
  BY <1>1, <1>3
<1>5. percpu' \in [Indices -> PercpuData]
  BY <1>4, DataIs, FieldSet
<1>6. ProcessorInv(i)'
  BY <1>1, <1>4, DataIs DEF IInv, TypeOK, ProcessorInv, Alive, Counted, At, PercpuData
<1>7. /\ \A j \in Indices \ {i} : percpu'[j] = percpu[j]
      /\ percpu'[i].ist1 = percpu[i].ist1
      /\ cpus' \in [Indices -> [apic_id : Lapics, active : BOOLEAN]]
  BY <1>1, <1>4, DataIs DEF IInv, TypeOK, PercpuData
<1>. QED
  BY <1>1, <1>5, <1>6, <1>7, ApMoves DEF Counted, ApPlaces

\* smp.c, smp_ap_main: the processor counts itself.
LEMMA ApCountStep ==
  ASSUME IInv, NEW i \in Indices \ {0}, ApCount(i)
  PROVE  IInv'
<1>1. /\ ap[i] = "count" /\ ap' = [ap EXCEPT ![i] = "gate"] /\ aps_booted' = aps_booted + 1
      /\ UNCHANGED <<response, bsp, selected, cpus, percpu, ap_count, ap_go, late,
                     istStacks, placement_cursor, placed, ran, cpu_count>>
      /\ ap \in [Indices -> ApPlaces]
  BY DEF ApCount, Step, cpu_count, IInv, TypeOK, ApPlaces
<1>2. ap' \in [Indices -> ApPlaces]
  BY <1>1 DEF ApPlaces
<1>3. ASSUME NEW j \in Indices PROVE ProcessorInv(j)'
  <2>1. ProcessorInv(j)
    BY DEF IInv
  <2>. QED
    BY <1>1, <2>1 DEF ProcessorInv, Alive, Counted, At
<1>4. CountInv'
  <2>. DEFINE B == {j \in Indices : ap[j] \in Counted}
  <2>1. {j \in Indices : ap'[j] # "parked"} = {j \in Indices : ap[j] # "parked"}
    BY <1>1
  <2>2. {j \in Indices : ap'[j] \in Counted} = B \cup {i} /\ i \in Indices \ B
    BY <1>1 DEF Counted
  <2>3. Cardinality(B \cup {i}) = Cardinality(B) + 1
    <3>. B \in SUBSET Indices
      OBVIOUS
    <3>. HIDE DEF B
    <3>. QED
      BY <2>2, OneMore
  <2>. QED
    BY <1>1, <2>1, <2>2, <2>3 DEF IInv, CountInv
<1>5. aps_booted' \in 0 .. ap_count' /\ ap_count' < MaxCpus
  <2>1. \A j \in Indices : ap'[j] # "parked" => j # 0
    BY <1>1, NotBoot
  <2>2. aps_booted' \in 0 .. ap_count' /\ ap_count' \in 0 .. MaxCpus - 1
    BY <1>4, <2>1, CountsFit DEF CountInv
  <2>. QED
    BY <2>2, IndicesAre
<1>6. TypeOK'
  <2>1. /\ placement_cursor \in 0 .. MaxPlaced + MaxCpus
        /\ cpu_count <= MaxCpus /\ \A j \in DOMAIN selected : selected[j] \in Lapics
    BY DEF IInv, TypeOK
  <2>. QED
    BY <1>1, <1>2, <1>5, <2>1, Zenon DEF IInv, TypeOK, ApPlaces, PercpuData
<1>7. ListInv'
  BY <1>1 DEF IInv, ListInv, At
<1>8. BootInv'
  BY <1>1 DEF IInv, BootInv, At
<1>9. StackInv'
  BY <1>1 DEF IInv, StackInv, Counted, At
<1>. QED
  BY <1>3, <1>4, <1>6, <1>7, <1>8, <1>9 DEF IInv

-----------------------------------------------------------------------------
Phases == {"select", "launch", "wait", "ist", "tasks", "reaper", "shell", "timer", "gate",
           "running", "halted"}

\* A loop over the CPUs goes on to the next one, or to the next phase.
LEMMA NextIs ==
  ASSUME IInv, ~At("select"), NEW phase, NextIndex(phase)
  PROVE  \/ bsp.i + 1 < cpu_count /\ bsp' = [at |-> bsp.at, i |-> bsp.i + 1]
         \/ bsp.i + 1 = cpu_count /\ bsp' = [at |-> phase, i |-> 0]
<1>1. /\ cpu_count \in Nat /\ bsp.i \in 0 .. cpu_count - 1
      /\ bsp = [at |-> bsp.at, i |-> bsp.i]
  BY Ranges
<1>. QED
  BY <1>1 DEF NextIndex

\* A step of the boot processor after the list is complete, or one that user
\* tasks take, leaves the invariant to the progress of the boot processor and
\* to the double-fault stacks.
LEMMA BootMoves ==
  ASSUME IInv, ~At("select"), ~At("launch"),
         bsp'.at \in Phases \ {"select", "launch"}, bsp' = [at |-> bsp'.at, i |-> bsp'.i],
         bsp'.i \in 0 .. cpu_count - 1, At("running") => bsp'.at = "running",
         UNCHANGED <<response, ap, selected, cpus, aps_booted, ap_count>>,
         percpu' \in [Indices -> PercpuData],
         \A j \in Indices :
           /\ percpu'[j].kernel_stack_top = percpu[j].kernel_stack_top
           /\ percpu'[j].rsp0 = percpu[j].rsp0 /\ percpu'[j].msrs = percpu[j].msrs
           /\ percpu[j].online => percpu'[j].online
           /\ percpu'[j].idle \in {percpu[j].idle, [stack |-> j]}
           /\ percpu[j].idle # None => percpu'[j].idle # None,
         ap_go' \in BOOLEAN, late' \in BOOLEAN,
         istStacks' \subseteq Indices, placed' \subseteq Indices, ran' \subseteq Indices,
         placement_cursor' \in 0 .. MaxPlaced + MaxCpus,
         BootInv', StackInv'
  PROVE  IInv'
<1>1. cpu_count' = cpu_count
  BY DEF cpu_count
<1>2. TypeOK'
  <2>1. /\ aps_booted \in 0 .. ap_count /\ ap_count < MaxCpus
        /\ cpu_count <= MaxCpus /\ \A j \in DOMAIN selected : selected[j] \in Lapics
    BY DEF IInv, TypeOK
  <2>2. bsp'.i \in Indices /\ bsp' \in [at : Phases, i : Indices]
    BY Ranges
  <2>. QED
    BY <1>1, <2>1, <2>2, Zenon DEF IInv, TypeOK, Phases, PercpuData
<1>3. ListInv'
  <2>1. bsp'.i < cpu_count
    BY Ranges
  <2>. QED
    BY <1>1, <2>1 DEF IInv, ListInv, At
<1>4. CountInv'
  BY DEF IInv, CountInv
<1>5. ASSUME NEW j \in Indices PROVE ProcessorInv(j)'
  <2>1. ProcessorInv(j)
    BY DEF IInv
  <2>. QED
    BY <1>1, <2>1 DEF ProcessorInv, At
<1>. QED
  BY <1>2, <1>3, <1>4, <1>5 DEF IInv

\* smp.c, smp_init: the list of processors, or the boot processor alone.
LEMMA SelectStep == IInv /\ Select => IInv'
<1>. SUFFICES ASSUME IInv, Select PROVE IInv'
  OBVIOUS
<1>1. /\ At("select") /\ bsp'.at \in {"launch", "ist"} /\ bsp' = [at |-> bsp'.at, i |-> 0]
      /\ selected' \in {select_cpus(response), <<response.bsp>>}
      /\ UNCHANGED <<response, ap, percpu, aps_booted, ap_count, ap_go, late, istStacks,
                     placement_cursor, placed, ran>>
      /\ cpu_count' = Len(selected') /\ response \in Responses
  BY DEF Select, Goto, cpu_count, IInv, TypeOK
<1>2. \A i \in Indices : ap[i] = "parked"
  BY <1>1 DEF IInv, ProcessorInv
<1>3. /\ selected' \in Seq(Nat) /\ Len(selected') \in 1 .. MaxCpus
      /\ selected'[1] = response.bsp
      /\ \A j, k \in 1 .. Len(selected') : selected'[j] = selected'[k] => j = k
      /\ \A k \in 1 .. Len(selected') : selected'[k] \in Lapics
      /\ bsp'.at = "launch" \/ /\ Len(selected') = 1
                               /\ cpus' = [cpus EXCEPT ![0] = [apic_id |-> response.bsp, active |-> TRUE]]
      /\ bsp'.at = "launch" => UNCHANGED cpus
  <2>1. response.bsp \in Lapics /\ {response.cpus[j] : j \in DOMAIN response.cpus} \ {None} \subseteq Lapics
    BY <1>1 DEF Lapics
  <2>2. CASE select_cpus(response) = <<>>
    <3>1. selected' = <<response.bsp>> /\ bsp'.at = "ist"
          /\ cpus' = [cpus EXCEPT ![0] = [apic_id |-> response.bsp, active |-> TRUE]]
      BY <2>2 DEF Select, Goto
    <3>2. response.bsp \in Nat
      BY <1>1, SmpAssumption
    <3>. QED
      BY <2>1, <3>1, <3>2, IndicesAre
  <2>3. CASE select_cpus(response) # <<>>
    <3>1. selected' = select_cpus(response) /\ bsp'.at = "launch" /\ UNCHANGED cpus
      BY <2>3 DEF Select, Goto
    <3>. DEFINE s == select_cpus(response)
                given == response.cpus
    <3>2. /\ s \in Seq(Nat) /\ Len(s) \in 1 .. MaxCpus /\ s[1] = response.bsp
          /\ \A j, k \in 1 .. Len(s) : s[j] = s[k] => j = k
          /\ \A k \in 1 .. Len(s) : s[k] = response.bsp
                                   \/ s[k] \in {given[j] : j \in DOMAIN given} \ {None}
      BY <1>1, <2>3, SelectIs
    <3>. HIDE DEF s
    <3>3. \A k \in 1 .. Len(s) : s[k] \in Lapics
      <4>. HIDE DEF given
      <4>1. {given[j] : j \in DOMAIN given} \ {None} \subseteq Lapics
        BY <2>1 DEF given
      <4>. QED
        BY <2>1, <3>2, <4>1
    <3>4. selected' = s /\ bsp'.at # "ist"
      BY <3>1 DEF s
    <3>. QED
      BY <3>1, <3>2, <3>3, <3>4
  <2>. QED
    BY <2>2, <2>3
<1>4. cpus' \in [Indices -> [apic_id : Lapics, active : BOOLEAN]]
  <2>1. cpus \in [Indices -> [apic_id : Lapics, active : BOOLEAN]] /\ response.bsp \in Lapics
    BY <1>1 DEF IInv, TypeOK, Lapics
  <2>. QED
    BY <1>1, <1>3, <2>1
<1>5. TypeOK'
  <2>1. /\ aps_booted \in 0 .. ap_count /\ ap_count < MaxCpus
        /\ placement_cursor \in 0 .. MaxPlaced + MaxCpus
    BY DEF IInv, TypeOK
  <2>2. cpu_count' <= MaxCpus /\ \A j \in DOMAIN selected' : selected'[j] \in Lapics
    BY <1>1, <1>3, IndicesAre, LenProperties
  <2>3. bsp' \in [at : Phases, i : Indices]
    BY <1>1, IndicesAre DEF Phases
  <2>. QED
    BY <1>1, <1>4, <2>1, <2>2, <2>3, Zenon DEF IInv, TypeOK, Phases
<1>6. ListInv'
  <2>1. bsp'.i = 0 /\ bsp'.at # "select"
    BY <1>1
  <2>2. ASSUME NEW i \in 0 .. cpu_count' - 1, bsp'.at = "launch" => i < bsp'.i
        PROVE  cpus'[i].apic_id = selected'[i + 1]
    <3>1. bsp'.at # "launch" /\ Len(selected') = 1 /\ i = 0
      BY <1>1, <1>3, <2>1, <2>2
    <3>. QED
      BY <1>3, <1>4, <3>1, IndicesAre DEF IInv, TypeOK
  <2>. QED
    BY <1>1, <1>3, <2>1, <2>2 DEF ListInv, At
<1>7. ASSUME NEW j \in Indices PROVE ProcessorInv(j)'
  <2>1. ProcessorInv(j)
    BY DEF IInv
  <2>2. cpus'[j].active => j = 0 \/ cpus[j].active
    BY <1>1, <1>3 DEF IInv, TypeOK
  <2>. QED
    BY <1>1, <1>2, <2>1, <2>2 DEF ProcessorInv, At, Alive, Counted
<1>8. CountInv'
  BY <1>1 DEF IInv, CountInv
<1>9. BootInv' /\ StackInv'
  BY <1>1, <1>2 DEF IInv, BootInv, StackInv, At
<1>. QED
  BY <1>5, <1>6, <1>7, <1>8, <1>9 DEF IInv

\* smp.c, smp_init: one processor of the list is entered, and may be started.
LEMMA LaunchStep == IInv /\ Launch => IInv'
<1>. SUFFICES ASSUME IInv, Launch PROVE IInv'
  OBVIOUS
<1>. DEFINE i == bsp.i
<1>1. /\ At("launch") /\ ~At("select") /\ NextIndex("wait")
      /\ cpus' = [cpus EXCEPT ![i] = [apic_id |-> selected[i + 1],
                                      active |-> (selected[i + 1] = response.bsp)]]
      /\ UNCHANGED <<response, selected, percpu, aps_booted, ap_go, late, istStacks,
                     placement_cursor, placed, ran, cpu_count>>
  BY DEF Launch, cpu_count, At
<1>2. /\ cpu_count \in 1 .. MaxCpus /\ i \in 0 .. cpu_count - 1
      /\ i \in Indices /\ i + 1 \in 1 .. cpu_count /\ 1 \in 1 .. cpu_count
      /\ DOMAIN selected = 1 .. cpu_count
  BY <1>1, Ranges
<1>3. /\ \/ UNCHANGED <<ap, ap_count>>
         \/ i # 0 /\ ap' = [ap EXCEPT ![i] = "launched"] /\ ap_count' = ap_count + 1
      /\ selected[i + 1] = response.bsp => i = 0
  <2>1. /\ selected[1] = response.bsp
        /\ \A j, k \in 1 .. cpu_count : selected[j] = selected[k] => j = k
    BY <1>1 DEF IInv, ListInv
  <2>2. selected[i + 1] = response.bsp => i = 0
    <3>. HIDE DEF i
    <3>. QED
      BY <1>2, <2>1
  <2>3. i = 0 => selected[i + 1] = response.bsp
    BY <2>1
  <2>. QED
    BY <2>2, <2>3 DEF Launch
<1>4. ap[i] = "parked"
  <2>1. ap[i] # "parked" => i < i
    BY <1>1, <1>2 DEF IInv, ProcessorInv
  <2>. HIDE DEF i
  <2>. QED
    BY <1>2, <2>1
<1>5. /\ bsp'.at \in {"launch", "wait"} /\ bsp'.i \in 0 .. cpu_count - 1
      /\ bsp' = [at |-> bsp'.at, i |-> bsp'.i]
      /\ bsp'.at = "launch" => bsp'.i = i + 1
      /\ bsp'.at = "wait" => i + 1 = cpu_count
  <2>1. bsp.at = "launch"
    BY <1>1 DEF At
  <2>. QED
    BY <1>1, <1>2, <2>1, NextIs
<1>6. /\ ap \in [Indices -> ApPlaces] /\ ap' \in [Indices -> ApPlaces]
      /\ cpus \in [Indices -> [apic_id : Lapics, active : BOOLEAN]]
      /\ cpus' \in [Indices -> [apic_id : Lapics, active : BOOLEAN]]
  <2>1. /\ ap \in [Indices -> ApPlaces] /\ selected[i + 1] \in Lapics
        /\ cpus \in [Indices -> [apic_id : Lapics, active : BOOLEAN]]
    BY <1>2 DEF IInv, TypeOK, ApPlaces
  <2>. QED
    BY <1>1, <1>2, <1>3, <2>1 DEF ApPlaces
<1>. HIDE DEF i
<1>7. ASSUME NEW j \in Indices PROVE ProcessorInv(j)'
  <2>1. /\ ap[j] # "parked" => j \in 1 .. cpu_count - 1 /\ j < i
        /\ ProcessorInv(j)
    BY <1>1 DEF IInv, ProcessorInv, i
  <2>2. CASE j = i
    <3>1. ap'[j] \in {"parked", "launched"} /\ (ap'[j] # "parked" => i # 0)
      BY <1>3, <1>4, <1>6, <2>2
    <3>2. cpus'[j].active => j = 0
      BY <1>1, <1>3, <1>6, <2>2
    <3>3. ap'[j] # "parked" => /\ bsp'.at # "select" /\ j \in 1 .. cpu_count - 1
                               /\ bsp'.at = "launch" => j < bsp'.i
      BY <1>2, <1>5, <2>2, <3>1
    <3>. QED
      BY <1>1, <2>1, <3>1, <3>2, <3>3 DEF ProcessorInv, At, Alive, Counted
  <2>3. CASE j # i
    <3>1. ap'[j] = ap[j] /\ cpus'[j] = cpus[j]
      BY <1>1, <1>3, <1>6, <2>3
    <3>2. ap'[j] # "parked" => /\ bsp'.at # "select" /\ j \in 1 .. cpu_count - 1
                               /\ bsp'.at = "launch" => j < bsp'.i
      BY <1>2, <1>5, <2>1, <3>1
    <3>. QED
      BY <1>1, <2>1, <3>1, <3>2 DEF ProcessorInv, At, Alive, Counted
  <2>. QED
    BY <2>2, <2>3
<1>8. CountInv'
  <2>1. {j \in Indices : ap'[j] \in Counted} = {j \in Indices : ap[j] \in Counted}
    BY <1>3, <1>4, <1>6 DEF Counted
  <2>2. CASE UNCHANGED <<ap, ap_count>>
    BY <1>1, <2>1, <2>2 DEF IInv, CountInv
  <2>3. CASE i # 0 /\ ap' = [ap EXCEPT ![i] = "launched"] /\ ap_count' = ap_count + 1
    <3>. DEFINE A == {j \in Indices : ap[j] # "parked"}
    <3>1. {j \in Indices : ap'[j] # "parked"} = A \cup {i} /\ i \in Indices \ A
      BY <1>2, <1>4, <1>6, <2>3 DEF i
    <3>2. Cardinality(A \cup {i}) = Cardinality(A) + 1
      <4>. A \in SUBSET Indices
        OBVIOUS
      <4>. HIDE DEF A
      <4>. QED
        BY <3>1, OneMore
    <3>. QED
      BY <1>1, <2>1, <2>3, <3>1, <3>2 DEF IInv, CountInv
  <2>. QED
    BY <1>3, <2>2, <2>3
<1>9. aps_booted' \in 0 .. ap_count' /\ ap_count' < MaxCpus
  <2>1. \A j \in Indices : ap'[j] # "parked" => j # 0
    BY <1>3, <1>6, NotBoot
  <2>2. aps_booted' \in 0 .. ap_count' /\ ap_count' \in 0 .. MaxCpus - 1
    BY <1>8, <2>1, CountsFit DEF CountInv
  <2>. QED
    BY <2>2, IndicesAre
<1>10. TypeOK'
  <2>1. /\ placement_cursor \in 0 .. MaxPlaced + MaxCpus
        /\ cpu_count <= MaxCpus /\ \A j \in DOMAIN selected : selected[j] \in Lapics
    BY DEF IInv, TypeOK
  <2>2. bsp' \in [at : Phases, i : Indices]
    BY <1>1, <1>5, Ranges DEF Phases
  <2>. QED
    BY <1>1, <1>6, <1>9, <2>1, <2>2, Zenon DEF IInv, TypeOK, Phases, ApPlaces
<1>11. ListInv'
  <2>1. ASSUME NEW j \in 0 .. cpu_count - 1, bsp'.at = "launch" => j < bsp'.i
        PROVE  cpus'[j].apic_id = selected[j + 1]
    <3>1. j \in Indices
      BY <1>1, Ranges
    <3>2. CASE j = i
      BY <1>1, <1>6, <3>1, <3>2
    <3>3. CASE j # i
      <4>1. j < i
        BY <1>2, <1>5, <2>1, <3>3
      <4>2. cpus[j].apic_id = selected[j + 1]
        BY <4>1 DEF IInv, ListInv, i
      <4>. QED
        BY <1>1, <1>6, <3>1, <3>3, <4>2
    <3>. QED
      BY <3>2, <3>3
  <2>2. bsp'.at # "select" /\ bsp'.i < cpu_count
    BY <1>2, <1>5
  <2>. QED
    BY <1>1, <2>1, <2>2 DEF IInv, ListInv, At
<1>12. BootInv' /\ StackInv'
  BY <1>1, <1>5 DEF IInv, BootInv, StackInv, At
<1>. QED
  BY <1>7, <1>8, <1>10, <1>11, <1>12 DEF IInv

-----------------------------------------------------------------------------
\* smp.c, smp_init: the wait ends, with every started processor counted or not.
LEMMA WaitStep == IInv /\ (AllBooted \/ WaitTimeout) => IInv'
<1>. SUFFICES ASSUME IInv, AllBooted \/ WaitTimeout PROVE IInv'
  OBVIOUS
<1>1. /\ bsp.at = "wait" /\ bsp' = [at |-> "ist", i |-> 0]
      /\ late' = (aps_booted # ap_count)
      /\ UNCHANGED <<response, ap, selected, cpus, percpu, aps_booted, ap_count, ap_go,
                     istStacks, placement_cursor, placed, ran>>
  BY DEF AllBooted, WaitTimeout, WaitEnds, Goto, At
<1>2. ~At("select") /\ ~At("launch")
  BY <1>1 DEF At
<1>3. aps_booted = ap_count => \A i \in Indices : ap[i] \in {"parked"} \cup Counted
  <2>. DEFINE A == {i \in Indices : ap[i] # "parked"}
              B == {i \in Indices : ap[i] \in Counted}
  <2>1. B \subseteq A /\ A \subseteq Indices /\ IsFiniteSet(Indices)
    BY IndicesAre DEF Counted
  <2>2. Cardinality(A) = ap_count /\ Cardinality(B) = aps_booted
    BY DEF IInv, CountInv
  <2>. HIDE DEF A, B
  <2>3. IsFiniteSet(A)
    BY <2>1, FS_Subset
  <2>4. Cardinality(B) = Cardinality(A) => B = A
    BY <2>1, <2>3, FS_Subset
  <2>. QED
    BY <2>2, <2>4 DEF A, B
<1>4. BootInv' /\ StackInv'
  BY <1>1, <1>3 DEF IInv, BootInv, StackInv, At
<1>5. /\ istStacks \subseteq Indices /\ placed \subseteq Indices /\ ran \subseteq Indices
      /\ placement_cursor \in 0 .. MaxPlaced + MaxCpus /\ ap_go \in BOOLEAN
  BY DEF IInv, TypeOK
<1>6. 0 \in 0 .. cpu_count - 1
  BY <1>2, Ranges
<1>. QED
  BY <1>1, <1>2, <1>4, <1>5, <1>6, DataIs, BootMoves DEF Phases, At

\* kernel.c: a double-fault stack for one CPU.
LEMMA IstStep == IInv /\ Ist => IInv'
<1>. SUFFICES ASSUME IInv, Ist PROVE IInv'
  OBVIOUS
<1>1. /\ bsp.at = "ist" /\ NextIndex("tasks")
      /\ \/ istStacks' = istStacks \cup {bsp.i} /\ percpu' = [percpu EXCEPT ![bsp.i].ist1 = TRUE]
         \/ UNCHANGED <<istStacks, percpu>>
      /\ UNCHANGED <<response, ap, selected, cpus, aps_booted, ap_count, ap_go, late,
                     placement_cursor, placed, ran>>
  BY DEF Ist, At
<1>2. ~At("select") /\ ~At("launch")
  BY <1>1 DEF At
<1>3. /\ bsp'.at \in {"ist", "tasks"} /\ bsp' = [at |-> bsp'.at, i |-> bsp'.i]
      /\ bsp'.i \in 0 .. cpu_count - 1 /\ (bsp'.at = "tasks" => bsp'.i = 0)
      /\ bsp.i \in Indices
  BY <1>1, <1>2, Ranges, NextIs
<1>4. /\ percpu' \in [Indices -> PercpuData]
      /\ \A j \in Indices :
           /\ percpu'[j].kernel_stack_top = percpu[j].kernel_stack_top
           /\ percpu'[j].rsp0 = percpu[j].rsp0 /\ percpu'[j].msrs = percpu[j].msrs
           /\ percpu'[j].online = percpu[j].online /\ percpu'[j].idle = percpu[j].idle
           /\ percpu'[j].ist1 = percpu[j].ist1 \/ (j = bsp.i /\ percpu'[j].ist1)
      /\ \A j \in istStacks' : j \in istStacks \/ (j = bsp.i /\ percpu'[j].ist1)
      /\ istStacks' \subseteq Indices
  <2>1. percpu \in [Indices -> PercpuData] /\ istStacks \subseteq Indices
    BY DataIs DEF IInv, TypeOK
  <2>2. CASE UNCHANGED <<istStacks, percpu>>
    BY <2>1, <2>2
  <2>3. CASE istStacks' = istStacks \cup {bsp.i} /\ percpu' = [percpu EXCEPT ![bsp.i].ist1 = TRUE]
    <3>1. percpu' \in [Indices -> PercpuData]
      BY <1>3, <2>1, <2>3, FieldSet
    <3>2. ASSUME NEW j \in Indices
          PROVE  /\ percpu'[j].kernel_stack_top = percpu[j].kernel_stack_top
                 /\ percpu'[j].rsp0 = percpu[j].rsp0 /\ percpu'[j].msrs = percpu[j].msrs
                 /\ percpu'[j].online = percpu[j].online /\ percpu'[j].idle = percpu[j].idle
                 /\ percpu'[j].ist1 = percpu[j].ist1 \/ (j = bsp.i /\ percpu'[j].ist1)
                 /\ j = bsp.i => percpu'[j].ist1
      BY <1>3, <2>1, <2>3 DEF PercpuData
    <3>. QED
      BY <1>3, <2>1, <2>3, <3>1, <3>2
  <2>. QED
    BY <1>1, <2>2, <2>3
<1>5. BootInv'
  <2>1. \A j \in Indices : percpu'[j].idle = percpu[j].idle
    BY <1>4
  <2>. QED
    BY <1>1, <1>3, <2>1, IndicesAre DEF IInv, BootInv, At
<1>6. StackInv'
  BY <1>1, <1>3, <1>4 DEF IInv, StackInv
<1>7. /\ placed \subseteq Indices /\ ran \subseteq Indices
      /\ placement_cursor \in 0 .. MaxPlaced + MaxCpus /\ ap_go \in BOOLEAN /\ late \in BOOLEAN
  BY DEF IInv, TypeOK
<1>. QED
  BY <1>1, <1>2, <1>3, <1>4, <1>5, <1>6, <1>7, BootMoves DEF Phases, At

\* task.c, task_init: an idle task for one CPU that is active, on its own stack.
LEMMA TaskInitStep == IInv /\ TaskInit => IInv'
<1>. SUFFICES ASSUME IInv, TaskInit PROVE IInv'
  OBVIOUS
<1>. DEFINE i == bsp.i
<1>1. /\ bsp.at = "tasks"
      /\ \/ /\ i = 0 \/ cpus[i].active
            /\ percpu' = [percpu EXCEPT ![i].idle = IdleTask(i)]
            /\ NextIndex("reaper")
         \/ /\ i # 0
            /\ NextIndex("reaper")
            /\ UNCHANGED percpu
         \/ /\ i = 0 /\ bsp' = [at |-> "halted", i |-> 0]
            /\ UNCHANGED percpu
      /\ UNCHANGED <<response, ap, selected, cpus, aps_booted, ap_count, ap_go, late,
                     istStacks, placement_cursor, placed, ran>>
  BY DEF TaskInit, Goto, At
<1>2. ~At("select") /\ ~At("launch")
  BY <1>1 DEF At
<1>3. i \in Indices /\ i \in 0 .. cpu_count - 1 /\ cpu_count \in Nat
  BY <1>2, Ranges
<1>4. /\ bsp'.at \in {"tasks", "reaper", "halted"} /\ bsp' = [at |-> bsp'.at, i |-> bsp'.i]
      /\ bsp'.i \in 0 .. cpu_count - 1
  BY <1>1, <1>2, <1>3, NextIs
<1>5. i = 0 /\ bsp'.at # "halted" => percpu' = [percpu EXCEPT ![i].idle = IdleTask(i)]
  BY <1>1
<1>. HIDE DEF i
<1>6. i = 0 \/ cpus[i].active => IdleTask(i) = [stack |-> i]
  <2>1. CASE i = 0
    BY <2>1 DEF IdleTask
  <2>2. CASE i # 0 /\ cpus[i].active
    <3>1. ap[i] \in Alive
      BY <1>3, <2>2 DEF IInv, ProcessorInv
    <3>2. percpu[i].kernel_stack_top = i
      BY <1>3, <3>1 DEF IInv, ProcessorInv, Alive, Counted
    <3>. QED
      BY <2>2, <3>2 DEF IdleTask
  <2>. QED
    BY <2>1, <2>2
<1>7. /\ percpu' \in [Indices -> PercpuData]
      /\ \A j \in Indices :
           /\ percpu'[j].kernel_stack_top = percpu[j].kernel_stack_top
           /\ percpu'[j].rsp0 = percpu[j].rsp0 /\ percpu'[j].msrs = percpu[j].msrs
           /\ percpu'[j].online = percpu[j].online /\ percpu'[j].ist1 = percpu[j].ist1
           /\ percpu'[j].idle \in {percpu[j].idle, [stack |-> j]}
           /\ percpu[j].idle # None => percpu'[j].idle # None
      /\ i = 0 /\ bsp'.at # "halted" => percpu'[0].idle = [stack |-> 0]
  <2>1. percpu \in [Indices -> PercpuData]
    BY DataIs
  <2>2. CASE UNCHANGED percpu
    <3>1. i = 0 /\ bsp'.at # "halted" => percpu[i].idle = IdleTask(i)
      BY <1>3, <1>5, <2>1, <2>2 DEF PercpuData
    <3>. QED
      BY <1>6, <2>1, <2>2, <3>1
  <2>3. CASE (i = 0 \/ cpus[i].active) /\ percpu' = [percpu EXCEPT ![i].idle = IdleTask(i)]
    <3>1. percpu' = [percpu EXCEPT ![i].idle = [stack |-> i]]
      BY <1>6, <2>3
    <3>2. percpu' \in [Indices -> PercpuData]
      BY <1>3, <2>1, <3>1, FieldSet
    <3>3. ASSUME NEW j \in Indices
          PROVE  /\ percpu'[j].kernel_stack_top = percpu[j].kernel_stack_top
                 /\ percpu'[j].rsp0 = percpu[j].rsp0 /\ percpu'[j].msrs = percpu[j].msrs
                 /\ percpu'[j].online = percpu[j].online /\ percpu'[j].ist1 = percpu[j].ist1
                 /\ percpu'[j].idle \in {percpu[j].idle, [stack |-> j]}
                 /\ j = i => percpu'[j].idle = [stack |-> i]
                 /\ j # i => percpu'[j].idle = percpu[j].idle
      BY <1>3, <2>1, <3>1 DEF PercpuData
    <3>4. [stack |-> i] # None
      BY <1>3, SmpAssumption, IndicesAre
    <3>. QED
      BY <1>3, <3>2, <3>3, <3>4
  <2>. QED
    BY <1>1, <2>2, <2>3 DEF i
<1>8. BootInv'
  <2>1. percpu'[0].online = percpu[0].online /\ (percpu[0].idle # None => percpu'[0].idle # None)
    BY <1>7, IndicesAre
  <2>2. bsp'.at # "halted" => percpu'[0].idle # None
    <3>1. CASE i = 0
      BY <1>7, <3>1, SmpAssumption, IndicesAre
    <3>2. CASE i # 0
      <4>1. bsp.i > 0
        BY <1>3, <3>2 DEF i
      <4>. QED
        BY <1>1, <2>1, <4>1 DEF IInv, BootInv, At
    <3>. QED
      BY <3>1, <3>2
  <2>. QED
    BY <1>1, <1>4, <2>1, <2>2 DEF IInv, BootInv, At
<1>9. StackInv'
  BY <1>1, <1>4, <1>7 DEF IInv, StackInv
<1>10. /\ placed \subseteq Indices /\ ran \subseteq Indices /\ istStacks \subseteq Indices
       /\ placement_cursor \in 0 .. MaxPlaced + MaxCpus /\ ap_go \in BOOLEAN /\ late \in BOOLEAN
  BY DEF IInv, TypeOK
<1>. QED
  BY <1>1, <1>2, <1>4, <1>7, <1>8, <1>9, <1>10, BootMoves DEF Phases, At

-----------------------------------------------------------------------------
\* A remainder is below the divisor.
LEMMA Remainder ==
  ASSUME NEW a \in Nat, NEW b \in Nat \ {0}
  PROVE  a % b \in 0 .. b - 1
OBVIOUS

\* task.c, placement_cpu: one of the CPUs, and at most one turn of the cursor.
LEMMA PlacementIs ==
  ASSUME IInv, ~At("select")
  PROVE  placement_cpu[1] \in Indices /\ placement_cpu[2] \in 0 .. MaxCpus
<1>. DEFINE has == {n \in 0 .. cpu_count - 1 :
                      percpu[(placement_cursor + n) % cpu_count].idle # None}
<1>1. /\ cpu_count \in 1 .. MaxCpus /\ 0 \in Indices /\ placement_cursor \in Nat
      /\ \A j \in 0 .. cpu_count - 1 : j \in Indices /\ (placement_cursor + j) % cpu_count \in Indices
  <2>1. cpu_count \in 1 .. MaxCpus /\ placement_cursor \in Nat /\ MaxCpus \in Nat
    BY Ranges, IndicesAre DEF IInv, TypeOK
  <2>2. \A j \in 0 .. cpu_count - 1 : j \in Nat /\ placement_cursor + j \in Nat
    BY <2>1
  <2>3. \A j \in 0 .. cpu_count - 1 : (placement_cursor + j) % cpu_count \in 0 .. cpu_count - 1
    BY <2>1, <2>2, Remainder
  <2>. QED
    BY <2>1, <2>3, Ranges
<1>2. CASE has = {}
  <2>1. placement_cpu = <<0, cpu_count>>
    BY <1>2 DEF placement_cpu
  <2>. QED
    BY <1>1, <2>1
<1>3. CASE has # {}
  <2>1. placement_cpu = <<(placement_cursor + Min(has)) % cpu_count, Min(has) + 1>>
    BY <1>3 DEF placement_cpu
  <2>2. has \in SUBSET Nat /\ has \subseteq 0 .. cpu_count - 1
    BY <1>1
  <2>. HIDE DEF has
  <2>3. \E x \in has : \A y \in has : x <= y
    BY ONLY <1>3, <2>2, LeastNat, Zenon
  <2>4. Min(has) \in has
    BY <2>3 DEF Min
  <2>5. Min(has) \in 0 .. cpu_count - 1
    BY <2>2, <2>4
  <2>. DEFINE m == Min(has)
  <2>6. /\ placement_cpu[1] = (placement_cursor + m) % cpu_count /\ placement_cpu[2] = m + 1
        /\ m \in 0 .. cpu_count - 1
    BY <2>1, <2>5
  <2>. HIDE DEF m
  <2>. QED
    BY <1>1, <2>6, IndicesAre
<1>. QED
  BY <1>2, <1>3

\* kernel.c: the reaper, the first user task, the timer and the gate.
LEMMA StartStep == IInv /\ (Reaper \/ Shell \/ StartTimer \/ OpenGate) => IInv'
<1>. SUFFICES ASSUME IInv, Reaper \/ Shell \/ StartTimer \/ OpenGate PROVE IInv'
  OBVIOUS
<1>1. /\ \/ bsp.at = "reaper" /\ bsp'.at \in {"shell", "halted"} /\ UNCHANGED <<percpu, ap_go>>
         \/ bsp.at = "shell" /\ bsp'.at \in {"timer", "halted"} /\ UNCHANGED <<percpu, ap_go>>
         \/ /\ bsp.at = "timer" /\ bsp'.at = "gate" /\ UNCHANGED ap_go
            /\ percpu' = [percpu EXCEPT ![0].online = TRUE]
         \/ bsp.at = "gate" /\ bsp'.at = "running" /\ ap_go' = TRUE /\ UNCHANGED percpu
      /\ bsp' = [at |-> bsp'.at, i |-> 0]
      /\ UNCHANGED <<response, ap, selected, cpus, aps_booted, ap_count, late, istStacks, ran>>
  BY DEF Reaper, Shell, StartTimer, OpenGate, Goto, At
<1>2. ~At("select") /\ ~At("launch")
  BY <1>1 DEF At
<1>3. /\ percpu' \in [Indices -> PercpuData]
      /\ \A j \in Indices :
           /\ percpu'[j].kernel_stack_top = percpu[j].kernel_stack_top
           /\ percpu'[j].rsp0 = percpu[j].rsp0 /\ percpu'[j].msrs = percpu[j].msrs
           /\ percpu[j].online => percpu'[j].online
           /\ percpu'[j].idle = percpu[j].idle /\ percpu'[j].ist1 = percpu[j].ist1
      /\ bsp'.at = "gate" => percpu'[0].online
  <2>1. percpu \in [Indices -> PercpuData] /\ 0 \in Indices
    BY DataIs, IndicesAre
  <2>2. CASE UNCHANGED percpu /\ bsp'.at # "gate"
    BY <1>1, <2>1, <2>2
  <2>3. CASE percpu' = [percpu EXCEPT ![0].online = TRUE]
    <3>1. percpu' \in [Indices -> PercpuData]
      BY <2>1, <2>3, FieldSet
    <3>. QED
      BY <2>1, <2>3, <3>1 DEF PercpuData
  <2>. QED
    BY <1>1, <2>2, <2>3
<1>4. placed' \subseteq Indices /\ placement_cursor' \in 0 .. MaxPlaced + MaxCpus
      /\ (bsp.at \in {"reaper"} => UNCHANGED placement_cursor)
  <2>1. /\ placed \subseteq Indices /\ placement_cursor \in 0 .. MaxPlaced + MaxCpus
        /\ bsp.at = "shell" => placement_cursor = 0
    BY DEF IInv, TypeOK, BootInv
  <2>2. CASE UNCHANGED <<placed, placement_cursor>>
    BY <2>1, <2>2
  <2>3. CASE bsp.at = "shell" /\ create_user_task
    <3>1. /\ placed' = placed \cup {placement_cpu[1]}
          /\ placement_cursor' = 0 + placement_cpu[2]
      BY <2>1, <2>3 DEF create_user_task
    <3>. QED
      BY <1>2, <2>1, <2>3, <3>1, PlacementIs, SmpAssumption
  <2>. QED
    BY <2>2, <2>3 DEF Reaper, Shell, StartTimer, OpenGate, At
<1>5. BootInv'
  <2>1. /\ percpu'[0].idle = percpu[0].idle /\ (percpu[0].online => percpu'[0].online)
    BY <1>3, IndicesAre
  <2>. QED
    BY <1>1, <1>3, <1>4, <2>1 DEF IInv, BootInv, At
<1>6. StackInv'
  BY <1>1, <1>3 DEF IInv, StackInv
<1>7. /\ ap_go' \in BOOLEAN /\ late' \in BOOLEAN /\ istStacks' \subseteq Indices /\ ran' \subseteq Indices
  BY <1>1 DEF IInv, TypeOK
<1>8. 0 \in 0 .. cpu_count - 1
  BY <1>2, Ranges
<1>. QED
  BY <1>1, <1>2, <1>3, <1>4, <1>5, <1>6, <1>7, <1>8, BootMoves DEF Phases, At

\* Timer interrupts and system calls come only when the boot is over.
LEMMA RunStep == IInv /\ ((\E i \in Indices : Tick(i)) \/ Exec) => IInv'
<1>. SUFFICES ASSUME IInv, (\E i \in Indices : Tick(i)) \/ Exec PROVE IInv'
  OBVIOUS
<1>1. bsp.at = "running"
  <2>1. CASE Exec
    BY <2>1 DEF Exec, IInv, BootInv, At
  <2>2. CASE \E i \in Indices : Tick(i)
    BY <2>2 DEF Tick, Interruptible, IInv, ProcessorInv, At
  <2>. QED
    BY <2>1, <2>2
<1>2. UNCHANGED <<response, bsp, ap, selected, cpus, percpu, aps_booted, ap_count, ap_go, late,
                  istStacks>>
  BY DEF Tick, Exec
<1>3. ~At("select") /\ ~At("launch")
  BY <1>1 DEF At
<1>4. /\ placed' \subseteq Indices /\ placement_cursor' \in 0 .. MaxPlaced + MaxCpus
      /\ ran' \subseteq Indices
  <2>1. /\ placed \subseteq Indices /\ placement_cursor \in 0 .. MaxPlaced + MaxCpus
        /\ ran \subseteq Indices
    BY DEF IInv, TypeOK
  <2>2. CASE Exec
    <3>1. /\ placed' = placed \cup {placement_cpu[1]} /\ placement_cursor < MaxPlaced
          /\ placement_cursor' = placement_cursor + placement_cpu[2] /\ ran' = ran
      BY <2>2 DEF Exec, create_user_task
    <3>. QED
      BY <1>3, <2>1, <3>1, PlacementIs, SmpAssumption
  <2>3. CASE \E i \in Indices : Tick(i)
    BY <2>1, <2>3 DEF Tick
  <2>. QED
    BY <2>2, <2>3
<1>5. BootInv' /\ StackInv'
  BY <1>1, <1>2 DEF IInv, BootInv, StackInv, At
<1>6. ap_go \in BOOLEAN /\ late \in BOOLEAN /\ istStacks \subseteq Indices
  BY DEF IInv, TypeOK
<1>7. /\ bsp'.at \in Phases \ {"select", "launch"} /\ bsp' = [at |-> bsp'.at, i |-> bsp'.i]
      /\ bsp'.i \in 0 .. cpu_count - 1 /\ bsp'.at = "running"
  BY <1>1, <1>2, <1>3, Ranges DEF Phases
<1>. QED
  BY <1>2, <1>3, <1>4, <1>5, <1>6, <1>7, DataIs, BootMoves

-----------------------------------------------------------------------------
\* Every step of the system keeps the invariant.
LEMMA NextIInv == IInv /\ [Next]_vars => IInv'
<1>. SUFFICES ASSUME IInv, [Next]_vars PROVE IInv'
  OBVIOUS
<1>1. CASE Select
  BY <1>1, SelectStep
<1>2. CASE Launch
  BY <1>2, LaunchStep
<1>3. CASE AllBooted \/ WaitTimeout
  BY <1>3, WaitStep
<1>4. CASE Ist
  BY <1>4, IstStep
<1>5. CASE TaskInit
  BY <1>5, TaskInitStep
<1>6. CASE Reaper \/ Shell \/ StartTimer \/ OpenGate
  BY <1>6, StartStep
<1>7. CASE \E i \in Indices \ {0} : ApEnter(i) \/ ApStep(i)
  BY <1>7, ApEnterStep, ApTssStep, ApMsrsStep, ApAliveStep, ApCountStep, ApGateStep, ApOnlineStep
     DEF ApStep
<1>8. CASE (\E i \in Indices : Tick(i)) \/ Exec
  BY <1>8, RunStep
<1>9. CASE UNCHANGED vars
  <2>1. UNCHANGED <<response, bsp, ap, selected, cpus, percpu, aps_booted, ap_count, ap_go, late,
                    istStacks, placement_cursor, placed, ran>>
    BY <1>9 DEF vars
  <2>2. cpu_count' = cpu_count
    BY <2>1 DEF cpu_count
  <2>3. TypeOK' /\ CountInv' /\ BootInv' /\ StackInv'
    BY <2>1, <2>2, Zenon DEF IInv, TypeOK, CountInv, BootInv, StackInv, At
  <2>5. ListInv'
    BY <2>1, <2>2 DEF IInv, ListInv, At
  <2>4. \A i \in Indices : ProcessorInv(i)'
    BY <2>1, <2>2, Zenon DEF IInv, ProcessorInv, At
  <2>. QED
    BY <2>3, <2>4, <2>5 DEF IInv
<1>. QED
  BY <1>1, <1>2, <1>3, <1>4, <1>5, <1>6, <1>7, <1>8, <1>9 DEF Next, BspStep

\* The invariant is strong enough.
LEMMA IInvSafety == IInv => Safety
<1>. SUFFICES ASSUME IInv PROVE Safety
  OBVIOUS
<1>1. ASSUME NEW i \in 0 .. cpu_count - 1, Interruptible(i)
      PROVE  /\ Self(i) = i
             /\ percpu[i].online
             /\ percpu[i].idle = [stack |-> i]
             /\ i # 0 => percpu[i].rsp0 = i /\ percpu[i].msrs
             /\ At("running")
  <2>1. cpu_count \in 0 .. MaxCpus /\ i \in Indices
    <3>1. CASE At("select")
      <4>1. cpu_count = 0
        BY <3>1 DEF IInv, ListInv, cpu_count
      <4>. QED
        BY <4>1
    <3>2. CASE ~At("select")
      BY <3>2, Ranges
    <3>. QED
      BY <3>1, <3>2
  <2>2. At("running")
    BY <1>1, <2>1 DEF Interruptible, IInv, ProcessorInv
  <2>3. Self(i) = i
    BY <2>2, SelfIs DEF At, IInv
  <2>4. i = 0 => percpu[i].online /\ percpu[i].idle # None
    BY <2>2 DEF IInv, BootInv, At
  <2>5. i # 0 => /\ percpu[i].online /\ percpu[i].idle # None
                 /\ percpu[i].rsp0 = i /\ percpu[i].msrs
    BY <1>1, <2>1 DEF Interruptible, IInv, ProcessorInv, Alive, Counted
  <2>6. percpu[i].idle # None => percpu[i].idle = [stack |-> i]
    BY <2>1 DEF IInv, ProcessorInv
  <2>. QED
    BY <2>2, <2>3, <2>4, <2>5, <2>6
<1>2. ASSUME ~late, NEW i \in istStacks, Interruptible(i) PROVE percpu[i].ist1
  <2>1. i \in Indices /\ At("running")
    BY <1>2 DEF Interruptible, IInv, TypeOK, ProcessorInv
  <2>. QED
    BY <1>2, <2>1 DEF IInv, StackInv, At
<1>. QED
  BY <1>1, <1>2 DEF Safety, TimerSafe, DoubleFaultStackInTime, IInv

\* A processor that takes interrupts finds its own data, its idle task, its
\* stack and its registers, and its double-fault stack when it came in time.
THEOREM SmpStartSafety == Spec => []Safety
<1>1. Init => IInv
  BY InitIInv
<1>2. IInv /\ [Next]_vars => IInv'
  BY NextIInv
<1>3. IInv => Safety
  BY IInvSafety
<1>. QED
  BY <1>1, <1>2, <1>3, PTL DEF Spec
=============================================================================
