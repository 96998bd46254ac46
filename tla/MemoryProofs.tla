---------------------------- MODULE MemoryProofs ----------------------------
(***************************************************************************)
(* Theorems about the kernel's own memory: the heap, for any owners, sizes *)
(* and layout that is aligned; the page frames, for any firmware maps,     *)
(* size of a page and limit of the counts; and the ELF loader, for any     *)
(* files and number of frames.                                             *)
(*                                                                         *)
(* The heap: first arithmetic and what three lists after each other hold;  *)
(* then what growing, splitting and joining do to a list of blocks that    *)
(* describes the heap; then who holds which block and what the bytes       *)
(* contain; then the calls.                                                *)
(*                                                                         *)
(* The frames: least and greatest numbers; then what pmm_init takes from a *)
(* map; then what the search for a run of frames finds; then the calls.    *)
(*                                                                         *)
(* The loader: addresses of pages; then what the validator's rounds have   *)
(* found; then what has been loaded up to each step; then the steps.       *)
(***************************************************************************)
EXTENDS MemoryCore, SequenceTheorems, FiniteSetTheorems, WellFoundedInduction, TLAPS

-----------------------------------------------------------------------------
(* Division with remainder, in the parts the solver finds by itself.       *)
LEMMA Parts ==
  ASSUME NEW A \in Nat \ {0}, NEW x \in Int, NEW q \in Int, q = x \div A,
         NEW r \in Int, r = x % A, NEW z \in Int, z = A * q
  PROVE  x = z + r
BY Z3

(* A number is its quotient times the divisor, and the remainder.          *)
LEMMA DivMod ==
  ASSUME NEW A \in Nat \ {0}, NEW x \in Int
  PROVE  \E q \in Int : \E r \in 0 .. A - 1 : q = x \div A /\ r = x % A /\ x = A * q + r
<1>1. x \div A \in Int /\ x % A \in 0 .. A - 1
  BY SMT
<1>2. PICK q \in Int : q = x \div A
  BY <1>1
<1>3. PICK r \in 0 .. A - 1 : r = x % A
  BY <1>1
<1>4. PICK z \in Int : z = A * q
  BY <1>2
<1>5. x = z + r
  BY <1>2, <1>3, <1>4, Parts
<1>. QED
  BY <1>2, <1>3, <1>4, <1>5

(* What remains of a multiple is what was added to it.                     *)
LEMMA Rest ==
  ASSUME NEW A \in Nat \ {0}, NEW q \in Int, NEW r \in 0 .. A - 1
  PROVE  (A * q + r) % A = r
BY SMT

(* Without remainder: a multiple.                                          *)
LEMMA Multiple ==
  ASSUME NEW A \in Nat \ {0}, NEW x \in Int, x % A = 0
  PROVE  \E q \in Int : x = A * q
BY DivMod

(* Sums and differences of aligned numbers, and their products with any    *)
(* number, are aligned.                                                    *)
LEMMA Aligned ==
  ASSUME NEW A \in Nat \ {0}, NEW x \in Int, NEW y \in Int, x % A = 0, y % A = 0
  PROVE  (x + y) % A = 0 /\ (x - y) % A = 0
<1>1. PICK q \in Int : x = A * q
  BY Multiple
<1>2. PICK p \in Int : y = A * p
  BY Multiple
<1>3. PICK k \in Int : k = q + p /\ x + y = A * k + 0
  BY <1>1, <1>2
<1>4. PICK j \in Int : j = q - p /\ x - y = A * j + 0
  BY <1>1, <1>2
<1>5. 0 \in 0 .. A - 1
  OBVIOUS
<1>6. (A * k + 0) % A = 0 /\ (A * j + 0) % A = 0
  BY <1>5, Rest
<1>. QED
  BY <1>3, <1>4, <1>6

(* Multiples of an aligned number.                                         *)
LEMMA AlignedTimes ==
  ASSUME NEW A \in Nat \ {0}, NEW x \in Int, NEW k \in Int, x % A = 0
  PROVE  (k * x) % A = 0
<1>1. PICK q \in Int : x = A * q
  BY Multiple
<1>2. PICK j \in Int : j = k * q /\ k * x = A * j + 0
  BY <1>1
<1>3. 0 \in 0 .. A - 1
  OBVIOUS
<1>4. (A * j + 0) % A = 0
  BY <1>3, Rest
<1>. QED
  BY <1>2, <1>4

(* What kmalloc rounds up to is aligned and at least what was asked for.   *)
LEMMA RoundedUp ==
  ASSUME NEW n \in Nat
  PROVE  Rounded(n) \in Nat /\ Rounded(n) >= n /\ Rounded(n) % Align = 0
<1>. Align \in Nat \ {0}
  BY HeapAssumption DEF LayoutAssumption
<1>1. PICK q \in Int : \E r \in 0 .. Align - 1 :
        q = (n + Align - 1) \div Align /\ n + Align - 1 = Align * q + r
  BY DivMod
<1>2. Rounded(n) = q * Align
  BY <1>1 DEF Rounded
<1>3. PICK z \in Int : z = Align * q /\ z = q * Align
  BY <1>1
<1>4. z % Align = 0
  <2>1. 0 \in 0 .. Align - 1 /\ z = Align * q + 0
    BY <1>3
  <2>. QED
    BY <2>1, Rest
<1>5. z >= n
  BY <1>1, <1>3
<1>. QED
  BY <1>2, <1>3, <1>4, <1>5

(* By how much the heap grows: by aligned pages that stay within the bound *)
(* and have room for more than a header.                                   *)
LEMMA Growth ==
  ASSUME heap_end \in Nat, heap_end <= MaxEnd, NEW k \in Grows
  PROVE  \E g \in Nat : /\ g = k * GrowSize /\ g % Align = 0 /\ heap_end + g <= MaxEnd
                        /\ k \in Nat /\ (k = 0 => g = 0) /\ (k > 0 => g > HeaderSize)
<1>1. /\ Align \in Nat \ {0} /\ GrowSize \in Nat \ {0} /\ GrowSize % Align = 0 /\ HeaderSize \in Nat
      /\ GrowSize > HeaderSize /\ InitialSize \in Nat /\ MaxGrows \in Nat
  <2>1. LayoutAssumption
    BY HeapAssumption
  <2>2. GrowSize \in Nat /\ GrowSize % Align = 0 /\ InitialSize \in Nat
    BY <2>1, Zenon DEF LayoutAssumption
  <2>3. /\ Align \in Nat \ {0} /\ HeaderSize \in Nat \ {0} /\ MaxGrows \in Nat
        /\ GrowSize > HeaderSize
    BY <2>1 DEF LayoutAssumption
  <2>. QED
    BY <2>2, <2>3
<1>2. MaxEnd \in Nat
  BY <1>1 DEF MaxEnd
<1>3. PICK q \in Int : \E r \in 0 .. GrowSize - 1 :
        q = (MaxEnd - heap_end) \div GrowSize /\ MaxEnd - heap_end = GrowSize * q + r
  BY <1>1, <1>2, DivMod
<1>4. k \in 0 .. q
  BY <1>3 DEF Grows
<1>5. PICK g \in Nat : g = k * GrowSize
  BY <1>1, <1>4
<1>6. g <= GrowSize * q
  BY <1>1, <1>4, <1>5
<1>7. heap_end + g <= MaxEnd
  BY <1>1, <1>2, <1>3, <1>6
<1>8. g % Align = 0
  <2>1. GrowSize \in Int /\ k \in Int
    BY <1>1, <1>4
  <2>2. (k * GrowSize) % Align = 0
    BY <2>1, <1>1, AlignedTimes
  <2>. QED
    BY <2>2, <1>5
<1>9. k = 0 => g = 0
  BY <1>1, <1>5
<1>10. k > 0 => g >= GrowSize
  BY <1>1, <1>4, <1>5
<1>. QED
  BY <1>1, <1>4, <1>5, <1>7, <1>8, <1>9, <1>10
-----------------------------------------------------------------------------
Block == [at : Nat, size : Nat, free : BOOLEAN]

(* The end of a block.                                                     *)
End(b) == b.at + HeaderSize + b.size

(* A list of blocks without gaps from 0 to e, each aligned and not empty.  *)
Chain(bs, e) ==
  /\ bs \in Seq(Block) /\ bs # <<>>
  /\ bs[1].at = 0
  /\ \A i \in 1 .. Len(bs) : bs[i].size > 0 /\ bs[i].size % Align = 0
  /\ \A i \in 1 .. Len(bs) - 1 : End(bs[i]) = bs[i + 1].at
  /\ End(bs[Len(bs)]) = e
  /\ \A i, j \in 1 .. Len(bs) : i < j => End(bs[i]) <= bs[j].at

(* No two free blocks are neighbours.                                       *)
Parted(bs) == \A i \in 1 .. Len(bs) - 1 : bs[i].free => ~bs[i + 1].free

Used(bs) == {bs[i] : i \in {j \in 1 .. Len(bs) : ~bs[j].free}}

(* The elements of three lists one after the other.                        *)
LEMMA ThreeLists ==
  ASSUME NEW l \in Seq(Block), NEW m \in Seq(Block), NEW r \in Seq(Block)
  PROVE  /\ l \o m \o r \in Seq(Block) /\ Len(l \o m \o r) = Len(l) + Len(m) + Len(r)
         /\ \A j \in 1 .. Len(l) : (l \o m \o r)[j] = l[j]
         /\ \A j \in Len(l) + 1 .. Len(l) + Len(m) : (l \o m \o r)[j] = m[j - Len(l)]
         /\ \A j \in Len(l) + Len(m) + 1 .. Len(l) + Len(m) + Len(r) :
               (l \o m \o r)[j] = r[j - Len(l) - Len(m)]
<1>. DEFINE t == l \o m
<1>1. /\ t \in Seq(Block) /\ Len(t) = Len(l) + Len(m)
      /\ \A j \in 1 .. Len(l) + Len(m) : t[j] = IF j <= Len(l) THEN l[j] ELSE m[j - Len(l)]
  BY ConcatProperties
<1>. HIDE DEF t
<1>. DEFINE u == t \o r
<1>2. /\ u \in Seq(Block) /\ Len(u) = Len(t) + Len(r)
      /\ \A j \in 1 .. Len(t) + Len(r) : u[j] = IF j <= Len(t) THEN t[j] ELSE r[j - Len(t)]
  <2>1. t \in Seq(Block)
    BY <1>1
  <2>. QED
    BY ONLY <2>1, r \in Seq(Block), ConcatProperties
<1>. HIDE DEF u
<1>3. /\ u \in Seq(Block) /\ Len(u) = Len(l) + Len(m) + Len(r)
      /\ \A j \in 1 .. Len(l) : u[j] = l[j]
      /\ \A j \in Len(l) + 1 .. Len(l) + Len(m) : u[j] = m[j - Len(l)]
      /\ \A j \in Len(l) + Len(m) + 1 .. Len(l) + Len(m) + Len(r) : u[j] = r[j - Len(l) - Len(m)]
  <2>1. Len(l) \in Nat /\ Len(m) \in Nat /\ Len(r) \in Nat
    BY LenProperties
  <2>. QED
    BY <2>1, <1>1, <1>2
<1>. QED
  BY <1>3 DEF u, t

(* The part of a list from one index to another.                           *)
LEMMA PartOf ==
  ASSUME NEW bs \in Seq(Block), NEW x \in Nat, NEW y \in Nat, x >= 1, y <= Len(bs), x <= y + 1
  PROVE  /\ SubSeq(bs, x, y) \in Seq(Block) /\ Len(SubSeq(bs, x, y)) = y - x + 1
         /\ \A j \in 1 .. y - x + 1 : SubSeq(bs, x, y)[j] = bs[x + j - 1]
<1>1. \A j \in x .. y : bs[j] \in Block
  BY LenProperties, ElementOfSeq
<1>2. /\ SubSeq(bs, x, y) \in Seq(Block)
      /\ Len(SubSeq(bs, x, y)) = IF x <= y THEN y - x + 1 ELSE 0
      /\ \A j \in 1 .. y - x + 1 : SubSeq(bs, x, y)[j] = bs[x + j - 1]
  BY <1>1, SubSeqProperties
<1>3. y - x + 1 = IF x <= y THEN y - x + 1 ELSE 0
  OBVIOUS
<1>. QED
  BY <1>2, <1>3

(* The blocks before i, some in place of those from i up to k, and those   *)
(* from k on.                                                              *)
LEMMA Replacement ==
  ASSUME NEW bs \in Seq(Block), NEW i \in 1 .. Len(bs), NEW k \in i + 1 .. Len(bs) + 1,
         NEW m \in Seq(Block)
  PROVE  LET cs == SubSeq(bs, 1, i - 1) \o m \o SubSeq(bs, k, Len(bs)) IN
         /\ cs \in Seq(Block) /\ Len(cs) = Len(bs) + Len(m) + i - k
         /\ \A j \in 1 .. i - 1 : cs[j] = bs[j]
         /\ \A j \in 1 .. Len(m) : cs[i - 1 + j] = m[j]
         /\ \A j \in k .. Len(bs) : cs[j + Len(m) + i - k] = bs[j]
<1>. DEFINE l == SubSeq(bs, 1, i - 1)
            r == SubSeq(bs, k, Len(bs))
<1>0. Len(bs) \in Nat
  BY LenProperties
<1>1. l \in Seq(Block) /\ Len(l) = i - 1 /\ \A j \in 1 .. i - 1 : l[j] = bs[j]
  <2>1. i - 1 \in Nat /\ i - 1 <= Len(bs) /\ 1 <= (i - 1) + 1
    BY <1>0
  <2>2. /\ l \in Seq(Block) /\ Len(l) = (i - 1) - 1 + 1
        /\ \A j \in 1 .. (i - 1) - 1 + 1 : l[j] = bs[1 + j - 1]
    BY <2>1, PartOf
  <2>. QED
    BY <2>2, <1>0
<1>2. /\ r \in Seq(Block) /\ Len(r) = Len(bs) - k + 1
      /\ \A j \in 1 .. Len(bs) - k + 1 : r[j] = bs[k + j - 1]
  <2>1. k \in Nat /\ k >= 1 /\ k <= Len(bs) + 1
    BY <1>0
  <2>. QED
    BY <2>1, <1>0, PartOf
<1>. HIDE DEF l, r
<1>. DEFINE u == l \o m \o r
<1>3. /\ u \in Seq(Block) /\ Len(u) = Len(l) + Len(m) + Len(r)
      /\ \A j \in 1 .. Len(l) : u[j] = l[j]
      /\ \A j \in Len(l) + 1 .. Len(l) + Len(m) : u[j] = m[j - Len(l)]
      /\ \A j \in Len(l) + Len(m) + 1 .. Len(l) + Len(m) + Len(r) : u[j] = r[j - Len(l) - Len(m)]
  <2>1. l \in Seq(Block) /\ r \in Seq(Block)
    BY <1>1, <1>2
  <2>. QED
    BY ONLY <2>1, m \in Seq(Block), ThreeLists, SMTT(30)
<1>. HIDE DEF u
<1>5. PICK y \in Nat : y = Len(m)
  BY LenProperties
<1>6. u \in Seq(Block) /\ Len(u) = Len(bs) + y + i - k /\ \A j \in 1 .. i - 1 : u[j] = bs[j]
  BY <1>0, <1>1, <1>2, <1>3, <1>5
<1>7. ASSUME NEW j \in 1 .. y
      PROVE  u[i - 1 + j] = m[j]
  <2>. DEFINE p == i - 1 + j
  <2>1. p \in Len(l) + 1 .. Len(l) + y /\ p - Len(l) = j
    BY <1>0, <1>1
  <2>. HIDE DEF p
  <2>2. u[p] = m[p - Len(l)]
    BY <1>3, <1>5, <2>1
  <2>3. u[p] = m[j]
    BY <2>1, <2>2
  <2>. QED
    BY <2>3 DEF p
<1>8. ASSUME NEW j \in k .. Len(bs)
      PROVE  u[j + y + i - k] = bs[j]
  <2>. DEFINE p == j + y + i - k
  <2>1. /\ p \in Len(l) + y + 1 .. Len(l) + y + Len(r) /\ p - Len(l) - y = j - k + 1
        /\ j - k + 1 \in 1 .. Len(bs) - k + 1 /\ k + (j - k + 1) - 1 = j
    BY <1>0, <1>1, <1>2
  <2>. HIDE DEF p
  <2>2. u[p] = r[p - Len(l) - y]
    BY <1>3, <1>5, <2>1
  <2>3. r[j - k + 1] = bs[k + (j - k + 1) - 1]
    BY <1>2, <2>1
  <2>4. u[p] = bs[j]
    BY <2>1, <2>2, <2>3
  <2>. QED
    BY <2>4 DEF p
<1>9. /\ u \in Seq(Block) /\ Len(u) = Len(bs) + Len(m) + i - k
      /\ \A j \in 1 .. i - 1 : u[j] = bs[j]
      /\ \A j \in 1 .. Len(m) : u[i - 1 + j] = m[j]
      /\ \A j \in k .. Len(bs) : u[j + Len(m) + i - k] = bs[j]
  BY <1>5, <1>6, <1>7, <1>8
<1>. QED
  BY <1>9 DEF u, l, r

(* One block replaced by two, and two by one.                              *)
LEMMA OneByTwo ==
  ASSUME NEW bs \in Seq(Block), NEW i \in 1 .. Len(bs),
         NEW m \in Seq(Block), Len(m) = 2
  PROVE  LET cs == SubSeq(bs, 1, i - 1) \o m \o SubSeq(bs, i + 1, Len(bs)) IN
         /\ cs \in Seq(Block) /\ Len(cs) = Len(bs) + 1
         /\ \A j \in 1 .. i - 1 : cs[j] = bs[j]
         /\ cs[i] = m[1] /\ cs[i + 1] = m[2]
         /\ \A j \in i + 2 .. Len(bs) + 1 : cs[j] = bs[j - 1]
<1>. DEFINE cs == SubSeq(bs, 1, i - 1) \o m \o SubSeq(bs, i + 1, Len(bs))
<1>2. m \in Seq(Block) /\ Len(m) = 2 /\ Len(bs) \in Nat
  BY LenProperties
<1>3. i + 1 \in i + 1 .. Len(bs) + 1
  BY <1>2
<1>4. cs = SubSeq(bs, 1, i - 1) \o m \o SubSeq(bs, i + 1, Len(bs))
  OBVIOUS
<1>5. /\ cs \in Seq(Block) /\ Len(cs) = Len(bs) + Len(m) + i - (i + 1)
      /\ \A j \in 1 .. i - 1 : cs[j] = bs[j]
      /\ \A j \in 1 .. Len(m) : cs[i - 1 + j] = m[j]
      /\ \A j \in i + 1 .. Len(bs) : cs[j + Len(m) + i - (i + 1)] = bs[j]
  <2>1. m \in Seq(Block)
    BY <1>2
  <2>. DEFINE u == SubSeq(bs, 1, i - 1) \o m \o SubSeq(bs, i + 1, Len(bs))
  <2>2. /\ u \in Seq(Block) /\ Len(u) = Len(bs) + Len(m) + i - (i + 1)
        /\ \A j \in 1 .. i - 1 : u[j] = bs[j]
        /\ \A j \in 1 .. Len(m) : u[i - 1 + j] = m[j]
        /\ \A j \in i + 1 .. Len(bs) : u[j + Len(m) + i - (i + 1)] = bs[j]
    BY ONLY bs \in Seq(Block), i \in 1 .. Len(bs), <2>1, <1>3, Replacement
  <2>3. cs = u
    BY <1>4
  <2>. HIDE DEF u
  <2>. QED
    BY <2>2, <2>3
<1>. HIDE DEF cs
<1>6. Len(cs) = Len(bs) + 1
  <2>1. Len(cs) = Len(bs) + Len(m) + i - (i + 1)
    BY <1>5
  <2>2. Len(m) = 2 /\ Len(bs) \in Nat /\ i \in Nat
    BY <1>2
  <2>. QED
    BY ONLY <2>1, <2>2, SMT
<1>7. cs[i - 1 + 1] = m[1] /\ cs[i - 1 + 2] = m[2]
  <2>1. 1 \in 1 .. Len(m) /\ 2 \in 1 .. Len(m)
    BY <1>2
  <2>. QED
    BY ONLY <1>2, <1>5, <2>1, Zenon
<1>8. cs[i] = m[1] /\ cs[i + 1] = m[2]
  <2>1. i - 1 + 1 = i /\ i - 1 + 2 = i + 1
    OBVIOUS
  <2>. QED
    BY <1>7, <2>1
<1>9. ASSUME NEW j \in i + 2 .. Len(bs) + 1
      PROVE  cs[j] = bs[j - 1]
  <2>1. j - 1 \in i + 1 .. Len(bs) /\ j - 1 + 2 + i - (i + 1) = j
    BY <1>2
  <2>2. cs[j - 1 + 2 + i - (i + 1)] = bs[j - 1]
    BY <1>2, <1>5, <2>1
  <2>. QED
    BY <2>1, <2>2
<1>10. /\ cs \in Seq(Block) /\ Len(cs) = Len(bs) + 1
       /\ \A j \in 1 .. i - 1 : cs[j] = bs[j]
       /\ cs[i] = m[1] /\ cs[i + 1] = m[2]
       /\ \A j \in i + 2 .. Len(bs) + 1 : cs[j] = bs[j - 1]
  BY <1>5, <1>6, <1>8, <1>9
<1>. QED
  BY <1>10 DEF cs

(* And two elements by one.                                                *)
LEMMA TwoByOne ==
  ASSUME NEW bs \in Seq(Block), NEW i \in 1 .. Len(bs) - 1,
         NEW m \in Seq(Block), Len(m) = 1
  PROVE  LET cs == SubSeq(bs, 1, i - 1) \o m \o SubSeq(bs, i + 2, Len(bs)) IN
         /\ cs \in Seq(Block) /\ Len(cs) = Len(bs) - 1
         /\ \A j \in 1 .. i - 1 : cs[j] = bs[j]
         /\ cs[i] = m[1]
         /\ \A j \in i + 1 .. Len(bs) - 1 : cs[j] = bs[j + 1]
<1>. DEFINE cs == SubSeq(bs, 1, i - 1) \o m \o SubSeq(bs, i + 2, Len(bs))
<1>2. m \in Seq(Block) /\ Len(m) = 1 /\ Len(bs) \in Nat
  BY LenProperties
<1>3. i + 2 \in i + 1 .. Len(bs) + 1 /\ i \in 1 .. Len(bs)
  BY <1>2
<1>4. cs = SubSeq(bs, 1, i - 1) \o m \o SubSeq(bs, i + 2, Len(bs))
  OBVIOUS
<1>5. /\ cs \in Seq(Block) /\ Len(cs) = Len(bs) + Len(m) + i - (i + 2)
      /\ \A j \in 1 .. i - 1 : cs[j] = bs[j]
      /\ \A j \in 1 .. Len(m) : cs[i - 1 + j] = m[j]
      /\ \A j \in i + 2 .. Len(bs) : cs[j + Len(m) + i - (i + 2)] = bs[j]
  <2>1. m \in Seq(Block)
    BY <1>2
  <2>. DEFINE u == SubSeq(bs, 1, i - 1) \o m \o SubSeq(bs, i + 2, Len(bs))
  <2>2. /\ u \in Seq(Block) /\ Len(u) = Len(bs) + Len(m) + i - (i + 2)
        /\ \A j \in 1 .. i - 1 : u[j] = bs[j]
        /\ \A j \in 1 .. Len(m) : u[i - 1 + j] = m[j]
        /\ \A j \in i + 2 .. Len(bs) : u[j + Len(m) + i - (i + 2)] = bs[j]
    BY ONLY bs \in Seq(Block), <2>1, <1>3, Replacement
  <2>3. cs = u
    BY <1>4
  <2>. HIDE DEF u
  <2>. QED
    BY <2>2, <2>3
<1>. HIDE DEF cs
<1>6. Len(cs) = Len(bs) - 1
  <2>1. Len(cs) = Len(bs) + Len(m) + i - (i + 2)
    BY <1>5
  <2>2. Len(m) = 1 /\ Len(bs) \in Nat /\ i \in Nat
    BY <1>2
  <2>. QED
    BY ONLY <2>1, <2>2, SMT
<1>7. cs[i - 1 + 1] = m[1]
  <2>1. 1 \in 1 .. Len(m)
    BY <1>2
  <2>. QED
    BY ONLY <1>2, <1>5, <2>1, Zenon
<1>8. cs[i] = m[1]
  <2>1. i - 1 + 1 = i
    OBVIOUS
  <2>. QED
    BY <1>7, <2>1
<1>9. ASSUME NEW j \in i + 1 .. Len(bs) - 1
      PROVE  cs[j] = bs[j + 1]
  <2>1. j + 1 \in i + 2 .. Len(bs) /\ j + 1 + 1 + i - (i + 2) = j
    BY <1>2
  <2>2. cs[j + 1 + 1 + i - (i + 2)] = bs[j + 1]
    BY <1>2, <1>5, <2>1
  <2>. QED
    BY <2>1, <2>2
<1>10. /\ cs \in Seq(Block) /\ Len(cs) = Len(bs) - 1
       /\ \A j \in 1 .. i - 1 : cs[j] = bs[j]
       /\ cs[i] = m[1]
       /\ \A j \in i + 1 .. Len(bs) - 1 : cs[j] = bs[j + 1]
  BY <1>5, <1>6, <1>8, <1>9
<1>. QED
  BY <1>10 DEF cs

(* What the layout's numbers are.                                          *)
LEMMA Layout ==
  /\ Align \in Nat \ {0} /\ HeaderSize \in Nat \ {0} /\ HeaderSize % Align = 0
  /\ InitialSize \in Nat /\ InitialSize % Align = 0 /\ InitialSize > HeaderSize
  /\ MaxEnd \in Nat /\ InitialSize <= MaxEnd
<1>1. LayoutAssumption
  BY HeapAssumption
<1>2. /\ HeaderSize \in Nat /\ HeaderSize % Align = 0 /\ InitialSize \in Nat
      /\ InitialSize % Align = 0 /\ GrowSize \in Nat
  BY <1>1, Zenon DEF LayoutAssumption
<1>3. /\ Align \in Nat \ {0} /\ HeaderSize \in Nat \ {0} /\ MaxGrows \in Nat
      /\ InitialSize > HeaderSize
  BY <1>1 DEF LayoutAssumption
<1>4. PICK g \in Nat : g = MaxGrows * GrowSize
  BY <1>2, <1>3
<1>. QED
  BY <1>2, <1>3, <1>4 DEF MaxEnd

(* The blocks of a list and where it ends.                                 *)
LEMMA ChainTypes ==
  ASSUME NEW bs, NEW e, Chain(bs, e)
  PROVE  /\ bs \in Seq(Block) /\ Len(bs) \in Nat \ {0} /\ DOMAIN bs = 1 .. Len(bs)
         /\ \A i \in 1 .. Len(bs) : /\ bs[i] \in Block /\ bs[i].at \in Nat /\ bs[i].size \in Nat
                                    /\ bs[i].free \in BOOLEAN /\ End(bs[i]) \in Nat
                                    /\ End(bs[i]) = bs[i].at + HeaderSize + bs[i].size
         /\ e \in Nat
<1>1. bs \in Seq(Block) /\ bs # <<>> /\ End(bs[Len(bs)]) = e
  BY DEF Chain
<1>2. Len(bs) \in Nat \ {0} /\ DOMAIN bs = 1 .. Len(bs)
  BY <1>1, LenProperties, EmptySeq
<1>3. \A i \in 1 .. Len(bs) : bs[i] \in Block
  BY <1>1, ElementOfSeq
<1>4. \A i \in 1 .. Len(bs) : /\ bs[i].at \in Nat /\ bs[i].size \in Nat
                              /\ bs[i].free \in BOOLEAN /\ End(bs[i]) \in Nat
                              /\ End(bs[i]) = bs[i].at + HeaderSize + bs[i].size
  BY <1>3, Layout DEF Block, End
<1>5. e \in Nat
  BY <1>1, <1>2, <1>4
<1>. QED
  BY <1>1, <1>2, <1>3, <1>4, <1>5

(* A block and its copies with another size or flag.                       *)
LEMMA Resized ==
  ASSUME NEW b \in Block, NEW s \in Nat
  PROVE  /\ [b EXCEPT !.size = s] \in Block /\ [b EXCEPT !.size = s].at = b.at
         /\ [b EXCEPT !.size = s].size = s /\ [b EXCEPT !.size = s].free = b.free
BY DEF Block

(* A block whose flag changes.                                             *)
LEMMA Marked ==
  ASSUME NEW b \in Block, NEW f \in BOOLEAN
  PROVE  /\ [b EXCEPT !.free = f] \in Block /\ [b EXCEPT !.free = f].at = b.at
         /\ [b EXCEPT !.free = f].size = b.size /\ [b EXCEPT !.free = f].free = f
<1>1. [b EXCEPT !.free = f].free = f
  BY Zenon DEF Block
<1>2. [b EXCEPT !.free = f] \in Block
  BY Zenon DEF Block
<1>3. [b EXCEPT !.free = f].at = b.at /\ [b EXCEPT !.free = f].size = b.size
  BY DEF Block
<1>. QED
  BY <1>1, <1>2, <1>3

(* What a chain promises, position by position.                            *)
LEMMA ChainParts ==
  ASSUME NEW bs, NEW e, Chain(bs, e)
  PROVE  /\ bs[1].at = 0 /\ End(bs[Len(bs)]) = e
         /\ \A i \in 1 .. Len(bs) : bs[i].size > 0 /\ bs[i].size % Align = 0
         /\ \A i \in 1 .. Len(bs) - 1 : End(bs[i]) = bs[i + 1].at
         /\ \A i, j \in 1 .. Len(bs) : i < j => End(bs[i]) <= bs[j].at
BY DEF Chain

(* Aligned block sizes stay aligned.                                       *)
LEMMA AlignedSum ==
  ASSUME NEW x \in Nat, NEW y \in Nat, x % Align = 0, y % Align = 0
  PROVE  (x + y) % Align = 0 /\ (x - y) % Align = 0
<1>1. Align \in Nat \ {0} /\ x \in Int /\ y \in Int
  BY Layout
<1>. QED
  BY ONLY <1>1, x % Align = 0, y % Align = 0, Aligned, Zenon

(* heap_grow: still one list without free neighbours, with the same blocks *)
(* in use.                                                                 *)
LEMMA GrownChain ==
  ASSUME Chain(blocks, heap_end), Parted(blocks), heap_end <= MaxEnd, NEW k \in Grows
  PROVE  /\ Chain(Grown(blocks, k), heap_end + k * GrowSize) /\ Parted(Grown(blocks, k))
         /\ Used(Grown(blocks, k)) = Used(blocks)
<1>. DEFINE L == Len(blocks)
            cs == Grown(blocks, k)
<1>1. /\ blocks \in Seq(Block) /\ L \in Nat \ {0} /\ heap_end \in Nat
      /\ \A i \in 1 .. L : /\ blocks[i] \in Block /\ blocks[i].at \in Nat /\ blocks[i].size \in Nat
                           /\ blocks[i].free \in BOOLEAN
                           /\ End(blocks[i]) = blocks[i].at + HeaderSize + blocks[i].size
  BY ChainTypes
<1>2. PICK g \in Nat : /\ g = k * GrowSize /\ g % Align = 0 /\ heap_end + g <= MaxEnd
                       /\ k \in Nat /\ (k = 0 => g = 0) /\ (k > 0 => g > HeaderSize)
  BY <1>1, Growth
<1>. DEFINE e == heap_end + g
<1>3. HeaderSize \in Nat /\ HeaderSize % Align = 0
  BY Layout
<1>4. /\ blocks[1].at = 0 /\ End(blocks[L]) = heap_end
      /\ \A i \in 1 .. L : blocks[i].size > 0 /\ blocks[i].size % Align = 0
      /\ \A i \in 1 .. L - 1 : End(blocks[i]) = blocks[i + 1].at
      /\ \A i, j \in 1 .. L : i < j => End(blocks[i]) <= blocks[j].at
  BY ChainParts
<1>. DEFINE b0 == blocks[L]
<1>8. /\ b0 \in Block /\ b0.at \in Nat /\ b0.size \in Nat /\ b0.size > 0 /\ b0.size % Align = 0
      /\ b0.at + HeaderSize + b0.size = heap_end
  <2>1. L \in 1 .. L
    BY <1>1
  <2>. QED
    BY <1>1, <1>4, <2>1
<1>5. CASE k = 0
  <2>1. cs = blocks /\ heap_end + g = heap_end
    BY <1>1, <1>2, <1>5 DEF Grown
  <2>. QED
    BY <2>1, <1>2
<1>6. CASE k > 0 /\ blocks[L].free
  <2>. DEFINE b == [blocks[L] EXCEPT !.size = @ + g]
  <2>1. cs = [blocks EXCEPT ![L] = b]
    BY <1>1, <1>2, <1>6 DEF Grown
  <2>2. b \in Block /\ b.at = blocks[L].at /\ b.size = blocks[L].size + g /\ b.free = blocks[L].free
    <3>1. blocks[L] \in Block /\ blocks[L].size + g \in Nat
      BY <1>1
    <3>. QED
      BY <3>1, Resized
  <2>. HIDE DEF b, cs
  <2>3. cs \in Seq(Block) /\ Len(cs) = L /\ \A j \in 1 .. L : cs[j] = IF j = L THEN b ELSE blocks[j]
    BY <1>1, <2>1, <2>2, ExceptSeq
  <2>4. b.size > 0 /\ b.size % Align = 0 /\ End(b) = e
    <3>1. (b0.size + g) % Align = 0
      <4>. HIDE DEF b0
      <4>. QED
        BY <1>2, <1>8, AlignedSum
    <3>2. b.size % Align = 0
      BY <2>2, <3>1
    <3>. QED
      BY <1>2, <1>3, <1>8, <2>2, <3>2 DEF End
  <2>5. Chain(cs, e)
    <3>0. cs # <<>>
      BY <1>1, <2>3, EmptySeq
    <3>1. cs[1].at = 0 /\ End(cs[L]) = e
      <4>1. 1 \in 1 .. L /\ L \in 1 .. L
        BY <1>1
      <4>. QED
        BY <1>4, <2>2, <2>3, <2>4, <4>1
    <3>2. \A i \in 1 .. L : cs[i].size > 0 /\ cs[i].size % Align = 0
      BY <1>4, <2>3, <2>4
    <3>3. \A i \in 1 .. L : cs[i].at = blocks[i].at /\ (i # L => End(cs[i]) = End(blocks[i]))
      BY <1>1, <2>2, <2>3
    <3>4. \A i \in 1 .. L - 1 : End(cs[i]) = cs[i + 1].at
      BY <1>1, <1>4, <3>3
    <3>5. \A i, j \in 1 .. L : i < j => End(cs[i]) <= cs[j].at
      BY <1>1, <1>4, <3>3
    <3>. QED
      BY <2>3, <3>0, <3>1, <3>2, <3>4, <3>5 DEF Chain
  <2>6. \A j \in 1 .. L : cs[j].free = blocks[j].free /\ (~blocks[j].free => cs[j] = blocks[j])
    BY <1>1, <1>6, <2>2, <2>3
  <2>7. Parted(cs)
    BY <1>1, <2>3, <2>6 DEF Parted
  <2>8. Used(cs) = Used(blocks)
    BY <2>3, <2>6 DEF Used
  <2>. QED
    BY <1>2, <2>5, <2>7, <2>8 DEF cs
<1>7. CASE k > 0 /\ ~blocks[L].free
  <2>. DEFINE b == [at |-> heap_end, size |-> g - HeaderSize, free |-> TRUE]
  <2>1. cs = Append(blocks, b)
    BY <1>1, <1>2, <1>7 DEF Grown
  <2>2. b \in Block /\ b.at = heap_end /\ b.size = g - HeaderSize /\ b.free = TRUE
    BY <1>1, <1>2, <1>3, <1>7 DEF Block
  <2>. HIDE DEF b, cs
  <2>3. /\ cs \in Seq(Block) /\ cs # <<>> /\ Len(cs) = L + 1
        /\ \A j \in 1 .. L : cs[j] = blocks[j]
        /\ cs[L + 1] = b
    BY <1>1, <2>1, <2>2, AppendProperties
  <2>4. b.size > 0 /\ b.size % Align = 0 /\ End(b) = e
    <3>1. (g - HeaderSize) % Align = 0
      BY <1>2, <1>3, AlignedSum
    <3>2. b.size > 0
      BY <1>2, <1>3, <1>7, <2>2
    <3>3. b.at + HeaderSize + b.size = e
      BY <1>1, <1>2, <1>3, <1>7, <2>2
    <3>. QED
      BY <2>2, <3>1, <3>2, <3>3, Zenon DEF End
  <2>5. Chain(cs, e)
    <3>1. cs[1].at = 0 /\ End(cs[Len(cs)]) = e
      BY <1>1, <1>4, <2>3, <2>4
    <3>2. \A i \in 1 .. L + 1 : cs[i].size > 0 /\ cs[i].size % Align = 0
      <4>1. \A i \in 1 .. L + 1 : i = L + 1 \/ i \in 1 .. L
        BY <1>1
      <4>. QED
        BY <1>4, <2>3, <2>4, <4>1
    <3>3. \A i \in 1 .. L : End(blocks[i]) <= heap_end
      <4>1. blocks[L].at <= heap_end
        BY <1>1, <1>3, <1>8
      <4>2. L \in 1 .. L /\ \A i \in 1 .. L : i # L => i < L
        BY <1>1
      <4>3. \A i \in 1 .. L : i # L => End(blocks[i]) <= blocks[L].at
        BY <1>4, <4>2
      <4>4. blocks[L].at \in Nat /\ \A i \in 1 .. L : End(blocks[i]) \in Nat
        BY <1>1, <1>3, <4>2, SMTT(30)
      <4>. QED
        BY <1>1, <1>4, <4>1, <4>3, <4>4
    <3>4. ASSUME NEW i \in 1 .. L + 1 - 1
          PROVE  End(cs[i]) = cs[i + 1].at
      <4>1. CASE i = L
        BY <1>1, <1>4, <2>2, <2>3, <4>1
      <4>2. CASE i \in 1 .. L - 1
        <5>1. i \in 1 .. L /\ i + 1 \in 1 .. L
          BY <1>1, <4>2
        <5>2. cs[i] = blocks[i] /\ cs[i + 1] = blocks[i + 1]
          BY <2>3, <5>1
        <5>. QED
          BY <1>4, <4>2, <5>2
      <4>. QED
        BY <1>1, <4>1, <4>2
    <3>5. ASSUME NEW i \in 1 .. L + 1, NEW j \in 1 .. L + 1, i < j
          PROVE  End(cs[i]) <= cs[j].at
      <4>1. CASE j = L + 1
        BY <1>1, <2>2, <2>3, <3>3, <3>5, <4>1
      <4>2. CASE j \in 1 .. L
        <5>1. i \in 1 .. L
          BY <1>1, <3>5, <4>2
        <5>2. cs[i] = blocks[i] /\ cs[j] = blocks[j]
          BY <2>3, <4>2, <5>1
        <5>. QED
          BY <1>4, <3>5, <4>2, <5>1, <5>2
      <4>. QED
        BY <1>1, <4>1, <4>2
    <3>. QED
      BY <2>3, <3>1, <3>2, <3>4, <3>5 DEF Chain
  <2>6. Parted(cs)
    BY <1>1, <1>7, <2>2, <2>3 DEF Parted
  <2>7. Used(cs) = Used(blocks)
    BY <1>1, <1>7, <2>2, <2>3 DEF Used
  <2>. QED
    BY <1>2, <2>5, <2>6, <2>7 DEF cs
<1>. QED
  BY <1>1, <1>2, <1>5, <1>6, <1>7

(* A chain depends only on where its blocks are and how long.              *)
LEMMA SameShape ==
  ASSUME NEW bs, NEW e, Chain(bs, e), NEW cs \in Seq(Block), Len(cs) = Len(bs),
         \A j \in 1 .. Len(bs) : cs[j].at = bs[j].at /\ cs[j].size = bs[j].size
  PROVE  Chain(cs, e)
<1>. DEFINE L == Len(bs)
<1>1. L \in Nat \ {0} /\ 1 \in 1 .. L /\ L \in 1 .. L
  BY ChainTypes
<1>2. \A j \in 1 .. L : End(cs[j]) = End(bs[j])
  BY DEF End
<1>3. cs # <<>>
  BY <1>1, EmptySeq
<1>4. cs[1].at = 0 /\ End(cs[L]) = e
  BY <1>1, <1>2, ChainParts
<1>5. \A j \in 1 .. L : cs[j].size > 0 /\ cs[j].size % Align = 0
  <2>1. \A j \in 1 .. L : bs[j].size > 0 /\ bs[j].size % Align = 0
    BY ChainParts
  <2>. QED
    BY <2>1
<1>6. ASSUME NEW j \in 1 .. L - 1
      PROVE  End(cs[j]) = cs[j + 1].at
  <2>1. j \in 1 .. L /\ j + 1 \in 1 .. L
    BY <1>1
  <2>2. End(bs[j]) = bs[j + 1].at
    BY ChainParts
  <2>. QED
    BY <1>2, <2>1, <2>2
<1>7. ASSUME NEW i \in 1 .. L, NEW j \in 1 .. L, i < j
      PROVE  End(cs[i]) <= cs[j].at
  <2>1. End(bs[i]) <= bs[j].at
    BY <1>7, ChainParts
  <2>. QED
    BY <1>2, <2>1
<1>. QED
  BY <1>3, <1>4, <1>5, <1>6, <1>7 DEF Chain

(* Blocks of a chain are equal or apart, and where one begins says which   *)
(* it is.                                                                  *)
LEMMA BlocksApart ==
  ASSUME NEW bs, NEW e, Chain(bs, e), NEW i \in 1 .. Len(bs), NEW j \in 1 .. Len(bs)
  PROVE  /\ i = j \/ End(bs[i]) <= bs[j].at \/ End(bs[j]) <= bs[i].at
         /\ bs[i].at = bs[j].at => i = j
<1>1. /\ Len(bs) \in Nat /\ HeaderSize \in Nat \ {0}
      /\ \A k \in 1 .. Len(bs) : bs[k].at \in Nat /\ End(bs[k]) \in Nat /\ End(bs[k]) > bs[k].at
  <2>1. HeaderSize \in Nat \ {0}
    BY Layout
  <2>2. /\ Len(bs) \in Nat
        /\ \A k \in 1 .. Len(bs) : /\ bs[k].at \in Nat /\ bs[k].size \in Nat
                                   /\ End(bs[k]) = bs[k].at + HeaderSize + bs[k].size
    BY ChainTypes
  <2>. QED
    BY <2>1, <2>2
<1>2. i = j \/ End(bs[i]) <= bs[j].at \/ End(bs[j]) <= bs[i].at
  <2>1. \A x, y \in 1 .. Len(bs) : x < y => End(bs[x]) <= bs[y].at
    BY ChainParts
  <2>. QED
    BY <1>1, <2>1
<1>. QED
  BY <1>1, <1>2

(* kmalloc's split: the block taken begins where the free one did, is long *)
(* enough, and is the only new one in use.                                 *)
LEMMA TakenChain ==
  ASSUME NEW bs, NEW e, Chain(bs, e), Parted(bs), NEW i \in 1 .. Len(bs), bs[i].free,
         NEW n \in Nat, n > 0, n % Align = 0, n <= bs[i].size
  PROVE  /\ Chain(Taken(bs, i, n), e) /\ Parted(Taken(bs, i, n))
         /\ \E b \in Block : /\ b.at = bs[i].at /\ b.size >= n /\ ~b.free
                             /\ Used(Taken(bs, i, n)) = Used(bs) \cup {b}
<1>. DEFINE L == Len(bs)
            cs == Taken(bs, i, n)
            s == bs[i]
<1>1. /\ bs \in Seq(Block) /\ L \in Nat \ {0} /\ e \in Nat
      /\ \A j \in 1 .. L : /\ bs[j] \in Block /\ bs[j].at \in Nat /\ bs[j].size \in Nat
                           /\ bs[j].free \in BOOLEAN /\ End(bs[j]) \in Nat
                           /\ End(bs[j]) = bs[j].at + HeaderSize + bs[j].size
  BY ChainTypes
<1>2. /\ bs[1].at = 0 /\ End(bs[L]) = e
      /\ \A j \in 1 .. L : bs[j].size > 0 /\ bs[j].size % Align = 0
      /\ \A j \in 1 .. L - 1 : End(bs[j]) = bs[j + 1].at
      /\ \A x, y \in 1 .. L : x < y => End(bs[x]) <= bs[y].at
  BY ChainParts
<1>3. HeaderSize \in Nat \ {0} /\ HeaderSize % Align = 0
  BY Layout
<1>4. /\ s \in Block /\ s.at \in Nat /\ s.size \in Nat /\ s.free /\ s.size > 0 /\ s.size % Align = 0
      /\ End(s) = s.at + HeaderSize + s.size
  BY <1>1, <1>2
<1>5. CASE ~Splits(s, n)
  <2>. DEFINE b == [s EXCEPT !.free = FALSE]
  <2>1. cs = [bs EXCEPT ![i] = b]
    BY <1>5 DEF Taken
  <2>2. b \in Block /\ b.at = s.at /\ b.size = s.size /\ ~b.free
    BY <1>4, Marked
  <2>. HIDE DEF b, cs
  <2>3. cs \in Seq(Block) /\ Len(cs) = L /\ \A j \in 1 .. L : cs[j] = IF j = i THEN b ELSE bs[j]
    BY <1>1, <2>1, <2>2, ExceptSeq
  <2>4. Chain(cs, e)
    BY <2>2, <2>3, SameShape
  <2>5. Parted(cs)
    BY <1>1, <2>2, <2>3, SMTT(30) DEF Parted
  <2>6. Used(cs) = Used(bs) \cup {b}
    BY <1>4, <2>2, <2>3 DEF Used
  <2>. QED
    BY <2>2, <2>4, <2>5, <2>6 DEF cs
<1>6. CASE Splits(s, n)
  <2>0. s.size > n + HeaderSize
    BY <1>6 DEF Splits
  <2>. DEFINE b == [s EXCEPT !.size = n, !.free = FALSE]
              c == [at |-> s.at + HeaderSize + n, size |-> s.size - n - HeaderSize, free |-> TRUE]
  <2>1. cs = SubSeq(bs, 1, i - 1) \o <<b, c>> \o SubSeq(bs, i + 1, L)
    BY <1>6 DEF Taken
  <2>2. b \in Block /\ b.at = s.at /\ b.size = n /\ ~b.free
    BY <1>4 DEF Block
  <2>3. c \in Block /\ c.at = s.at + HeaderSize + n /\ c.size = s.size - n - HeaderSize /\ c.free = TRUE
    BY <1>3, <1>4, <2>0, SMTT(30) DEF Block
  <2>4. c.size > 0 /\ c.size % Align = 0 /\ End(b) = c.at /\ End(c) = End(s)
    <3>. HIDE DEF s
    <3>1. s.size - n \in Nat /\ (s.size - n) % Align = 0
      <4>1. s.size \in Nat /\ n \in Nat /\ s.size % Align = 0 /\ n % Align = 0
        BY <1>4
      <4>2. (s.size - n) % Align = 0
        BY ONLY <4>1, AlignedSum, Zenon
      <4>3. s.size - n \in Nat
        BY <1>3, <1>4, <2>0
      <4>. QED
        BY <4>2, <4>3
    <3>2. (s.size - n - HeaderSize) % Align = 0
      <4>1. HeaderSize \in Nat
        BY <1>3
      <4>. QED
        BY ONLY <4>1, <1>3, <3>1, AlignedSum, Zenon
    <3>3. c.size % Align = 0
      BY <2>3, <3>2
    <3>4. End(b) = b.at + HeaderSize + b.size /\ End(c) = c.at + HeaderSize + c.size
      BY DEF End
    <3>. HIDE DEF b, c
    <3>. QED
      BY <1>3, <1>4, <2>0, <2>2, <2>3, <3>3, <3>4, SMTT(30)
  <2>. HIDE DEF b, c, cs
  <2>5. /\ cs \in Seq(Block) /\ Len(cs) = L + 1
        /\ \A j \in 1 .. i - 1 : cs[j] = bs[j]
        /\ cs[i] = b /\ cs[i + 1] = c
        /\ \A j \in i + 2 .. L + 1 : cs[j] = bs[j - 1]
    <3>1. bs \in Seq(Block) /\ b \in Block /\ c \in Block
      BY <1>1, <2>2, <2>3
    <3>0. PICK m : m = <<b, c>>
      OBVIOUS
    <3>4. m \in Seq(Block) /\ Len(m) = 2 /\ m[1] = b /\ m[2] = c
      BY <3>0, <3>1
    <3>. DEFINE u == SubSeq(bs, 1, i - 1) \o m \o SubSeq(bs, i + 1, Len(bs))
    <3>2. /\ u \in Seq(Block) /\ Len(u) = Len(bs) + 1
          /\ \A j \in 1 .. i - 1 : u[j] = bs[j]
          /\ u[i] = m[1] /\ u[i + 1] = m[2]
          /\ \A j \in i + 2 .. Len(bs) + 1 : u[j] = bs[j - 1]
      BY ONLY <3>1, <3>4, i \in 1 .. Len(bs), OneByTwo
    <3>3. cs = u
      BY <2>1, <3>0
    <3>. HIDE DEF u
    <3>. QED
      BY <3>2, <3>3, <3>4
  <2>6. \A j \in 1 .. L + 1 : j \in 1 .. i - 1 \/ j = i \/ j = i + 1 \/ j \in i + 2 .. L + 1
    BY <1>1
  <2>7. Chain(cs, e)
    <3>0. cs # <<>>
      BY <1>1, <2>5, EmptySeq
    <3>1. cs[1].at = 0
      <4>1. CASE i = 1
        BY <1>2, <2>2, <2>5, <4>1
      <4>2. CASE i # 1
        <5>1. 1 \in 1 .. i - 1
          BY <1>1, <4>2
        <5>. QED
          BY <1>2, <2>5, <5>1
      <4>. QED
        BY <4>1, <4>2
    <3>2. End(cs[L + 1]) = e
      <4>1. CASE i = L
        BY <1>2, <2>4, <2>5, <4>1
      <4>2. CASE i # L
        <5>1. L + 1 \in i + 2 .. L + 1 /\ L + 1 - 1 = L
          BY <1>1, <4>2
        <5>. QED
          BY <1>2, <2>5, <5>1
      <4>. QED
        BY <4>1, <4>2
    <3>3. ASSUME NEW j \in 1 .. L + 1 PROVE cs[j].size > 0 /\ cs[j].size % Align = 0
      <4>1. CASE j \in 1 .. i - 1
        <5>1. j \in 1 .. L
          BY <1>1, <4>1
        <5>2. cs[j] = bs[j]
          BY <2>5, <4>1
        <5>. QED
          BY <1>2, <5>1, <5>2
      <4>2. CASE j = i
        BY <2>2, <2>5, <4>2
      <4>3. CASE j = i + 1
        BY <2>4, <2>5, <4>3
      <4>4. CASE j \in i + 2 .. L + 1
        <5>1. j - 1 \in 1 .. L
          BY <1>1, <4>4
        <5>. QED
          BY <1>2, <2>5, <4>4, <5>1
      <4>. QED
        BY <2>6, <4>1, <4>2, <4>3, <4>4
    <3>4. ASSUME NEW j \in 1 .. L PROVE End(cs[j]) = cs[j + 1].at
      <4>1. CASE j < i - 1
        <5>1. j \in 1 .. i - 1 /\ j + 1 \in 1 .. i - 1 /\ j \in 1 .. L - 1
          BY <1>1, <4>1
        <5>. QED
          BY <1>2, <2>5, <5>1
      <4>2. CASE j = i - 1
        <5>1. j \in 1 .. i - 1 /\ j + 1 = i /\ j \in 1 .. L - 1
          BY <1>1, <4>2
        <5>. QED
          BY <1>2, <2>2, <2>5, <5>1
      <4>3. CASE j = i
        BY <2>4, <2>5, <4>3
      <4>4. CASE j = i + 1
        <5>1. j + 1 \in i + 2 .. L + 1 /\ j + 1 - 1 = i + 1 /\ i \in 1 .. L - 1
          BY <1>1, <4>4
        <5>. QED
          BY <1>2, <2>4, <2>5, <4>4, <5>1
      <4>5. CASE j > i + 1
        <5>1. /\ j \in i + 2 .. L + 1 /\ j + 1 \in i + 2 .. L + 1 /\ j - 1 \in 1 .. L - 1
              /\ j + 1 - 1 = j - 1 + 1
          BY <1>1, <4>5
        <5>2. cs[j] = bs[j - 1] /\ cs[j + 1] = bs[j - 1 + 1]
          BY <2>5, <5>1
        <5>. QED
          BY <1>2, <5>1, <5>2
      <4>. QED
        BY <1>1, <4>1, <4>2, <4>3, <4>4, <4>5
    <3>5. ASSUME NEW j \in 1 .. L + 1
          PROVE  LET k == IF j <= i THEN j ELSE j - 1 IN
                   k \in 1 .. L /\ bs[k].at <= cs[j].at /\ End(cs[j]) <= End(bs[k])
      <4>0. s.at <= c.at /\ End(b) <= End(s)
        BY <1>3, <1>4, <2>0, <2>2, <2>3, <2>4
      <4>1. CASE j \in 1 .. i - 1
        <5>1. j <= i /\ j \in 1 .. L
          BY <1>1, <4>1
        <5>. QED
          BY <1>1, <2>5, <4>1, <5>1
      <4>2. CASE j = i
        BY <1>1, <1>4, <2>2, <2>5, <4>0, <4>2
      <4>3. CASE j = i + 1
        <5>1. ~(j <= i) /\ j - 1 = i
          BY <1>1, <4>3
        <5>. QED
          BY <1>1, <1>4, <2>4, <2>5, <4>0, <4>3, <5>1
      <4>4. CASE j \in i + 2 .. L + 1
        <5>1. ~(j <= i) /\ j - 1 \in 1 .. L
          BY <1>1, <4>4
        <5>2. cs[j] = bs[j - 1] /\ bs[j - 1].at \in Nat /\ End(bs[j - 1]) \in Nat
          BY <1>1, <2>5, <4>4, <5>1
        <5>. QED
          BY <5>1, <5>2
      <4>. QED
        BY <2>6, <4>1, <4>2, <4>3, <4>4
    <3>6. ASSUME NEW x \in 1 .. L + 1, NEW y \in 1 .. L + 1, x < y
          PROVE  End(cs[x]) <= cs[y].at
      <4>. DEFINE kx == IF x <= i THEN x ELSE x - 1
                  ky == IF y <= i THEN y ELSE y - 1
      <4>1. CASE x = i /\ y = i + 1
        BY <1>1, <1>3, <1>4, <2>2, <2>3, <2>4, <2>5, <4>1, SMTT(30)
      <4>2. CASE ~(x = i /\ y = i + 1)
        <5>1. kx < ky
          BY <1>1, <3>6, <4>2
        <5>2. kx \in 1 .. L /\ End(cs[x]) <= End(bs[kx])
          BY <3>5
        <5>3. ky \in 1 .. L /\ bs[ky].at <= cs[y].at
          BY <3>5
        <5>. HIDE DEF kx, ky
        <5>4. End(bs[kx]) <= bs[ky].at
          BY <1>2, <5>1, <5>2, <5>3
        <5>5. cs[x] \in Block /\ cs[y] \in Block
          BY <1>1, <2>5, ElementOfSeq
        <5>6. cs[y].at \in Nat /\ bs[ky].at \in Nat /\ End(bs[kx]) \in Nat
          BY <1>1, <5>2, <5>3, <5>5 DEF Block
        <5>7. End(cs[x]) \in Nat
          BY <1>3, <5>5, SMTT(30) DEF End, Block
        <5>. QED
          BY <5>2, <5>3, <5>4, <5>6, <5>7, SMTT(30)
      <4>. QED
        BY <4>1, <4>2
    <3>7. L + 1 - 1 = L
      BY <1>1
    <3>. QED
      BY <2>5, <3>0, <3>1, <3>2, <3>3, <3>4, <3>6, <3>7 DEF Chain
  <2>8. Parted(cs)
    <3>1. ASSUME NEW j \in 1 .. L, cs[j].free PROVE ~cs[j + 1].free
      <4>1. CASE j < i - 1
        <5>1. j \in 1 .. i - 1 /\ j + 1 \in 1 .. i - 1 /\ j \in 1 .. L - 1
          BY <1>1, <4>1
        <5>. QED
          BY <2>5, <3>1, <5>1 DEF Parted
      <4>2. CASE j = i - 1 \/ j = i
        BY <1>1, <2>2, <2>5, <3>1, <4>2
      <4>4. CASE j = i + 1
        <5>1. j + 1 \in i + 2 .. L + 1 /\ j + 1 - 1 = i + 1 /\ i \in 1 .. L - 1
          BY <1>1, <4>4
        <5>2. cs[j + 1] = bs[j + 1 - 1]
          BY <2>5, <5>1
        <5>3. cs[j + 1] = bs[i + 1]
          BY ONLY <5>1, <5>2
        <5>4. bs[i].free
          BY <1>4
        <5>5. ~bs[i + 1].free
          BY <5>1, <5>4, Zenon DEF Parted
        <5>. QED
          BY <5>3, <5>5, Zenon
      <4>5. CASE j > i + 1
        <5>1. /\ j \in i + 2 .. L + 1 /\ j + 1 \in i + 2 .. L + 1 /\ j - 1 \in 1 .. L - 1
              /\ j + 1 - 1 = j - 1 + 1
          BY <1>1, <4>5
        <5>2. cs[j] = bs[j - 1] /\ cs[j + 1] = bs[j - 1 + 1]
          BY <2>5, <5>1
        <5>. QED
          BY <3>1, <5>1, <5>2 DEF Parted
      <4>. QED
        BY <1>1, <4>1, <4>2, <4>4, <4>5
    <3>2. Len(cs) - 1 = L
      BY <1>1, <2>5
    <3>. QED
      BY <3>1, <3>2 DEF Parted
  <2>9. Used(cs) = Used(bs) \cup {b}
    <3>1. ASSUME NEW u \in Used(cs) PROVE u \in Used(bs) \cup {b}
      <4>1. PICK j \in 1 .. L + 1 : u = cs[j] /\ ~cs[j].free
        BY <2>5 DEF Used
      <4>2. CASE j \in 1 .. i - 1
        <5>1. j \in 1 .. L
          BY <1>1, <4>2
        <5>. QED
          BY <2>5, <4>1, <4>2, <5>1 DEF Used
      <4>3. CASE j = i \/ j = i + 1
        BY <2>3, <2>5, <4>1, <4>3
      <4>4. CASE j \in i + 2 .. L + 1
        <5>1. j - 1 \in 1 .. L
          BY <1>1, <4>4
        <5>. QED
          BY <2>5, <4>1, <4>4, <5>1 DEF Used
      <4>. QED
        BY <2>6, <4>2, <4>3, <4>4
    <3>2. ASSUME NEW u \in Used(bs) PROVE u \in Used(cs)
      <4>1. PICK j \in 1 .. L : u = bs[j] /\ ~bs[j].free
        BY DEF Used
      <4>2. CASE j < i
        <5>1. j \in 1 .. i - 1 /\ j \in 1 .. L + 1
          BY <1>1, <4>2
        <5>. QED
          BY <2>5, <4>1, <5>1 DEF Used
      <4>3. CASE j > i
        <5>1. j + 1 \in i + 2 .. L + 1 /\ j + 1 - 1 = j /\ j + 1 \in 1 .. L + 1
          BY <1>1, <4>3
        <5>2. cs[j + 1] = bs[j]
          BY <2>5, <5>1
        <5>. QED
          BY <2>5, <4>1, <5>1, <5>2 DEF Used
      <4>. QED
        BY <1>1, <1>4, <4>1, <4>2, <4>3
    <3>3. b \in Used(cs)
      <4>1. i \in 1 .. L + 1
        BY <1>1
      <4>. QED
        BY <2>2, <2>5, <4>1 DEF Used
    <3>. QED
      BY <3>1, <3>2, <3>3
  <2>10. b.size >= n
    BY <2>2
  <2>. QED
    BY <2>2, <2>7, <2>8, <2>9, <2>10 DEF cs
<1>. QED
  BY <1>5, <1>6

Ats(bs) == {bs[i].at : i \in 1 .. Len(bs)}

(* Two free neighbours become one free block: still a chain, with the same *)
(* blocks in use and no new header.                                        *)
LEMMA JoinedChain ==
  ASSUME NEW bs, NEW e, Chain(bs, e), NEW i \in 1 .. Len(bs) - 1, bs[i].free, bs[i + 1].free
  PROVE  LET cs == Joined(bs, i) IN
         /\ Chain(cs, e) /\ Used(cs) = Used(bs) /\ Ats(cs) \subseteq Ats(bs)
         /\ Len(cs) = Len(bs) - 1 /\ cs[i].free
         /\ \A j \in 1 .. i - 1 : cs[j] = bs[j]
         /\ \A j \in i + 1 .. Len(bs) - 1 : cs[j] = bs[j + 1]
<1>. DEFINE L == Len(bs)
            s == bs[i]
            t == bs[i + 1]
            b == [s EXCEPT !.size = @ + HeaderSize + t.size]
            cs == Joined(bs, i)
<1>1. /\ bs \in Seq(Block) /\ L \in Nat \ {0} /\ e \in Nat
      /\ \A j \in 1 .. L : /\ bs[j] \in Block /\ bs[j].at \in Nat /\ bs[j].size \in Nat
                           /\ bs[j].free \in BOOLEAN /\ End(bs[j]) \in Nat
                           /\ End(bs[j]) = bs[j].at + HeaderSize + bs[j].size
  BY ChainTypes
<1>2. /\ bs[1].at = 0 /\ End(bs[L]) = e
      /\ \A j \in 1 .. L : bs[j].size > 0 /\ bs[j].size % Align = 0
      /\ \A j \in 1 .. L - 1 : End(bs[j]) = bs[j + 1].at
      /\ \A x, y \in 1 .. L : x < y => End(bs[x]) <= bs[y].at
  BY ChainParts
<1>3. HeaderSize \in Nat \ {0} /\ HeaderSize % Align = 0
  BY Layout
<1>4. i \in 1 .. L /\ i + 1 \in 1 .. L
  BY <1>1
<1>5. /\ s \in Block /\ s.at \in Nat /\ s.size \in Nat /\ s.free = TRUE /\ s.size > 0
      /\ s.size % Align = 0 /\ End(s) = s.at + HeaderSize + s.size /\ End(s) = t.at
  BY <1>1, <1>2, <1>4
<1>6. /\ t \in Block /\ t.at \in Nat /\ t.size \in Nat /\ t.free = TRUE /\ t.size > 0
      /\ t.size % Align = 0 /\ End(t) = t.at + HeaderSize + t.size
  BY <1>1, <1>2, <1>4
<1>7. b \in Block /\ b.at = s.at /\ b.size = s.size + HeaderSize + t.size /\ b.free = TRUE
  <2>1. s \in Block /\ s.size + HeaderSize + t.size \in Nat
    BY <1>3, <1>5, <1>6, SMTT(30)
  <2>. QED
    BY <1>5, <2>1, Resized
<1>8. b.size > 0 /\ b.size % Align = 0 /\ End(b) = End(t)
  <2>1. (s.size + HeaderSize + t.size) % Align = 0
    <3>1. s.size \in Nat /\ HeaderSize \in Nat /\ t.size \in Nat /\ s.size + HeaderSize \in Nat
      BY <1>3, <1>5, <1>6
    <3>2. s.size % Align = 0 /\ HeaderSize % Align = 0 /\ t.size % Align = 0
      BY <1>3, <1>5, <1>6
    <3>3. (s.size + HeaderSize) % Align = 0
      BY ONLY <3>1, <3>2, AlignedSum, Zenon
    <3>. QED
      BY ONLY <3>1, <3>2, <3>3, AlignedSum, Zenon
  <2>2. b.size % Align = 0
    BY <1>7, <2>1
  <2>3. End(b) = b.at + HeaderSize + b.size
    BY DEF End
  <2>4. /\ HeaderSize \in Nat /\ s.at \in Nat /\ s.size \in Nat /\ s.size > 0 /\ t.size \in Nat
        /\ t.at = s.at + HeaderSize + s.size /\ End(t) = t.at + HeaderSize + t.size
        /\ b.at = s.at /\ b.size = s.size + HeaderSize + t.size
    BY <1>3, <1>5, <1>6, <1>7, Zenon
  <2>. HIDE DEF b, s, t
  <2>5. b.size > 0 /\ End(b) = End(t)
    BY ONLY <2>3, <2>4, SMTT(30)
  <2>. QED
    BY <2>2, <2>5
<1>9. cs = SubSeq(bs, 1, i - 1) \o <<b>> \o SubSeq(bs, i + 2, L)
  BY DEF Joined
<1>. HIDE DEF b, cs
<1>10. /\ cs \in Seq(Block) /\ Len(cs) = L - 1
       /\ \A j \in 1 .. i - 1 : cs[j] = bs[j]
       /\ cs[i] = b
       /\ \A j \in i + 1 .. L - 1 : cs[j] = bs[j + 1]
  <2>1. bs \in Seq(Block) /\ b \in Block
    BY <1>1, <1>7
  <2>2. PICK m : m = <<b>>
    OBVIOUS
  <2>3. m \in Seq(Block) /\ Len(m) = 1 /\ m[1] = b
    BY <2>1, <2>2
  <2>. DEFINE u == SubSeq(bs, 1, i - 1) \o m \o SubSeq(bs, i + 2, Len(bs))
  <2>4. /\ u \in Seq(Block) /\ Len(u) = Len(bs) - 1
        /\ \A j \in 1 .. i - 1 : u[j] = bs[j]
        /\ u[i] = m[1]
        /\ \A j \in i + 1 .. Len(bs) - 1 : u[j] = bs[j + 1]
    BY ONLY <2>1, <2>3, i \in 1 .. Len(bs) - 1, TwoByOne
  <2>5. cs = u
    BY <1>9, <2>2
  <2>. HIDE DEF u
  <2>. QED
    BY <2>3, <2>4, <2>5
<1>11. \A j \in 1 .. L - 1 : j \in 1 .. i - 1 \/ j = i \/ j \in i + 1 .. L - 1
  BY <1>1
<1>12. Chain(cs, e)
  <2>0. cs # <<>>
    <3>1. L - 1 # 0
      BY <1>1
    <3>. QED
      BY <1>10, <3>1, EmptySeq
  <2>1. cs[1].at = 0
    <3>1. CASE i = 1
      BY <1>2, <1>7, <1>10, <3>1
    <3>2. CASE i # 1
      <4>1. 1 \in 1 .. i - 1
        BY <1>1, <3>2
      <4>. QED
        BY <1>2, <1>10, <4>1
    <3>. QED
      BY <3>1, <3>2
  <2>2. End(cs[L - 1]) = e
    <3>1. CASE i = L - 1
      <4>1. i + 1 = L
        BY <1>1, <3>1
      <4>. QED
        BY <1>2, <1>8, <1>10, <3>1, <4>1
    <3>2. CASE i # L - 1
      <4>1. L - 1 \in i + 1 .. L - 1 /\ L - 1 + 1 = L
        BY <1>1, <3>2
      <4>. QED
        BY <1>2, <1>10, <4>1
    <3>. QED
      BY <3>1, <3>2
  <2>3. ASSUME NEW j \in 1 .. L - 1 PROVE cs[j].size > 0 /\ cs[j].size % Align = 0
    <3>1. CASE j \in 1 .. i - 1
      <4>1. j \in 1 .. L /\ cs[j] = bs[j]
        BY <1>1, <1>10, <3>1
      <4>. QED
        BY <1>2, <4>1
    <3>2. CASE j = i
      BY <1>8, <1>10, <3>2
    <3>3. CASE j \in i + 1 .. L - 1
      <4>1. j + 1 \in 1 .. L /\ cs[j] = bs[j + 1]
        BY <1>1, <1>10, <3>3
      <4>. QED
        BY <1>2, <4>1
    <3>. QED
      BY <1>11, <3>1, <3>2, <3>3
  <2>4. ASSUME NEW j \in 1 .. L - 2 PROVE End(cs[j]) = cs[j + 1].at
    <3>1. CASE j < i - 1
      <4>1. j \in 1 .. i - 1 /\ j + 1 \in 1 .. i - 1 /\ j \in 1 .. L - 1
        BY <1>1, <3>1
      <4>. QED
        BY <1>2, <1>10, <4>1
    <3>2. CASE j = i - 1
      <4>1. j \in 1 .. i - 1 /\ j + 1 = i /\ j \in 1 .. L - 1
        BY <1>1, <3>2
      <4>2. cs[j] = bs[j] /\ cs[j + 1] = b /\ End(bs[j]) = bs[j + 1].at
        BY <1>2, <1>10, <4>1
      <4>. QED
        BY <1>7, <4>1, <4>2
    <3>3. CASE j = i
      <4>1. j + 1 \in i + 1 .. L - 1 /\ i + 1 \in 1 .. L - 1 /\ i + 1 + 1 = j + 1 + 1
        BY <1>1, <3>3
      <4>2. cs[j] = b /\ cs[j + 1] = bs[j + 1 + 1] /\ End(bs[i + 1]) = bs[i + 1 + 1].at
        BY <1>2, <1>10, <3>3, <4>1
      <4>. QED
        BY <1>8, <3>3, <4>2
    <3>4. CASE j > i
      <4>1. j \in i + 1 .. L - 1 /\ j + 1 \in i + 1 .. L - 1 /\ j + 1 \in 1 .. L - 1
        BY <1>1, <3>4
      <4>2. cs[j] = bs[j + 1] /\ cs[j + 1] = bs[j + 1 + 1]
        BY <1>10, <4>1
      <4>. QED
        BY <1>2, <4>1, <4>2
    <3>. QED
      BY <1>1, <3>1, <3>2, <3>3, <3>4
  <2>5. ASSUME NEW j \in 1 .. L - 1
        PROVE  /\ \E k \in 1 .. L : (IF j <= i THEN k = j ELSE k = j + 1) /\ bs[k].at = cs[j].at
               /\ \E k \in 1 .. L : (IF j < i THEN k = j ELSE k = j + 1) /\ End(cs[j]) = End(bs[k])
    <3>1. CASE j \in 1 .. i - 1
      <4>1. j <= i /\ j < i /\ j \in 1 .. L
        BY <1>1, <3>1
      <4>2. cs[j] = bs[j]
        BY <1>10, <3>1
      <4>. QED
        BY <4>1, <4>2
    <3>2. CASE j = i
      <4>1. cs[i].at = bs[i].at /\ End(cs[i]) = End(bs[i + 1])
        BY <1>7, <1>8, <1>10
      <4>. QED
        BY <1>4, <3>2, <4>1
    <3>3. CASE j \in i + 1 .. L - 1
      <4>1. ~(j <= i) /\ ~(j < i) /\ j + 1 \in 1 .. L /\ cs[j] = bs[j + 1]
        BY <1>1, <1>10, <3>3
      <4>. QED
        BY <4>1
    <3>. QED
      BY <1>11, <3>1, <3>2, <3>3
  <2>6. ASSUME NEW x \in 1 .. L - 1, NEW y \in 1 .. L - 1, x < y
        PROVE  End(cs[x]) <= cs[y].at
    <3>1. PICK k \in 1 .. L : (IF x < i THEN k = x ELSE k = x + 1) /\ End(cs[x]) = End(bs[k])
      BY <2>5
    <3>2. PICK l \in 1 .. L : (IF y <= i THEN l = y ELSE l = y + 1) /\ bs[l].at = cs[y].at
      BY <2>5
    <3>3. k < l
      BY <1>1, <2>6, <3>1, <3>2, SMTT(30)
    <3>. QED
      BY <1>2, <3>1, <3>2, <3>3
  <2>7. L - 1 - 1 = L - 2
    BY <1>1
  <2>. QED
    BY <1>10, <2>0, <2>1, <2>2, <2>3, <2>4, <2>6, <2>7 DEF Chain
<1>13. Ats(cs) \subseteq Ats(bs)
  <2>1. ASSUME NEW j \in 1 .. L - 1 PROVE \E k \in 1 .. L : bs[k].at = cs[j].at
    <3>1. CASE j \in 1 .. i - 1
      <4>1. j \in 1 .. L /\ cs[j] = bs[j]
        BY <1>1, <1>10, <3>1
      <4>. QED
        BY <4>1
    <3>2. CASE j = i
      BY <1>4, <1>7, <1>10, <3>2
    <3>3. CASE j \in i + 1 .. L - 1
      <4>1. j + 1 \in 1 .. L /\ cs[j] = bs[j + 1]
        BY <1>1, <1>10, <3>3
      <4>. QED
        BY <4>1
    <3>. QED
      BY <1>11, <3>1, <3>2, <3>3
  <2>2. ASSUME NEW a \in Ats(cs) PROVE a \in Ats(bs)
    <3>1. PICK j \in 1 .. L - 1 : a = cs[j].at
      BY <1>10 DEF Ats
    <3>2. PICK k \in 1 .. L : bs[k].at = cs[j].at
      BY <2>1
    <3>. QED
      BY <3>1, <3>2 DEF Ats
  <2>. QED
    BY <2>2
<1>14. Used(cs) = Used(bs)
  <2>1. ASSUME NEW u \in Used(cs) PROVE u \in Used(bs)
    <3>1. PICK j \in 1 .. L - 1 : u = cs[j] /\ ~cs[j].free
      BY <1>10 DEF Used
    <3>2. CASE j \in 1 .. i - 1
      <4>1. j \in 1 .. L /\ cs[j] = bs[j]
        BY <1>1, <1>10, <3>2
      <4>. QED
        BY <3>1, <4>1 DEF Used
    <3>3. CASE j = i
      BY <1>7, <1>10, <3>1, <3>3
    <3>4. CASE j \in i + 1 .. L - 1
      <4>1. j + 1 \in 1 .. L /\ cs[j] = bs[j + 1]
        BY <1>1, <1>10, <3>4
      <4>. QED
        BY <3>1, <4>1 DEF Used
    <3>. QED
      BY <1>11, <3>2, <3>3, <3>4
  <2>2. ASSUME NEW u \in Used(bs) PROVE u \in Used(cs)
    <3>1. PICK j \in 1 .. L : u = bs[j] /\ ~bs[j].free
      BY DEF Used
    <3>2. CASE j < i
      <4>1. j \in 1 .. i - 1 /\ j \in 1 .. L - 1
        BY <1>1, <3>2
      <4>. QED
        BY <1>10, <3>1, <4>1 DEF Used
    <3>3. CASE j > i + 1
      <4>1. j - 1 \in i + 1 .. L - 1 /\ j - 1 + 1 = j /\ j - 1 \in 1 .. L - 1
        BY <1>1, <3>3
      <4>2. cs[j - 1] = bs[j]
        BY <1>10, <4>1
      <4>. QED
        BY <1>10, <3>1, <4>1, <4>2 DEF Used
    <3>4. j # i /\ j # i + 1
      BY <1>5, <1>6, <3>1
    <3>. QED
      BY <1>1, <3>2, <3>3, <3>4
  <2>. QED
    BY <2>1, <2>2
<1>15. cs[i].free
  BY <1>7, <1>10
<1>16. /\ Chain(cs, e) /\ Used(cs) = Used(bs) /\ Ats(cs) \subseteq Ats(bs)
       /\ Len(cs) = Len(bs) - 1 /\ cs[i].free
       /\ \A j \in 1 .. i - 1 : cs[j] = bs[j]
       /\ \A j \in i + 1 .. Len(bs) - 1 : cs[j] = bs[j + 1]
  BY <1>10, <1>12, <1>13, <1>14, <1>15
<1>. QED
  BY <1>16 DEF cs

(* A free block with a free one after it only there: joined, no two free   *)
(* blocks are neighbours.                                                  *)
LEMMA JoinNextChain ==
  ASSUME NEW bs, NEW e, Chain(bs, e), NEW i \in 1 .. Len(bs), bs[i].free,
         \A j \in 1 .. Len(bs) - 1 : j # i /\ bs[j].free => ~bs[j + 1].free
  PROVE  LET cs == JoinNext(bs, i) IN
         Chain(cs, e) /\ Parted(cs) /\ Used(cs) = Used(bs) /\ Ats(cs) \subseteq Ats(bs)
<1>. DEFINE L == Len(bs)
<1>1. L \in Nat \ {0} /\ \A j \in 1 .. L : bs[j].free \in BOOLEAN
  BY ChainTypes
<1>2. CASE i < L /\ bs[i + 1].free
  <2>. DEFINE cs == Joined(bs, i)
  <2>1. i \in 1 .. L - 1
    BY <1>1, <1>2
  <2>2. /\ Chain(cs, e) /\ Used(cs) = Used(bs) /\ Ats(cs) \subseteq Ats(bs)
        /\ Len(cs) = Len(bs) - 1 /\ cs[i].free
        /\ \A j \in 1 .. i - 1 : cs[j] = bs[j]
        /\ \A j \in i + 1 .. Len(bs) - 1 : cs[j] = bs[j + 1]
    BY <1>2, <2>1, JoinedChain
  <2>3. JoinNext(bs, i) = cs
    BY <1>2 DEF JoinNext
  <2>. HIDE DEF cs
  <2>4. ASSUME NEW j \in 1 .. L - 2, cs[j].free PROVE ~cs[j + 1].free
    <3>1. CASE j < i - 1
      <4>1. /\ j \in 1 .. i - 1 /\ j + 1 \in 1 .. i - 1 /\ j \in 1 .. L - 1 /\ j # i
        BY <1>1, <3>1
      <4>2. cs[j] = bs[j] /\ cs[j + 1] = bs[j + 1]
        BY <2>2, <4>1
      <4>. QED
        BY <2>4, <4>1, <4>2
    <3>2. CASE j = i - 1
      <4>1. j \in 1 .. i - 1 /\ j \in 1 .. L - 1 /\ j # i /\ j + 1 = i
        BY <1>1, <3>2
      <4>2. cs[j] = bs[j]
        BY <2>2, <4>1
      <4>. QED
        BY <2>4, <4>1, <4>2
    <3>3. CASE j = i
      <4>1. j + 1 \in i + 1 .. L - 1 /\ j + 1 \in 1 .. L - 1 /\ j + 1 # i
        BY <1>1, <3>3
      <4>2. cs[j + 1] = bs[j + 1 + 1]
        BY <2>2, <4>1
      <4>. QED
        BY <1>2, <3>3, <4>1, <4>2
    <3>4. CASE j > i
      <4>1. j \in i + 1 .. L - 1 /\ j + 1 \in i + 1 .. L - 1 /\ j + 1 \in 1 .. L - 1 /\ j + 1 # i
        BY <1>1, <3>4
      <4>2. cs[j] = bs[j + 1] /\ cs[j + 1] = bs[j + 1 + 1]
        BY <2>2, <4>1
      <4>. QED
        BY <2>4, <4>1, <4>2
    <3>. QED
      BY <1>1, <3>1, <3>2, <3>3, <3>4
  <2>5. Len(cs) - 1 = L - 2
    BY <1>1, <2>2
  <2>6. Parted(cs)
    BY <2>4, <2>5 DEF Parted
  <2>. QED
    BY <2>2, <2>3, <2>6
<1>3. CASE ~(i < L /\ bs[i + 1].free)
  <2>1. JoinNext(bs, i) = bs
    BY <1>3 DEF JoinNext
  <2>2. Parted(bs)
    BY <1>1, <1>3 DEF Parted
  <2>. QED
    BY <2>1, <2>2
<1>. QED
  BY <1>2, <1>3

(* kfree: the block freed is the only one no longer in use, free           *)
(* neighbours are joined, and no header is new.                            *)
LEMMA FreedChain ==
  ASSUME NEW bs, NEW e, Chain(bs, e), Parted(bs), NEW i \in 1 .. Len(bs), ~bs[i].free
  PROVE  LET cs == Freed(bs, i) IN
         /\ Chain(cs, e) /\ Parted(cs) /\ Used(cs) = Used(bs) \ {bs[i]} /\ Ats(cs) \subseteq Ats(bs)
<1>. DEFINE L == Len(bs)
            b == [bs[i] EXCEPT !.free = TRUE]
            f == [bs EXCEPT ![i].free = TRUE]
<1>1. /\ bs \in Seq(Block) /\ L \in Nat \ {0} /\ i \in 1 .. L
      /\ \A j \in 1 .. L : bs[j] \in Block /\ bs[j].free \in BOOLEAN
  BY ChainTypes
<1>2. b \in Block /\ b.at = bs[i].at /\ b.size = bs[i].size /\ b.free = TRUE
  BY <1>1, Marked
<1>3. f = [bs EXCEPT ![i] = b]
  OBVIOUS
<1>. HIDE DEF b, f
<1>4. f \in Seq(Block) /\ Len(f) = L /\ \A j \in 1 .. L : f[j] = IF j = i THEN b ELSE bs[j]
  BY <1>1, <1>2, <1>3, ExceptSeq
<1>5. Chain(f, e)
  BY <1>2, <1>4, SameShape
<1>6. Ats(f) = Ats(bs)
  <2>1. \A j \in 1 .. L : f[j].at = bs[j].at
    BY <1>2, <1>4
  <2>. QED
    BY <1>4, <2>1 DEF Ats
<1>7. Used(f) = Used(bs) \ {bs[i]}
  <2>1. \A j \in 1 .. L : bs[j] = bs[i] => j = i
    BY BlocksApart
  <2>2. f[i].free /\ \A j \in 1 .. L : j # i => f[j] = bs[j]
    BY <1>1, <1>2, <1>4
  <2>. QED
    BY <1>4, <2>1, <2>2 DEF Used
<1>8. f[i].free /\ \A j \in 1 .. L : j # i => f[j] = bs[j]
  BY <1>1, <1>2, <1>4
<1>9. \A j \in 1 .. L - 1 : j # i /\ j + 1 # i /\ f[j].free => ~f[j + 1].free
  <2>1. ASSUME NEW j \in 1 .. L - 1, j # i, j + 1 # i, f[j].free PROVE ~f[j + 1].free
    <3>1. j \in 1 .. L /\ j + 1 \in 1 .. L
      BY <1>1
    <3>2. f[j] = bs[j] /\ f[j + 1] = bs[j + 1]
      BY <1>8, <2>1, <3>1
    <3>. QED
      BY <2>1, <3>2 DEF Parted
  <2>. QED
    BY <2>1
<1>10. CASE i > 1 /\ f[i - 1].free
  <2>. DEFINE p == i - 1
              g == Joined(f, p)
  <2>1. p \in 1 .. L - 1 /\ p + 1 = i
    BY <1>1, <1>10
  <2>2. Freed(bs, i) = JoinNext(g, p)
    BY <1>10 DEF Freed, f
  <2>. HIDE DEF p
  <2>3. p \in 1 .. Len(f) - 1 /\ f[p].free /\ f[p + 1].free
    BY <1>4, <1>8, <1>10, <2>1 DEF p
  <2>4. /\ Chain(g, e) /\ Used(g) = Used(f) /\ Ats(g) \subseteq Ats(f)
        /\ Len(g) = Len(f) - 1 /\ g[p].free
        /\ \A j \in 1 .. p - 1 : g[j] = f[j]
        /\ \A j \in p + 1 .. Len(f) - 1 : g[j] = f[j + 1]
    BY <1>5, <2>3, JoinedChain
  <2>. HIDE DEF g
  <2>5. ASSUME NEW j \in 1 .. Len(g) - 1, j # p, g[j].free PROVE ~g[j + 1].free
    <3>0. Len(g) = L - 1
      BY <1>4, <2>4
    <3>1. CASE j < p - 1
      <4>1. j \in 1 .. p - 1 /\ j + 1 \in 1 .. p - 1 /\ j \in 1 .. L - 1 /\ j # i /\ j + 1 # i
        BY <1>1, <2>1, <3>0, <3>1
      <4>2. g[j] = f[j] /\ g[j + 1] = f[j + 1]
        BY <2>4, <4>1
      <4>. QED
        BY <1>9, <2>5, <4>1, <4>2
    <3>2. CASE j = p - 1
      <4>1. j \in 1 .. p - 1 /\ j \in 1 .. L - 1 /\ j # i /\ j + 1 # i /\ j + 1 = p
        BY <1>1, <2>1, <3>0, <3>2
      <4>2. g[j] = f[j] /\ f[j + 1].free
        BY <2>3, <2>4, <4>1
      <4>. QED
        BY <1>9, <2>5, <4>1, <4>2
    <3>3. CASE j > p
      <4>1. /\ j \in p + 1 .. L - 1 /\ j + 1 \in p + 1 .. L - 1 /\ j + 1 \in 1 .. L - 1
            /\ j + 1 # i /\ j + 1 + 1 # i
        BY <1>1, <2>1, <3>0, <3>3
      <4>2. g[j] = f[j + 1] /\ g[j + 1] = f[j + 1 + 1]
        BY <1>4, <2>4, <4>1
      <4>. QED
        BY <1>9, <2>5, <4>1, <4>2
    <3>. QED
      BY <1>1, <2>1, <2>5, <3>0, <3>1, <3>2, <3>3
  <2>6. p \in 1 .. Len(g)
    BY <1>1, <1>4, <2>1, <2>4
  <2>7. /\ Chain(JoinNext(g, p), e) /\ Parted(JoinNext(g, p))
        /\ Used(JoinNext(g, p)) = Used(g) /\ Ats(JoinNext(g, p)) \subseteq Ats(g)
    BY <2>4, <2>5, <2>6, JoinNextChain
  <2>. QED
    BY <1>6, <1>7, <2>2, <2>4, <2>7
<1>11. CASE ~(i > 1 /\ f[i - 1].free)
  <2>1. Freed(bs, i) = JoinNext(f, i)
    BY <1>11 DEF Freed, f
  <2>2. ASSUME NEW j \in 1 .. Len(f) - 1, j # i, f[j].free PROVE ~f[j + 1].free
    <3>1. CASE j + 1 = i
      <4>1. i > 1 /\ i - 1 = j
        BY <1>1, <1>4, <3>1
      <4>. QED
        BY <1>11, <2>2, <4>1
    <3>2. CASE j + 1 # i
      BY <1>4, <1>9, <2>2, <3>2
    <3>. QED
      BY <3>1, <3>2
  <2>3. i \in 1 .. Len(f)
    BY <1>1, <1>4
  <2>4. /\ Chain(JoinNext(f, i), e) /\ Parted(JoinNext(f, i))
        /\ Used(JoinNext(f, i)) = Used(f) /\ Ats(JoinNext(f, i)) \subseteq Ats(f)
    BY <1>5, <1>8, <2>2, <2>3, JoinNextChain
  <2>. QED
    BY <1>6, <1>7, <2>1, <2>4
<1>. QED
  BY <1>10, <1>11

(* The first block that fits is one of those that fit.                     *)
LEMMA FirstIsIn ==
  ASSUME NEW S \in SUBSET Nat, S # {}
  PROVE  First(S) \in S
<1>1. PICK x \in S : \A y \in S : ~ (<<y, x>> \in OpToRel(<, Nat))
  BY NatLessThanWellFounded, WFMin
<1>2. \A y \in S : ~ (y < x)
  BY <1>1 DEF OpToRel
<1>3. \A y \in S : x <= y
  BY <1>2
<1>. QED
  BY <1>3 DEF First

(* The end of a chain is the largest.                                      *)
LEMMA EndsWithin ==
  ASSUME NEW bs, NEW e, Chain(bs, e), NEW i \in 1 .. Len(bs)
  PROVE  End(bs[i]) <= e
<1>1. /\ Len(bs) \in Nat \ {0} /\ e \in Nat /\ HeaderSize \in Nat
      /\ \A j \in 1 .. Len(bs) : /\ bs[j].at \in Nat /\ bs[j].size \in Nat /\ End(bs[j]) \in Nat
                                 /\ End(bs[j]) = bs[j].at + HeaderSize + bs[j].size
  BY ChainTypes, Layout
<1>2. End(bs[Len(bs)]) = e /\ \A x, y \in 1 .. Len(bs) : x < y => End(bs[x]) <= bs[y].at
  BY ChainParts
<1>3. CASE i = Len(bs)
  BY <1>1, <1>2, <1>3
<1>4. CASE i < Len(bs)
  <2>1. Len(bs) \in 1 .. Len(bs)
    BY <1>1
  <2>2. End(bs[i]) <= bs[Len(bs)].at
    BY <1>2, <1>4, <2>1
  <2>3. \A x \in Nat : x <= x + HeaderSize + bs[Len(bs)].size
    BY <1>1, <2>1
  <2>4. bs[Len(bs)].at \in Nat /\ End(bs[i]) \in Nat
    BY <1>1, <2>1
  <2>5. e = bs[Len(bs)].at + HeaderSize + bs[Len(bs)].size
    BY <1>1, <1>2, <2>1
  <2>6. bs[Len(bs)].at <= e
    BY <2>3, <2>4, <2>5
  <2>. QED
    BY <1>1, <2>2, <2>4, <2>6
<1>. QED
  BY <1>1, <1>3, <1>4

-----------------------------------------------------------------------------
Contents == [0 .. MaxEnd - 1 -> Owners \cup {Header, "any"}]
Holding == [Owners -> [ptr : Nat, n : Sizes \cup {0}]]

(* The bytes an owner may use.                                             *)
BytesOf(h, o) == h[o].ptr .. h[o].ptr + h[o].n - 1

(* Each owner has a used block of its own, large enough.                   *)
HeldIn(bs, h) ==
  /\ \A o \in Owners : h[o] # Nothing =>
        /\ h[o].n > 0
        /\ \E b \in Used(bs) : b.at + HeaderSize = h[o].ptr /\ h[o].n <= b.size
  /\ \A o, q \in Owners : h[o] # Nothing /\ h[q] # Nothing /\ h[o].ptr = h[q].ptr => o = q

AllHeld(bs, h) == \A b \in Used(bs) : \E o \in Owners : h[o] # Nothing /\ h[o].ptr = b.at + HeaderSize

(* Contents and headers are where they were written.                       *)
IntactIn(m, bs, h) ==
  /\ \A o \in Owners : \A a \in BytesOf(h, o) : m[a] = o
  /\ \A a \in HeaderBytes(bs) : m[a] = Header

(* The inductive invariant of the heap.                                    *)
HInv ==
  /\ heap_end <= MaxEnd /\ heap_end >= InitialSize
  /\ Chain(blocks, heap_end) /\ Parted(blocks)
  /\ mem \in Contents /\ hold \in Holding
  /\ HeldIn(blocks, hold) /\ AllHeld(blocks, hold)
  /\ IntactIn(mem, blocks, hold)

(* A pointer and a size are numbers.                                       *)
LEMMA HoldingTypes ==
  ASSUME NEW h \in Holding, NEW o \in Owners
  PROVE  /\ h[o].ptr \in Nat /\ h[o].n \in Nat /\ h[o].n \in Sizes \cup {0}
         /\ h[o] \in [ptr : Nat, n : Sizes \cup {0}]
         /\ h[o] = Nothing => h[o].n = 0 /\ h[o].ptr = 0
<1>1. Sizes \subseteq Nat
  BY HeapAssumption DEF SizesAssumption
<1>2. h[o] \in [ptr : Nat, n : Sizes \cup {0}]
  BY DEF Holding
<1>3. h[o].ptr \in Nat /\ h[o].n \in Sizes \cup {0}
  BY <1>2
<1>4. h[o] = Nothing => h[o].n = 0 /\ h[o].ptr = 0
  <2>1. Nothing.n = 0 /\ Nothing.ptr = 0
    BY DEF Nothing
  <2>2. ASSUME NEW x, x = Nothing PROVE x.n = 0 /\ x.ptr = 0
    BY ONLY <2>1, <2>2
  <2>. QED
    BY <2>2
<1>5. h[o].n \in Nat
  <2>1. 0 \in Nat
    OBVIOUS
  <2>2. \A x \in Sizes \cup {0} : x \in Nat
    BY ONLY <1>1, <2>1
  <2>. QED
    BY <1>3, <2>2
<1>. QED
  BY ONLY <1>2, <1>3, <1>4, <1>5

(* A header's bytes belong to a block of the list.                         *)
LEMMA BytesOfHeaders ==
  ASSUME NEW bs, NEW e, Chain(bs, e)
  PROVE  /\ \A a \in HeaderBytes(bs) : \E i \in 1 .. Len(bs) : a \in bs[i].at .. bs[i].at + HeaderSize - 1
         /\ \A i \in 1 .. Len(bs) : bs[i].at .. bs[i].at + HeaderSize - 1 \subseteq HeaderBytes(bs)
         /\ \A a \in HeaderBytes(bs) : a \in 0 .. e - 1
<1>1. DOMAIN bs = 1 .. Len(bs) /\ HeaderSize \in Nat \ {0} /\ e \in Nat
  BY ChainTypes, Layout
<1>2. \A a \in HeaderBytes(bs) : \E i \in 1 .. Len(bs) : a \in bs[i].at .. bs[i].at + HeaderSize - 1
  BY <1>1 DEF HeaderBytes
<1>3. \A i \in 1 .. Len(bs) : bs[i].at .. bs[i].at + HeaderSize - 1 \subseteq HeaderBytes(bs)
  BY <1>1 DEF HeaderBytes
<1>4. ASSUME NEW a \in HeaderBytes(bs) PROVE a \in 0 .. e - 1
  <2>1. PICK i \in 1 .. Len(bs) : a \in bs[i].at .. bs[i].at + HeaderSize - 1
    BY <1>2
  <2>2. End(bs[i]) <= e
    BY EndsWithin
  <2>3. bs[i].at \in Nat /\ bs[i].size \in Nat /\ End(bs[i]) = bs[i].at + HeaderSize + bs[i].size
    BY ChainTypes
  <2>. QED
    BY <1>1, <2>1, <2>2, <2>3
<1>. QED
  BY <1>2, <1>3, <1>4

(* Fewer blocks' beginnings, fewer headers.                                *)
LEMMA FewerHeaders ==
  ASSUME NEW bs, NEW e, Chain(bs, e), NEW cs, NEW f, Chain(cs, f), Ats(cs) \subseteq Ats(bs)
  PROVE  HeaderBytes(cs) \subseteq HeaderBytes(bs)
<1>1. ASSUME NEW a \in HeaderBytes(cs) PROVE a \in HeaderBytes(bs)
  <2>1. PICK i \in 1 .. Len(cs) : a \in cs[i].at .. cs[i].at + HeaderSize - 1
    BY BytesOfHeaders
  <2>2. cs[i].at \in Ats(bs)
    BY DEF Ats
  <2>3. PICK j \in 1 .. Len(bs) : cs[i].at = bs[j].at
    BY <2>2 DEF Ats
  <2>4. a \in bs[j].at .. bs[j].at + HeaderSize - 1
    BY <2>1, <2>3
  <2>. QED
    BY <2>4, BytesOfHeaders
<1>. QED
  BY <1>1

(* An owner's bytes lie in its block: inside the heap, in no header, and   *)
(* in no other owner's.                                                    *)
LEMMA OwnBytes ==
  ASSUME NEW bs, NEW e, Chain(bs, e), NEW h \in Holding, HeldIn(bs, h),
         NEW o \in Owners, NEW a \in BytesOf(h, o)
  PROVE  /\ a \in 0 .. e - 1 /\ a \notin HeaderBytes(bs)
         /\ \A q \in Owners : a \in BytesOf(h, q) => q = o
         /\ h[o] # Nothing
<1>0. HeaderSize \in Nat /\ e \in Nat
  BY ChainTypes, Layout
<1>1. ASSUME NEW q \in Owners, a \in BytesOf(h, q)
      PROVE  /\ h[q] # Nothing /\ a \in Int
             /\ \E i \in 1 .. Len(bs) : /\ bs[i].at + HeaderSize = h[q].ptr
                                        /\ a >= bs[i].at + HeaderSize /\ a < End(bs[i])
  <2>1. h[q].ptr \in Nat /\ h[q].n \in Nat /\ (h[q] = Nothing => h[q].n = 0)
    BY HoldingTypes
  <2>2. a \in Int /\ a >= h[q].ptr /\ a < h[q].ptr + h[q].n
    BY <1>1, <2>1 DEF BytesOf
  <2>3. h[q] # Nothing
    BY <2>1, <2>2
  <2>4. PICK b \in Used(bs) : b.at + HeaderSize = h[q].ptr /\ h[q].n <= b.size
    BY <2>3 DEF HeldIn
  <2>5. PICK i \in 1 .. Len(bs) : b = bs[i]
    BY DEF Used
  <2>6. /\ bs[i].at \in Nat /\ bs[i].size \in Nat
        /\ End(bs[i]) = bs[i].at + HeaderSize + bs[i].size
    BY ChainTypes
  <2>7. a >= bs[i].at + HeaderSize /\ a < End(bs[i])
    BY <1>0, <2>1, <2>2, <2>4, <2>5, <2>6, SMTT(30)
  <2>. QED
    BY <2>2, <2>3, <2>4, <2>5, <2>7
<1>2. PICK i \in 1 .. Len(bs) : /\ bs[i].at + HeaderSize = h[o].ptr
                                /\ a >= bs[i].at + HeaderSize /\ a < End(bs[i])
  BY <1>1
<1>3. \A j \in 1 .. Len(bs) : /\ bs[j].at \in Nat /\ bs[j].size \in Nat /\ End(bs[j]) \in Nat
                              /\ End(bs[j]) = bs[j].at + HeaderSize + bs[j].size
  BY ChainTypes
<1>4. a \in Int /\ h[o] # Nothing
  BY <1>1
<1>5. a \in 0 .. e - 1
  <2>1. End(bs[i]) <= e
    BY EndsWithin
  <2>. QED
    BY <1>0, <1>2, <1>3, <1>4, <2>1
<1>6. a \notin HeaderBytes(bs)
  <2>1. SUFFICES ASSUME a \in HeaderBytes(bs) PROVE FALSE
    OBVIOUS
  <2>2. PICK j \in 1 .. Len(bs) : a \in bs[j].at .. bs[j].at + HeaderSize - 1
    BY <2>1, BytesOfHeaders
  <2>3. i = j \/ End(bs[i]) <= bs[j].at \/ End(bs[j]) <= bs[i].at
    BY BlocksApart
  <2>4. a >= bs[j].at /\ a < bs[j].at + HeaderSize
    BY <1>0, <1>3, <1>4, <2>2
  <2>5. bs[j].at + HeaderSize <= End(bs[j])
    <3>1. /\ bs[j].at \in Nat /\ bs[j].size \in Nat
          /\ End(bs[j]) = bs[j].at + HeaderSize + bs[j].size
      BY <1>3, Zenon
    <3>. QED
      BY <1>0, <3>1
  <2>6. /\ bs[i].at \in Nat /\ bs[j].at \in Nat /\ End(bs[i]) \in Nat /\ End(bs[j]) \in Nat
        /\ a >= bs[i].at + HeaderSize /\ a < End(bs[i])
    BY <1>2, <1>3
  <2>7. CASE i = j
    BY <1>0, <1>4, <2>4, <2>6, <2>7, SMTT(30)
  <2>8. CASE End(bs[i]) <= bs[j].at
    BY <1>4, <2>4, <2>6, <2>8, SMTT(30)
  <2>9. CASE End(bs[j]) <= bs[i].at
    BY <1>0, <1>4, <2>4, <2>5, <2>6, <2>9, SMTT(30)
  <2>. QED
    BY <2>3, <2>7, <2>8, <2>9
<1>7. ASSUME NEW q \in Owners, a \in BytesOf(h, q) PROVE q = o
  <2>1. PICK j \in 1 .. Len(bs) : /\ bs[j].at + HeaderSize = h[q].ptr
                                  /\ a >= bs[j].at + HeaderSize /\ a < End(bs[j])
    BY <1>1, <1>7
  <2>2. i = j \/ End(bs[i]) <= bs[j].at \/ End(bs[j]) <= bs[i].at
    BY BlocksApart
  <2>3. i = j
    BY <1>0, <1>2, <1>3, <1>4, <2>1, <2>2, SMTT(30)
  <2>4. h[q] # Nothing /\ h[o].ptr = h[q].ptr
    BY <1>1, <1>2, <1>7, <2>1, <2>3
  <2>. QED
    BY <1>4, <2>4 DEF HeldIn
<1>. QED
  BY <1>4, <1>5, <1>6, <1>7

(* What writing leaves: the owner's new bytes, the headers of the new      *)
(* list, and what was intact before.                                       *)
LEMMA WrittenIntact ==
  ASSUME NEW bs, NEW e, Chain(bs, e), e <= MaxEnd, NEW h \in Holding, HeldIn(bs, h),
         NEW m \in Contents, NEW o \in Owners \cup {"any"}, NEW from \in Int, NEW to \in Int,
         \A a \in from .. to : o \in Owners /\ a \in BytesOf(h, o),
         \A q \in Owners : \A a \in BytesOf(h, q) : a \notin from .. to => m[a] = q,
         \A a \in HeaderBytes(bs) : a \in HeaderBytes(blocks) => m[a] = Header
  PROVE  Written(m, bs, h, o, from, to) \in Contents /\ IntactIn(Written(m, bs, h, o, from, to), bs, h)
<1>. DEFINE w == Written(m, bs, h, o, from, to)
<1>0. e \in Nat /\ MaxEnd \in Nat
  BY ChainTypes, Layout
<1>1. DOMAIN m = 0 .. MaxEnd - 1 /\ \A a \in 0 .. MaxEnd - 1 : m[a] \in Owners \cup {Header, "any"}
  BY DEF Contents
<1>2. w = [a \in 0 .. MaxEnd - 1 |->
             IF a \in from .. to THEN o
             ELSE IF a \in HeaderBytes(bs) \ HeaderBytes(blocks) THEN Header
             ELSE IF a \notin HeaderBytes(bs) \cup Bytes(h) THEN "any"
             ELSE m[a]]
  BY <1>1 DEF Written
<1>. HIDE DEF w
<1>3. w \in Contents
  BY <1>1, <1>2 DEF Contents
<1>4. ASSUME NEW q \in Owners, NEW a \in BytesOf(h, q) PROVE w[a] = q
  <2>1. /\ a \in 0 .. e - 1 /\ a \notin HeaderBytes(bs)
        /\ \A p \in Owners : a \in BytesOf(h, p) => p = q
    BY OwnBytes
  <2>2. a \in Bytes(h)
    BY DEF Bytes, BytesOf
  <2>3. a \in 0 .. MaxEnd - 1
    BY <1>0, <2>1
  <2>4. CASE a \in from .. to
    <3>1. o = q
      BY <2>1, <2>4
    <3>. QED
      BY <1>2, <2>3, <2>4, <3>1
  <2>5. CASE a \notin from .. to
    <3>1. w[a] = m[a]
      BY <1>2, <2>1, <2>2, <2>3, <2>5
    <3>. QED
      BY <2>5, <3>1
  <2>. QED
    BY <2>4, <2>5
<1>5. ASSUME NEW a \in HeaderBytes(bs) PROVE w[a] = Header
  <2>1. a \in 0 .. MaxEnd - 1
    <3>1. a \in 0 .. e - 1
      BY BytesOfHeaders
    <3>. QED
      BY <1>0, <3>1
  <2>2. a \notin from .. to
    <3>1. SUFFICES ASSUME a \in from .. to PROVE FALSE
      OBVIOUS
    <3>2. o \in Owners /\ a \in BytesOf(h, o)
      BY <3>1
    <3>. QED
      BY <3>2, OwnBytes
  <2>3. a \in HeaderBytes(blocks) => m[a] = Header
    OBVIOUS
  <2>. QED
    BY <1>2, <2>1, <2>2, <2>3
<1>. QED
  BY <1>3, <1>4, <1>5 DEF IntactIn, w

(* What kmalloc finds: a block of its own in a chain that has grown.       *)
LEMMA AllocatedBlock ==
  ASSUME Chain(blocks, heap_end), Parted(blocks), heap_end <= MaxEnd,
         NEW n \in Nat, n > 0, NEW k \in Grows, Enough(Rounded(n), k)
  PROVE  LET cs == Allocated(Rounded(n), k)
             p == Address(Rounded(n), k)
             e == heap_end + k * GrowSize
         IN  /\ Chain(cs, e) /\ Parted(cs) /\ e <= MaxEnd /\ e >= heap_end
             /\ \E b \in Block : /\ b.at + HeaderSize = p /\ b.size >= n /\ ~b.free
                                 /\ Used(cs) = Used(blocks) \cup {b}
             /\ \A x \in Used(blocks) : x.at + HeaderSize # p
<1>. DEFINE g == Grown(blocks, k)
            r == Rounded(n)
            i == First(Fits(g, r))
            e == heap_end + k * GrowSize
            cs == Taken(g, i, r)
            p == g[i].at + HeaderSize
<1>1. r \in Nat /\ r >= n /\ r % Align = 0
  BY RoundedUp
<1>2. heap_end \in Nat /\ HeaderSize \in Nat
  BY ChainTypes, Layout
<1>3. e <= MaxEnd /\ e >= heap_end
  <2>1. PICK d \in Nat : d = k * GrowSize /\ heap_end + d <= MaxEnd
    BY <1>2, Growth
  <2>. QED
    BY <1>2, <2>1
<1>4. Chain(g, e) /\ Parted(g) /\ Used(g) = Used(blocks)
  BY GrownChain
<1>5. Fits(g, r) # {}
  BY DEF Enough
<1>. HIDE DEF g, r, e
<1>6. /\ DOMAIN g = 1 .. Len(g) /\ Len(g) \in Nat
      /\ \A j \in 1 .. Len(g) : g[j].at \in Nat /\ g[j].size \in Nat
  BY <1>4, ChainTypes
<1>7. Fits(g, r) \in SUBSET Nat /\ Fits(g, r) \subseteq 1 .. Len(g)
  BY <1>6 DEF Fits
<1>8. i \in Fits(g, r)
  BY <1>5, <1>7, FirstIsIn
<1>. HIDE DEF i
<1>9. i \in 1 .. Len(g) /\ g[i].free /\ r <= g[i].size
  BY <1>6, <1>7, <1>8 DEF Fits
<1>10. r > 0
  BY <1>1
<1>11. /\ Chain(cs, e) /\ Parted(cs)
       /\ \E b \in Block : /\ b.at = g[i].at /\ b.size >= r /\ ~b.free
                           /\ Used(cs) = Used(g) \cup {b}
  BY <1>1, <1>4, <1>9, <1>10, TakenChain
<1>12. PICK b \in Block : /\ b.at = g[i].at /\ b.size >= r /\ ~b.free
                          /\ Used(cs) = Used(g) \cup {b}
  BY <1>11
<1>13. b.size >= n
  <2>1. b.size \in Nat
    BY DEF Block
  <2>. QED
    BY <1>1, <1>12, <2>1
<1>14. ASSUME NEW x \in Used(blocks) PROVE x.at + HeaderSize # p
  <2>1. PICK j \in 1 .. Len(g) : x = g[j] /\ ~g[j].free
    BY <1>4 DEF Used
  <2>2. g[i].at # g[j].at
    <3>1. i # j
      BY <1>9, <2>1
    <3>. QED
      BY <1>4, <1>9, <3>1, BlocksApart
  <2>3. g[i].at \in Nat /\ g[j].at \in Nat
    BY <1>6, <1>9
  <2>. QED
    BY <1>2, <2>1, <2>2, <2>3, SMTT(30)
<1>15. Allocated(Rounded(n), k) = cs /\ Address(Rounded(n), k) = p
  BY DEF Allocated, Address, g, r, i
<1>. HIDE DEF cs, p
<1>16. b.at + HeaderSize = p
  BY <1>12 DEF p
<1>. QED
  BY <1>3, <1>4, <1>11, <1>12, <1>13, <1>14, <1>15, <1>16 DEF e

(* Which block a pointer belongs to.                                       *)
LEMMA BlockFound ==
  ASSUME NEW bs, NEW e, Chain(bs, e), NEW ptr, NEW b \in Used(bs), b.at + HeaderSize = ptr
  PROVE  BlockOf(bs, ptr) \in 1 .. Len(bs) /\ bs[BlockOf(bs, ptr)] = b /\ ~b.free
<1>1. DOMAIN bs = 1 .. Len(bs)
  BY ChainTypes
<1>2. PICK i \in 1 .. Len(bs) : bs[i] = b /\ ~bs[i].free
  BY DEF Used
<1>3. BlockOf(bs, ptr) \in 1 .. Len(bs) /\ bs[BlockOf(bs, ptr)].at + HeaderSize = ptr
  BY <1>1, <1>2 DEF BlockOf
<1>. DEFINE j == BlockOf(bs, ptr)
<1>. HIDE DEF j
<1>4. j \in 1 .. Len(bs) /\ bs[j].at + HeaderSize = bs[i].at + HeaderSize
  BY <1>2, <1>3 DEF j
<1>5. bs[j].at = bs[i].at
  <2>1. bs[j].at \in Nat /\ bs[i].at \in Nat /\ HeaderSize \in Nat
    BY <1>4, ChainTypes, Layout
  <2>. QED
    BY <1>4, <2>1
<1>6. j = i
  BY <1>4, <1>5, BlocksApart
<1>. QED
  BY <1>2, <1>4, <1>6 DEF j

(* After kfree of a block nobody points to any more, the others are held.  *)
LEMMA FreedHeld ==
  ASSUME NEW bs, NEW e, Chain(bs, e), Parted(bs), NEW i \in 1 .. Len(bs), ~bs[i].free,
         NEW h \in Holding, HeldIn(bs, h),
         \A q \in Owners : h[q] # Nothing => h[q].ptr # bs[i].at + HeaderSize,
         \A b \in Used(bs) \ {bs[i]} :
            \E q \in Owners : h[q] # Nothing /\ h[q].ptr = b.at + HeaderSize
  PROVE  LET cs == Freed(bs, i) IN
         /\ Chain(cs, e) /\ Parted(cs) /\ HeldIn(cs, h) /\ AllHeld(cs, h)
         /\ HeaderBytes(cs) \subseteq HeaderBytes(bs)
<1>. DEFINE cs == Freed(bs, i)
<1>1. Chain(cs, e) /\ Parted(cs) /\ Used(cs) = Used(bs) \ {bs[i]} /\ Ats(cs) \subseteq Ats(bs)
  BY FreedChain
<1>. HIDE DEF cs
<1>2. HeaderBytes(cs) \subseteq HeaderBytes(bs)
  BY <1>1, FewerHeaders
<1>3. AllHeld(cs, h)
  BY <1>1 DEF AllHeld
<1>4. HeldIn(cs, h)
  <2>1. ASSUME NEW o \in Owners, h[o] # Nothing
        PROVE  /\ h[o].n > 0
               /\ \E b \in Used(cs) : b.at + HeaderSize = h[o].ptr /\ h[o].n <= b.size
    <3>1. h[o].n > 0
      BY <2>1 DEF HeldIn
    <3>2. PICK b \in Used(bs) : b.at + HeaderSize = h[o].ptr /\ h[o].n <= b.size
      BY <2>1 DEF HeldIn
    <3>3. b # bs[i]
      BY <2>1, <3>2
    <3>. QED
      BY <1>1, <3>1, <3>2, <3>3
  <2>2. \A o, q \in Owners : h[o] # Nothing /\ h[q] # Nothing /\ h[o].ptr = h[q].ptr => o = q
    BY DEF HeldIn
  <2>. QED
    BY <2>1, <2>2 DEF HeldIn
<1>. QED
  BY <1>1, <1>2, <1>3, <1>4 DEF cs

(* An owner's pointer and size change, the others' stay.                   *)
LEMMA Assigned ==
  ASSUME NEW h \in Holding, NEW o \in Owners, NEW r \in [ptr : Nat, n : Sizes \cup {0}]
  PROVE  /\ [h EXCEPT ![o] = r] \in Holding /\ [h EXCEPT ![o] = r][o] = r
         /\ \A q \in Owners : q # o => [h EXCEPT ![o] = r][q] = h[q]
BY DEF Holding

(* An owner that gets a block of its own, and what it may write.           *)
LEMMA HeldMore ==
  ASSUME NEW bs, NEW cs, NEW b, Used(cs) = Used(bs) \cup {b},
         NEW h \in Holding, HeldIn(bs, h), NEW o \in Owners,
         NEW n \in Sizes, n > 0, NEW p \in Nat,
         b.at + HeaderSize = p, b.size >= n,
         \A x \in Used(bs) : x.at + HeaderSize # p,
         NEW g \in Holding, g[o].ptr = p, g[o].n = n, \A q \in Owners : q # o => g[q] = h[q]
  PROVE  /\ HeldIn(cs, g) /\ g[o] # Nothing
         /\ BytesOf(g, o) = p .. p + n - 1
         /\ \A q \in Owners : q # o => BytesOf(g, q) = BytesOf(h, q)
<1>2. g[o] # Nothing
  <2>1. n # 0
    BY HeapAssumption DEF SizesAssumption
  <2>2. \A x : x = Nothing => x.n = 0
    BY DEF Nothing
  <2>. QED
    BY <2>1, <2>2
<1>4. BytesOf(g, o) = p .. p + n - 1
  BY DEF BytesOf
<1>5. \A q \in Owners : q # o => BytesOf(g, q) = BytesOf(h, q)
  BY DEF BytesOf
<1>6. ASSUME NEW q \in Owners, g[q] # Nothing
      PROVE  /\ g[q].n > 0
             /\ \E x \in Used(cs) : x.at + HeaderSize = g[q].ptr /\ g[q].n <= x.size
  <2>1. CASE q = o
    <3>1. HeaderSize \in Nat /\ n \in Nat
      BY Layout, HeapAssumption DEF SizesAssumption
    <3>2. b \in Used(cs) /\ b.at + HeaderSize = p
      OBVIOUS
    <3>3. n <= b.size
      BY <3>1
    <3>. QED
      BY <2>1, <3>2, <3>3
  <2>2. CASE q # o
    <3>1. h[q] # Nothing /\ g[q] = h[q]
      BY <1>6, <2>2
    <3>2. /\ h[q].n > 0
          /\ \E x \in Used(bs) : x.at + HeaderSize = h[q].ptr /\ h[q].n <= x.size
      BY <3>1 DEF HeldIn
    <3>. QED
      BY <3>1, <3>2
  <2>. QED
    BY <2>1, <2>2
<1>7. ASSUME NEW u \in Owners, NEW v \in Owners, g[u] # Nothing, g[v] # Nothing, g[u].ptr = g[v].ptr
      PROVE  u = v
  <2>1. \A q \in Owners : q # o /\ g[q] # Nothing => g[q].ptr # p
    <3>1. ASSUME NEW q \in Owners, q # o, g[q] # Nothing PROVE g[q].ptr # p
      <4>1. h[q] # Nothing /\ g[q] = h[q]
        BY <3>1
      <4>2. PICK x \in Used(bs) : x.at + HeaderSize = h[q].ptr
        BY <4>1 DEF HeldIn
      <4>. QED
        BY <4>1, <4>2
    <3>. QED
      BY <3>1
  <2>2. CASE u = o \/ v = o
    BY <1>7, <2>1, <2>2
  <2>3. CASE u # o /\ v # o
    BY <1>7, <2>3 DEF HeldIn
  <2>. QED
    BY <2>2, <2>3
<1>8. HeldIn(cs, g)
  BY <1>6, <1>7 DEF HeldIn
<1>. QED
  BY <1>2, <1>4, <1>5, <1>8

(* heap_init leaves one free block and nothing held.                       *)
LEMMA InitHInv == Init => HInv
<1>. SUFFICES ASSUME Init PROVE HInv
  OBVIOUS
<1>. DEFINE b == [at |-> 0, size |-> InitialSize - HeaderSize, free |-> TRUE]
<1>1. blocks = <<b>> /\ heap_end = InitialSize
  BY DEF Init
<1>2. /\ HeaderSize \in Nat \ {0} /\ InitialSize \in Nat /\ InitialSize > HeaderSize /\ MaxEnd \in Nat
      /\ InitialSize <= MaxEnd /\ HeaderSize % Align = 0 /\ InitialSize % Align = 0
  BY Layout
<1>3. (InitialSize - HeaderSize) % Align = 0
  BY <1>2, AlignedSum, Zenon
<1>4. /\ b \in Block /\ b.at = 0 /\ b.size = InitialSize - HeaderSize /\ b.free = TRUE
      /\ b.size > 0 /\ End(b) = InitialSize
  BY <1>2 DEF Block, End
<1>5. b.size % Align = 0
  BY <1>3
<1>. HIDE DEF b
<1>6. blocks \in Seq(Block) /\ Len(blocks) = 1 /\ blocks[1] = b /\ blocks # <<>>
  BY <1>1, <1>4
<1>7. \A i \in 1 .. Len(blocks) : blocks[i] = b
  BY <1>6
<1>8. Chain(blocks, heap_end)
  <2>1. \A i \in 1 .. Len(blocks) : blocks[i].size > 0 /\ blocks[i].size % Align = 0
    BY ONLY <1>4, <1>5, <1>7
  <2>2. 1 .. Len(blocks) - 1 = {}
    BY <1>6
  <2>3. \A i, j \in 1 .. Len(blocks) : ~(i < j)
    BY <1>6
  <2>4. blocks[1].at = 0 /\ End(blocks[Len(blocks)]) = heap_end
    BY <1>1, <1>4, <1>6
  <2>. QED
    BY ONLY <1>6, <2>1, <2>2, <2>3, <2>4 DEF Chain
<1>9. Parted(blocks) /\ Used(blocks) = {}
  BY <1>4, <1>6 DEF Parted, Used
<1>10. hold = [o \in Owners |-> Nothing] /\ Nothing \in [ptr : Nat, n : Sizes \cup {0}] /\ Nothing.n = 0 /\ Nothing.ptr = 0
  BY DEF Init, Nothing
<1>11. hold \in Holding /\ \A o \in Owners : hold[o] = Nothing
  BY <1>10 DEF Holding
<1>12. HeldIn(blocks, hold) /\ AllHeld(blocks, hold)
  BY <1>9, <1>11 DEF HeldIn, AllHeld
<1>13. mem \in Contents /\ \A a \in 0 .. HeaderSize - 1 : mem[a] = Header
  BY <1>2 DEF Init, Contents
<1>14. IntactIn(mem, blocks, hold)
  <2>1. \A o \in Owners : BytesOf(hold, o) = {}
    <3>1. \A o \in Owners : hold[o].ptr = 0 /\ hold[o].n = 0
      BY <1>10, <1>11
    <3>2. 0 .. 0 + 0 - 1 = {}
      OBVIOUS
    <3>. QED
      BY <3>1, <3>2 DEF BytesOf
  <2>2. ASSUME NEW a \in HeaderBytes(blocks) PROVE mem[a] = Header
    <3>1. PICK i \in 1 .. Len(blocks) : a \in blocks[i].at .. blocks[i].at + HeaderSize - 1
      BY <1>8, BytesOfHeaders
    <3>2. a \in 0 .. HeaderSize - 1
      BY <1>2, <1>4, <1>7, <3>1
    <3>. QED
      BY <1>13, <3>2
  <2>. QED
    BY <2>1, <2>2 DEF IntactIn
<1>. QED
  BY <1>1, <1>2, <1>8, <1>9, <1>11, <1>12, <1>13, <1>14 DEF HInv

(* What stays of the contents when a list replaces the one before.         *)
LEMMA StillIntact ==
  ASSUME HInv, NEW cs, NEW e, Chain(cs, e), e <= MaxEnd, NEW h \in Holding, HeldIn(cs, h),
         NEW o \in Owners \cup {"any"}, NEW from \in Int, NEW to \in Int,
         \A a \in from .. to : o \in Owners /\ a \in BytesOf(h, o),
         \A q \in Owners : \A a \in BytesOf(h, q) : a \notin from .. to => a \in BytesOf(hold, q)
  PROVE  /\ Written(mem, cs, h, o, from, to) \in Contents
         /\ IntactIn(Written(mem, cs, h, o, from, to), cs, h)
<1>1. /\ mem \in Contents
      /\ \A q \in Owners : \A a \in BytesOf(hold, q) : mem[a] = q
      /\ \A a \in HeaderBytes(blocks) : mem[a] = Header
  BY DEF HInv, IntactIn
<1>2. /\ \A q \in Owners : \A a \in BytesOf(h, q) : a \notin from .. to => mem[a] = q
      /\ \A a \in HeaderBytes(cs) : a \in HeaderBytes(blocks) => mem[a] = Header
  BY <1>1
<1>. QED
  BY <1>1, <1>2, WrittenIntact

(* kmalloc takes a block nobody has and writes only there.                 *)
LEMMA MallocHInv ==
  ASSUME HInv, NEW o \in Owners, NEW n \in Sizes, kmalloc(o, n)
  PROVE  HInv'
<1>1. /\ heap_end <= MaxEnd /\ heap_end >= InitialSize /\ Chain(blocks, heap_end) /\ Parted(blocks)
      /\ hold \in Holding /\ HeldIn(blocks, hold) /\ AllHeld(blocks, hold)
  BY DEF HInv
<1>2. hold[o] = Nothing /\ n > 0
  BY DEF kmalloc
<1>3. PICK k \in Grows :
        /\ Enough(Rounded(n), k)
        /\ blocks' = Allocated(Rounded(n), k)
        /\ heap_end' = heap_end + k * GrowSize
        /\ hold' = [hold EXCEPT ![o] = [ptr |-> Address(Rounded(n), k), n |-> n]]
        /\ mem' = Written(mem, blocks', hold', o, Address(Rounded(n), k), Address(Rounded(n), k) + n - 1)
  BY DEF kmalloc
<1>. DEFINE cs == Allocated(Rounded(n), k)
            p == Address(Rounded(n), k)
            e == heap_end + k * GrowSize
            h == [hold EXCEPT ![o] = [ptr |-> p, n |-> n]]
<1>4. n \in Nat
  BY HeapAssumption DEF SizesAssumption
<1>5. /\ Chain(cs, e) /\ Parted(cs) /\ e <= MaxEnd /\ e >= heap_end
      /\ \E b \in Block : /\ b.at + HeaderSize = p /\ b.size >= n /\ ~b.free
                          /\ Used(cs) = Used(blocks) \cup {b}
      /\ \A x \in Used(blocks) : x.at + HeaderSize # p
  BY <1>1, <1>2, <1>3, <1>4, AllocatedBlock
<1>6. blocks' = cs /\ heap_end' = e /\ hold' = h /\ mem' = Written(mem, cs, h, o, p, p + n - 1)
  BY <1>3
<1>. HIDE DEF cs, p, e
<1>7. PICK b \in Block : /\ b.at + HeaderSize = p /\ b.size >= n /\ ~b.free
                         /\ Used(cs) = Used(blocks) \cup {b}
  BY <1>5
<1>8. p \in Nat /\ p + n - 1 \in Int
  BY <1>4, <1>7, Layout DEF Block
<1>. DEFINE r == [ptr |-> p, n |-> n]
<1>9. r \in [ptr : Nat, n : Sizes \cup {0}] /\ r.ptr = p /\ r.n = n
  BY <1>8
<1>10. h = [hold EXCEPT ![o] = r]
  OBVIOUS
<1>. HIDE DEF r, h
<1>11. h \in Holding /\ h[o].ptr = p /\ h[o].n = n /\ \A q \in Owners : q # o => h[q] = hold[q]
  <2>1. hold \in Holding /\ o \in Owners /\ r \in [ptr : Nat, n : Sizes \cup {0}]
    BY <1>1, <1>9
  <2>2. h \in Holding /\ h[o] = r /\ \A q \in Owners : q # o => h[q] = hold[q]
    BY ONLY <1>10, <2>1 DEF Holding
  <2>. QED
    BY <1>9, <2>2
<1>12. /\ HeldIn(cs, h) /\ h[o] # Nothing
      /\ BytesOf(h, o) = p .. p + n - 1
      /\ \A q \in Owners : q # o => BytesOf(h, q) = BytesOf(hold, q)
  <2>1. \A x \in Used(blocks) : x.at + HeaderSize # p
    BY <1>5
  <2>. QED
    BY <1>1, <1>2, <1>7, <1>8, <1>11, <2>1, HeldMore
<1>13. AllHeld(cs, h)
  <2>1. ASSUME NEW x \in Used(cs) PROVE \E q \in Owners : h[q] # Nothing /\ h[q].ptr = x.at + HeaderSize
    <3>1. CASE x = b
      BY <1>7, <1>12, <1>11, <3>1
    <3>2. CASE x \in Used(blocks)
      <4>1. PICK q \in Owners : hold[q] # Nothing /\ hold[q].ptr = x.at + HeaderSize
        BY <1>1, <3>2 DEF AllHeld
      <4>2. q # o
        BY <1>2, <4>1
      <4>. QED
        BY <1>12, <1>11, <4>1, <4>2
    <3>. QED
      BY <1>7, <3>1, <3>2
  <2>. QED
    BY <2>1 DEF AllHeld
<1>14. mem' \in Contents /\ IntactIn(mem', cs, h)
  <2>1. \A a \in p .. p + n - 1 : o \in Owners /\ a \in BytesOf(h, o)
    BY <1>12, <1>11
  <2>2. \A q \in Owners : \A a \in BytesOf(h, q) : a \notin p .. p + n - 1 => a \in BytesOf(hold, q)
    BY <1>12, <1>11
  <2>. QED
    BY <1>5, <1>6, <1>8, <1>12, <1>11, <2>1, <2>2, StillIntact
<1>15. e >= InitialSize
  <2>1. heap_end \in Nat /\ e \in Nat /\ InitialSize \in Nat
    BY <1>1, <1>5, ChainTypes, Layout
  <2>. QED
    BY <1>1, <1>5, <2>1
<1>16. HInv' = (/\ e <= MaxEnd /\ e >= InitialSize /\ Chain(cs, e) /\ Parted(cs)
                /\ mem' \in Contents /\ h \in Holding
                /\ HeldIn(cs, h) /\ AllHeld(cs, h) /\ IntactIn(mem', cs, h))
  BY <1>6 DEF HInv
<1>. QED
  BY <1>5, <1>12, <1>13, <1>14, <1>11, <1>15, <1>16

(* A call that runs out of frames leaves the heap grown, nothing else.     *)
LEMMA OutOfMemoryHInv ==
  ASSUME HInv, NEW n \in Sizes, OutOfMemory(n)
  PROVE  HInv'
<1>1. /\ heap_end <= MaxEnd /\ heap_end >= InitialSize /\ Chain(blocks, heap_end) /\ Parted(blocks)
      /\ hold \in Holding /\ HeldIn(blocks, hold) /\ AllHeld(blocks, hold)
  BY DEF HInv
<1>2. PICK k \in Grows :
        /\ blocks' = Grown(blocks, k) /\ heap_end' = heap_end + k * GrowSize
        /\ mem' = Written(mem, Grown(blocks, k), hold, "any", 1, 0)
  BY DEF OutOfMemory
<1>. DEFINE cs == Grown(blocks, k)
            e == heap_end + k * GrowSize
<1>3. heap_end \in Nat /\ InitialSize \in Nat
  BY <1>1, ChainTypes, Layout
<1>4. e <= MaxEnd /\ e >= heap_end /\ e \in Nat
  <2>1. PICK d \in Nat : d = k * GrowSize /\ heap_end + d <= MaxEnd
    BY <1>1, <1>3, Growth
  <2>. QED
    BY <1>3, <2>1
<1>5. Chain(cs, e) /\ Parted(cs) /\ Used(cs) = Used(blocks)
  BY <1>1, GrownChain
<1>. HIDE DEF cs, e
<1>6. HeldIn(cs, hold) /\ AllHeld(cs, hold)
  BY <1>1, <1>5 DEF HeldIn, AllHeld
<1>7. \A a \in 1 .. 0 : FALSE
  OBVIOUS
<1>8. /\ Written(mem, cs, hold, "any", 1, 0) \in Contents
      /\ IntactIn(Written(mem, cs, hold, "any", 1, 0), cs, hold)
  BY <1>1, <1>4, <1>5, <1>6, <1>7, StillIntact
<1>9. e >= InitialSize
  BY <1>1, <1>3, <1>4
<1>10. blocks' = cs /\ heap_end' = e /\ hold' = hold /\ mem' = Written(mem, cs, hold, "any", 1, 0)
  BY <1>2 DEF cs, e, OutOfMemory
<1>. QED
  BY <1>1, <1>4, <1>5, <1>6, <1>8, <1>9, <1>10 DEF HInv

(* The block an owner's pointer belongs to.                                *)
LEMMA OwnBlock ==
  ASSUME NEW bs, NEW e, Chain(bs, e), NEW h, HeldIn(bs, h), NEW o \in Owners, h[o] # Nothing
  PROVE  LET i == BlockOf(bs, h[o].ptr) IN
         /\ i \in 1 .. Len(bs) /\ bs[i] \in Used(bs) /\ ~bs[i].free
         /\ bs[i].at + HeaderSize = h[o].ptr /\ h[o].n <= bs[i].size
<1>1. PICK b \in Used(bs) : b.at + HeaderSize = h[o].ptr /\ h[o].n <= b.size
  BY DEF HeldIn
<1>2. BlockOf(bs, h[o].ptr) \in 1 .. Len(bs) /\ bs[BlockOf(bs, h[o].ptr)] = b /\ ~b.free
  BY <1>1, BlockFound
<1>. QED
  BY <1>1, <1>2

(* Blocks that begin at the same place are the same.                       *)
LEMMA SameBlock ==
  ASSUME NEW bs, NEW e, Chain(bs, e), NEW x \in Used(bs), NEW y \in Used(bs),
         x.at + HeaderSize = y.at + HeaderSize
  PROVE  x = y
<1>1. PICK i \in 1 .. Len(bs) : x = bs[i]
  BY DEF Used
<1>2. PICK j \in 1 .. Len(bs) : y = bs[j]
  BY DEF Used
<1>3. x.at = y.at
  <2>1. x.at \in Nat /\ y.at \in Nat /\ HeaderSize \in Nat
    BY <1>1, <1>2, ChainTypes, Layout
  <2>. QED
    BY <2>1
<1>4. i = j
  BY <1>1, <1>2, <1>3, BlocksApart
<1>. QED
  BY <1>1, <1>2, <1>4

(* kfree gives back the owner's block and no other.                        *)
LEMMA FreeHInv ==
  ASSUME HInv, NEW o \in Owners, kfree(o)
  PROVE  HInv'
<1>1. /\ heap_end <= MaxEnd /\ heap_end >= InitialSize /\ Chain(blocks, heap_end) /\ Parted(blocks)
      /\ hold \in Holding /\ HeldIn(blocks, hold) /\ AllHeld(blocks, hold)
  BY DEF HInv
<1>. DEFINE i == BlockOf(blocks, hold[o].ptr)
            cs == Freed(blocks, i)
            h == [hold EXCEPT ![o] = Nothing]
<1>2. /\ hold[o] # Nothing /\ blocks' = cs /\ hold' = h /\ heap_end' = heap_end
      /\ mem' = Written(mem, cs, h, o, 1, 0)
  BY DEF kfree
<1>3. /\ i \in 1 .. Len(blocks) /\ blocks[i] \in Used(blocks) /\ ~blocks[i].free
      /\ blocks[i].at + HeaderSize = hold[o].ptr
  BY <1>1, <1>2, OwnBlock
<1>4. /\ Nothing \in [ptr : Nat, n : Sizes \cup {0}] /\ Nothing.n = 0 /\ Nothing.ptr = 0
  BY DEF Nothing
<1>5. h \in Holding /\ h[o] = Nothing /\ \A q \in Owners : q # o => h[q] = hold[q]
  BY <1>1, <1>4, Assigned
<1>. HIDE DEF i, h
<1>6. HeldIn(blocks, h)
  <2>1. \A q \in Owners : h[q] # Nothing => q # o /\ h[q] = hold[q]
    BY <1>5
  <2>. QED
    BY <1>1, <2>1 DEF HeldIn
<1>7. \A q \in Owners : h[q] # Nothing => h[q].ptr # blocks[i].at + HeaderSize
  BY <1>1, <1>2, <1>3, <1>5 DEF HeldIn
<1>8. ASSUME NEW b \in Used(blocks) \ {blocks[i]}
      PROVE  \E q \in Owners : h[q] # Nothing /\ h[q].ptr = b.at + HeaderSize
  <2>1. PICK q \in Owners : hold[q] # Nothing /\ hold[q].ptr = b.at + HeaderSize
    BY <1>1 DEF AllHeld
  <2>2. q # o
    BY <1>1, <1>3, <1>8, <2>1, SameBlock
  <2>. QED
    BY <1>5, <2>1, <2>2
<1>9. /\ Chain(cs, heap_end) /\ Parted(cs) /\ HeldIn(cs, h) /\ AllHeld(cs, h)
  BY <1>1, <1>3, <1>5, <1>6, <1>7, <1>8, FreedHeld
<1>. HIDE DEF cs
<1>10. \A q \in Owners : BytesOf(h, q) \subseteq BytesOf(hold, q)
  <2>1. 0 .. 0 + 0 - 1 = {}
    OBVIOUS
  <2>2. BytesOf(h, o) = {}
    BY <1>4, <1>5, <2>1 DEF BytesOf
  <2>3. \A q \in Owners : q # o => BytesOf(h, q) = BytesOf(hold, q)
    BY <1>5 DEF BytesOf
  <2>. QED
    BY <2>2, <2>3
<1>11. \A a \in 1 .. 0 : FALSE
  OBVIOUS
<1>12. /\ Written(mem, cs, h, o, 1, 0) \in Contents
       /\ IntactIn(Written(mem, cs, h, o, 1, 0), cs, h)
  BY <1>1, <1>5, <1>9, <1>10, <1>11, StillIntact
<1>. QED
  BY <1>1, <1>2, <1>5, <1>9, <1>12 DEF HInv

(* krealloc in place: the pointer stays, the new bytes are the owner's.    *)
LEMMA ReallocStaysHInv ==
  ASSUME HInv, NEW o \in Owners, NEW n \in Sizes, krealloc_stays(o, n)
  PROVE  HInv'
<1>1. /\ heap_end <= MaxEnd /\ heap_end >= InitialSize /\ Chain(blocks, heap_end) /\ Parted(blocks)
      /\ hold \in Holding /\ HeldIn(blocks, hold) /\ AllHeld(blocks, hold)
  BY DEF HInv
<1>. DEFINE i == BlockOf(blocks, hold[o].ptr)
            h == [hold EXCEPT ![o].n = n]
            r == [ptr |-> hold[o].ptr, n |-> n]
            from == hold[o].ptr + hold[o].n
            to == hold[o].ptr + n - 1
<1>2. /\ hold[o] # Nothing /\ n > 0 /\ blocks[i].size >= n
      /\ hold' = h /\ mem' = Written(mem, blocks, h, o, from, to)
      /\ blocks' = blocks /\ heap_end' = heap_end
  BY DEF krealloc_stays, OldSize
<1>3. /\ i \in 1 .. Len(blocks) /\ blocks[i] \in Used(blocks)
      /\ blocks[i].at + HeaderSize = hold[o].ptr
  BY <1>1, <1>2, OwnBlock
<1>4. /\ n \in Nat /\ hold[o].ptr \in Nat /\ hold[o].n \in Nat /\ blocks[i].size \in Nat
      /\ hold[o] \in [ptr : Nat, n : Sizes \cup {0}]
  BY <1>1, <1>3, HoldingTypes, ChainTypes, HeapAssumption DEF SizesAssumption
<1>5. r \in [ptr : Nat, n : Sizes \cup {0}] /\ r.ptr = hold[o].ptr /\ r.n = n /\ r # Nothing
  <2>1. Nothing.n = 0 /\ r.n = n
    BY DEF Nothing
  <2>2. n # 0
    BY <1>2, <1>4
  <2>3. r # Nothing
    BY <2>1, <2>2
  <2>. QED
    BY <1>4, <2>3
<1>6. h = [hold EXCEPT ![o] = r]
  <2>1. [hold[o] EXCEPT !.n = n] = r
    BY <1>4
  <2>2. h = [hold EXCEPT ![o] = [hold[o] EXCEPT !.n = n]]
    OBVIOUS
  <2>. QED
    BY ONLY <2>1, <2>2
<1>. HIDE DEF r, i
<1>7. h \in Holding /\ h[o] = r /\ \A q \in Owners : q # o => h[q] = hold[q]
  BY <1>1, <1>5, <1>6, Assigned
<1>. HIDE DEF h
<1>8. HeldIn(blocks, h)
  <2>1. \A q \in Owners : h[q] # Nothing => hold[q] # Nothing /\ h[q].ptr = hold[q].ptr
    BY <1>2, <1>5, <1>7
  <2>2. ASSUME NEW q \in Owners, h[q] # Nothing
        PROVE  /\ h[q].n > 0
               /\ \E b \in Used(blocks) : b.at + HeaderSize = h[q].ptr /\ h[q].n <= b.size
    <3>1. CASE q = o
      <4>1. n <= blocks[i].size
        BY <1>2, <1>4
      <4>. QED
        BY <1>2, <1>3, <1>5, <1>7, <3>1, <4>1
    <3>2. CASE q # o
      BY <1>1, <1>7, <2>1, <2>2, <3>2 DEF HeldIn
    <3>. QED
      BY <3>1, <3>2
  <2>. QED
    BY <1>1, <2>1, <2>2 DEF HeldIn
<1>9. AllHeld(blocks, h)
  <2>1. \A q \in Owners : hold[q] # Nothing => h[q] # Nothing /\ h[q].ptr = hold[q].ptr
    BY <1>2, <1>5, <1>7
  <2>. QED
    BY <1>1, <2>1 DEF AllHeld
<1>10. /\ from \in Int /\ to \in Int
  BY <1>4
<1>11. \A a \in from .. to : o \in Owners /\ a \in BytesOf(h, o)
  <2>1. h[o].ptr = hold[o].ptr /\ h[o].n = n
    BY <1>5, <1>7
  <2>2. \A a \in hold[o].ptr + hold[o].n .. hold[o].ptr + n - 1 : a \in hold[o].ptr .. hold[o].ptr + n - 1
    BY <1>4
  <2>. QED
    BY <2>1, <2>2 DEF BytesOf
<1>12. ASSUME NEW q \in Owners, NEW a \in BytesOf(h, q), a \notin from .. to
       PROVE  a \in BytesOf(hold, q)
  <2>1. CASE q = o
    <3>1. h[o].ptr = hold[o].ptr /\ h[o].n = n
      BY <1>5, <1>7
    <3>2. a \in hold[o].ptr .. hold[o].ptr + n - 1
      BY <2>1, <3>1 DEF BytesOf
    <3>3. a \in hold[o].ptr .. hold[o].ptr + hold[o].n - 1
      BY <1>4, <1>12, <3>2
    <3>. QED
      BY <2>1, <3>3 DEF BytesOf
  <2>2. CASE q # o
    BY <1>7, <2>2 DEF BytesOf
  <2>. QED
    BY <2>1, <2>2
<1>. HIDE DEF from, to
<1>13. /\ Written(mem, blocks, h, o, from, to) \in Contents
       /\ IntactIn(Written(mem, blocks, h, o, from, to), blocks, h)
  BY <1>1, <1>7, <1>8, <1>10, <1>11, <1>12, StillIntact
<1>. QED
  BY <1>1, <1>2, <1>7, <1>8, <1>9, <1>13 DEF HInv

(* The old bytes at a new place: as memory, and which bytes come from      *)
(* where.                                                                  *)
LEMMA CopiedBytes ==
  ASSUME HInv, NEW o \in Owners, hold[o] # Nothing, NEW p \in Nat
  PROVE  /\ Copied(o, p) \in Contents
         /\ \A a \in 0 .. MaxEnd - 1 :
              /\ a \notin p .. p + OldSize(o) - 1 => Copied(o, p)[a] = mem[a]
              /\ a \in p .. p + hold[o].n - 1 => Copied(o, p)[a] = o
<1>. DEFINE c == Copied(o, p)
            i == BlockOf(blocks, hold[o].ptr)
<1>1. /\ heap_end <= MaxEnd /\ Chain(blocks, heap_end) /\ mem \in Contents
      /\ hold \in Holding /\ HeldIn(blocks, hold)
      /\ \A q \in Owners : \A a \in BytesOf(hold, q) : mem[a] = q
  BY DEF HInv, IntactIn
<1>2. /\ i \in 1 .. Len(blocks) /\ blocks[i].at + HeaderSize = hold[o].ptr
      /\ hold[o].n <= blocks[i].size
  BY <1>1, OwnBlock
<1>. HIDE DEF i
<1>3. /\ blocks[i].at \in Nat /\ blocks[i].size \in Nat /\ hold[o].ptr \in Nat /\ hold[o].n \in Nat
      /\ End(blocks[i]) = blocks[i].at + HeaderSize + blocks[i].size
      /\ heap_end \in Nat /\ MaxEnd \in Nat /\ HeaderSize \in Nat
  BY <1>1, <1>2, ChainTypes, HoldingTypes, Layout
<1>4. hold[o].ptr + blocks[i].size <= MaxEnd
  <2>1. End(blocks[i]) <= heap_end
    BY <1>1, <1>2, EndsWithin
  <2>. QED
    BY <1>1, <1>2, <1>3, <2>1
<1>5. OldSize(o) = blocks[i].size
  BY DEF OldSize, i
<1>6. DOMAIN mem = 0 .. MaxEnd - 1 /\ \A a \in 0 .. MaxEnd - 1 : mem[a] \in Owners \cup {Header, "any"}
  BY <1>1 DEF Contents
<1>7. c = [a \in 0 .. MaxEnd - 1 |->
             IF a \in p .. p + blocks[i].size - 1 THEN mem[a - p + hold[o].ptr] ELSE mem[a]]
  BY <1>5, <1>6 DEF Copied
<1>. HIDE DEF c
<1>8. \A a \in p .. p + blocks[i].size - 1 : a - p + hold[o].ptr \in 0 .. MaxEnd - 1
  BY <1>3, <1>4
<1>9. c \in Contents
  BY <1>6, <1>7, <1>8 DEF Contents
<1>10. ASSUME NEW a \in 0 .. MaxEnd - 1, a \in p .. p + hold[o].n - 1 PROVE c[a] = o
  <2>1. a \in p .. p + blocks[i].size - 1
    BY <1>2, <1>3, <1>10, SMTT(30)
  <2>2. a - p + hold[o].ptr \in hold[o].ptr .. hold[o].ptr + hold[o].n - 1
    BY <1>3, <1>10
  <2>3. mem[a - p + hold[o].ptr] = o
    BY <1>1, <2>2 DEF BytesOf
  <2>. QED
    BY <1>7, <2>1, <2>3
<1>11. \A a \in 0 .. MaxEnd - 1 : a \notin p .. p + OldSize(o) - 1 => c[a] = mem[a]
  BY <1>5, <1>7
<1>. QED
  BY <1>9, <1>10, <1>11 DEF c

(* krealloc elsewhere: a block nobody has, the old bytes in it, and the    *)
(* old block given back.                                                   *)
LEMMA ReallocMovesHInv ==
  ASSUME HInv, NEW o \in Owners, NEW n \in Sizes, krealloc_moves(o, n)
  PROVE  HInv'
<1>1. /\ heap_end <= MaxEnd /\ heap_end >= InitialSize /\ Chain(blocks, heap_end) /\ Parted(blocks)
      /\ hold \in Holding /\ HeldIn(blocks, hold) /\ AllHeld(blocks, hold)
      /\ \A q \in Owners : \A a \in BytesOf(hold, q) : mem[a] = q
      /\ \A a \in HeaderBytes(blocks) : mem[a] = Header
  BY DEF HInv, IntactIn
<1>2. hold[o] # Nothing /\ OldSize(o) < n
  BY DEF krealloc_moves
<1>3. PICK k \in Grows :
        LET p == Address(Rounded(n), k)
            taken == Allocated(Rounded(n), k)
        IN  /\ Enough(Rounded(n), k)
            /\ blocks' = Replaced(taken, o)
            /\ heap_end' = heap_end + k * GrowSize
            /\ hold' = [hold EXCEPT ![o] = [ptr |-> p, n |-> n]]
            /\ mem' = Written(Written(Copied(o, p), taken, hold', o, p + hold[o].n, p + n - 1),
                              blocks', hold', o, 1, 0)
  BY DEF krealloc_moves
<1>. DEFINE ts == Allocated(Rounded(n), k)
            p == Address(Rounded(n), k)
            e == heap_end + k * GrowSize
            r == [ptr |-> p, n |-> n]
            h == [hold EXCEPT ![o] = r]
            i == BlockOf(ts, hold[o].ptr)
            cs == Freed(ts, i)
            x == blocks[BlockOf(blocks, hold[o].ptr)]
            from == p + hold[o].n
            to == p + n - 1
            w == Written(Copied(o, p), ts, h, o, from, to)
<1>4. /\ blocks' = cs /\ heap_end' = e /\ hold' = h /\ mem' = Written(w, cs, h, o, 1, 0)
  BY <1>3 DEF Replaced
<1>5. x \in Used(blocks) /\ x.at + HeaderSize = hold[o].ptr /\ hold[o].n <= x.size /\ OldSize(o) = x.size
  BY <1>1, <1>2, OwnBlock DEF OldSize
<1>. HIDE DEF x
<1>6. /\ n \in Nat /\ hold[o].ptr \in Nat /\ hold[o].n \in Nat /\ HeaderSize \in Nat
      /\ x.at \in Nat /\ x.size \in Nat
  <2>1. PICK j \in 1 .. Len(blocks) : x = blocks[j]
    BY <1>5 DEF Used
  <2>. QED
    BY <1>1, <2>1, HoldingTypes, ChainTypes, Layout, HeapAssumption DEF SizesAssumption
<1>7. n > 0 /\ hold[o].n < n
  BY <1>2, <1>5, <1>6
<1>8. /\ Chain(ts, e) /\ Parted(ts) /\ e <= MaxEnd /\ e >= heap_end
      /\ \E b \in Block : /\ b.at + HeaderSize = p /\ b.size >= n /\ ~b.free
                          /\ Used(ts) = Used(blocks) \cup {b}
      /\ \A y \in Used(blocks) : y.at + HeaderSize # p
  BY <1>1, <1>3, <1>6, <1>7, AllocatedBlock
<1>. HIDE DEF ts, p, e
<1>9. PICK b \in Block : /\ b.at + HeaderSize = p /\ b.size >= n /\ ~b.free
                         /\ Used(ts) = Used(blocks) \cup {b}
  BY <1>8
<1>10. p \in Nat /\ from \in Int /\ to \in Int
  BY <1>6, <1>9 DEF Block
<1>11. r \in [ptr : Nat, n : Sizes \cup {0}] /\ r.ptr = p /\ r.n = n
  BY <1>10
<1>12. h = [hold EXCEPT ![o] = r]
  OBVIOUS
<1>. HIDE DEF r, h
<1>13. h \in Holding /\ h[o].ptr = p /\ h[o].n = n /\ \A q \in Owners : q # o => h[q] = hold[q]
  <2>1. hold \in Holding /\ o \in Owners /\ r \in [ptr : Nat, n : Sizes \cup {0}]
    BY <1>1, <1>11
  <2>2. h \in Holding /\ h[o] = r /\ \A q \in Owners : q # o => h[q] = hold[q]
    BY ONLY <1>12, <2>1 DEF Holding
  <2>. QED
    BY <1>11, <2>2
<1>14. /\ HeldIn(ts, h) /\ h[o] # Nothing
       /\ BytesOf(h, o) = p .. p + n - 1
       /\ \A q \in Owners : q # o => BytesOf(h, q) = BytesOf(hold, q)
  <2>1. \A y \in Used(blocks) : y.at + HeaderSize # p
    BY <1>8
  <2>. QED
    BY <1>1, <1>7, <1>9, <1>10, <1>13, <2>1, HeldMore
<1>15. w \in Contents /\ IntactIn(w, ts, h)
  <2>. DEFINE m == Copied(o, p)
  <2>1. /\ m \in Contents
        /\ \A a \in 0 .. MaxEnd - 1 : /\ a \notin p .. p + OldSize(o) - 1 => m[a] = mem[a]
                                      /\ a \in p .. p + hold[o].n - 1 => m[a] = o
    BY <1>2, <1>10, CopiedBytes
  <2>. HIDE DEF m
  <2>2. \A a \in p .. p + OldSize(o) - 1 : a \in BytesOf(h, o)
    BY <1>2, <1>5, <1>6, <1>10, <1>14
  <2>3. \A a \in from .. to : o \in Owners /\ a \in BytesOf(h, o)
    BY <1>6, <1>10, <1>14
  <2>4. e \in Nat /\ MaxEnd \in Nat
    BY <1>8, ChainTypes, Layout
  <2>5. ASSUME NEW q \in Owners, NEW a \in BytesOf(h, q), a \notin from .. to PROVE m[a] = q
    <3>1. a \in 0 .. e - 1 /\ \A v \in Owners : a \in BytesOf(h, v) => v = q
      BY <1>8, <1>13, <1>14, OwnBytes
    <3>2. a \in 0 .. MaxEnd - 1
      BY <1>8, <2>4, <3>1
    <3>3. CASE q = o
      <4>0. a \in p .. p + n - 1
        BY ONLY <1>14, <2>5, <3>3, Zenon
      <4>1. a \in p .. p + hold[o].n - 1
        <5>1. a \notin p + hold[o].n .. p + n - 1
          BY ONLY <2>5
        <5>. QED
          BY ONLY <1>6, <1>10, <4>0, <5>1
      <4>. QED
        BY <2>1, <3>2, <3>3, <4>1
    <3>4. CASE q # o
      <4>1. a \notin p .. p + OldSize(o) - 1
        BY <2>2, <3>1, <3>4
      <4>2. a \in BytesOf(hold, q)
        BY <1>14, <3>4
      <4>. QED
        BY <1>1, <2>1, <3>2, <4>1, <4>2
    <3>. QED
      BY <3>3, <3>4
  <2>6. ASSUME NEW a \in HeaderBytes(ts), a \in HeaderBytes(blocks) PROVE m[a] = Header
    <3>1. a \in 0 .. MaxEnd - 1
      <4>1. a \in 0 .. e - 1
        BY <1>8, BytesOfHeaders
      <4>. QED
        BY <1>8, <2>4, <4>1
    <3>2. a \notin p .. p + OldSize(o) - 1
      <4>1. SUFFICES ASSUME a \in p .. p + OldSize(o) - 1 PROVE FALSE
        OBVIOUS
      <4>2. a \in BytesOf(h, o)
        BY <2>2, <4>1
      <4>. QED
        BY <1>8, <1>13, <1>14, <2>6, <4>2, OwnBytes
    <3>. QED
      BY <1>1, <2>1, <2>6, <3>1, <3>2
  <2>. HIDE DEF from, to
  <2>7. \A q \in Owners : \A a \in BytesOf(h, q) : a \notin from .. to => m[a] = q
    BY <2>5
  <2>8. \A a \in HeaderBytes(ts) : a \in HeaderBytes(blocks) => m[a] = Header
    BY <2>6
  <2>9. Written(m, ts, h, o, from, to) \in Contents /\ IntactIn(Written(m, ts, h, o, from, to), ts, h)
    BY <1>8, <1>10, <1>13, <1>14, <2>1, <2>3, <2>7, <2>8, WrittenIntact
  <2>. QED
    BY <2>9 DEF m
<1>. HIDE DEF w, from, to
<1>16. i \in 1 .. Len(ts) /\ ts[i] = x /\ ~ts[i].free
  <2>1. x \in Used(ts)
    BY <1>5, <1>9
  <2>. QED
    BY <1>5, <1>8, <2>1, BlockFound
<1>. HIDE DEF i
<1>17. ASSUME NEW q \in Owners, h[q] # Nothing PROVE h[q].ptr # ts[i].at + HeaderSize
  <2>1. CASE q = o
    BY <1>5, <1>8, <1>13, <1>16, <2>1
  <2>2. CASE q # o
    BY <1>1, <1>2, <1>5, <1>13, <1>16, <1>17, <2>2 DEF HeldIn
  <2>. QED
    BY <2>1, <2>2
<1>18. ASSUME NEW y \in Used(ts) \ {ts[i]}
       PROVE  \E q \in Owners : h[q] # Nothing /\ h[q].ptr = y.at + HeaderSize
  <2>1. CASE y = b
    BY <1>9, <1>13, <1>14, <2>1
  <2>2. CASE y # b
    <3>1. y \in Used(blocks)
      BY <1>9, <2>2
    <3>2. PICK q \in Owners : hold[q] # Nothing /\ hold[q].ptr = y.at + HeaderSize
      BY <1>1, <3>1 DEF AllHeld
    <3>3. q # o
      BY <1>1, <1>5, <1>16, <3>1, <3>2, SameBlock
    <3>. QED
      BY <1>13, <3>2, <3>3
  <2>. QED
    BY <2>1, <2>2
<1>19. /\ Chain(cs, e) /\ Parted(cs) /\ HeldIn(cs, h) /\ AllHeld(cs, h)
       /\ HeaderBytes(cs) \subseteq HeaderBytes(ts)
  BY <1>8, <1>13, <1>14, <1>16, <1>17, <1>18, FreedHeld
<1>. HIDE DEF cs
<1>20. mem' \in Contents /\ IntactIn(mem', cs, h)
  <2>1. \A a \in 1 .. 0 : FALSE
    OBVIOUS
  <2>2. \A q \in Owners : \A a \in BytesOf(h, q) : w[a] = q
    BY <1>15 DEF IntactIn
  <2>3. \A a \in HeaderBytes(cs) : w[a] = Header
    BY <1>15, <1>19 DEF IntactIn
  <2>4. Written(w, cs, h, o, 1, 0) \in Contents /\ IntactIn(Written(w, cs, h, o, 1, 0), cs, h)
    BY <1>8, <1>13, <1>15, <1>19, <2>1, <2>2, <2>3, WrittenIntact
  <2>. QED
    BY <1>4, <2>4
<1>21. e >= InitialSize
  <2>1. heap_end \in Nat /\ e \in Nat /\ InitialSize \in Nat
    BY <1>1, <1>8, ChainTypes, Layout
  <2>. QED
    BY <1>1, <1>8, <2>1
<1>22. HInv' = (/\ e <= MaxEnd /\ e >= InitialSize /\ Chain(cs, e) /\ Parted(cs)
                /\ mem' \in Contents /\ h \in Holding
                /\ HeldIn(cs, h) /\ AllHeld(cs, h) /\ IntactIn(mem', cs, h))
  BY <1>4 DEF HInv
<1>. QED
  BY <1>8, <1>13, <1>19, <1>20, <1>21, <1>22

(* Every call, and doing nothing, keeps the invariant.                     *)
LEMMA StepHInv ==
  ASSUME HInv, Next \/ UNCHANGED vars
  PROVE  HInv'
<1>1. ASSUME NEW o \in Owners, kfree(o) PROVE HInv'
  BY <1>1, FreeHInv
<1>2. ASSUME NEW o \in Owners, NEW n \in Sizes, kmalloc(o, n) PROVE HInv'
  BY <1>2, MallocHInv
<1>3. ASSUME NEW o \in Owners, NEW n \in Sizes, kmalloc_fails(o, n) PROVE HInv'
  BY <1>3, OutOfMemoryHInv DEF kmalloc_fails
<1>4. ASSUME NEW o \in Owners, NEW n \in Sizes, krealloc_stays(o, n) PROVE HInv'
  BY <1>4, ReallocStaysHInv
<1>5. ASSUME NEW o \in Owners, NEW n \in Sizes, krealloc_moves(o, n) PROVE HInv'
  BY <1>5, ReallocMovesHInv
<1>6. ASSUME NEW o \in Owners, NEW n \in Sizes, krealloc_fails(o, n) PROVE HInv'
  BY <1>6, OutOfMemoryHInv DEF krealloc_fails
<1>7. ASSUME UNCHANGED vars PROVE HInv'
  BY <1>7 DEF HInv, vars
<1>. QED
  BY <1>1, <1>2, <1>3, <1>4, <1>5, <1>6, <1>7 DEF Next

(* The inductive invariant says that the heap is as the runs check it.     *)
LEMMA HInvSafe ==
  ASSUME HInv PROVE HeapSafe
<1>1. /\ heap_end <= MaxEnd /\ heap_end >= InitialSize /\ Chain(blocks, heap_end) /\ Parted(blocks)
      /\ mem \in Contents /\ hold \in Holding
      /\ HeldIn(blocks, hold) /\ AllHeld(blocks, hold) /\ IntactIn(mem, blocks, hold)
  BY DEF HInv
<1>2. /\ DOMAIN blocks = 1 .. Len(blocks) /\ Len(blocks) \in Nat \ {0} /\ heap_end \in Nat
      /\ \A i \in 1 .. Len(blocks) : /\ blocks[i].at \in Nat /\ blocks[i].size \in Nat
                                     /\ blocks[i].free \in BOOLEAN
                                     /\ End(blocks[i]) = blocks[i].at + HeaderSize + blocks[i].size
  BY <1>1, ChainTypes
<1>3. HeaderSize \in Nat \ {0} /\ InitialSize \in Nat \ {0} /\ MaxEnd \in Nat
  BY Layout
<1>4. /\ blocks[1].at = 0 /\ End(blocks[Len(blocks)]) = heap_end
      /\ \A i \in 1 .. Len(blocks) : blocks[i].size > 0 /\ blocks[i].size % Align = 0
      /\ \A i \in 1 .. Len(blocks) - 1 : End(blocks[i]) = blocks[i + 1].at
  BY <1>1, ChainParts
<1>5. \A i \in 1 .. Len(blocks) : End(blocks[i]) <= heap_end
  BY <1>1, EndsWithin
<1>6. TypeOK
  <2>1. heap_end \in InitialSize .. MaxEnd
    BY <1>1, <1>2, <1>3
  <2>2. ASSUME NEW i \in 1 .. Len(blocks)
        PROVE  blocks[i].at \in 0 .. heap_end - 1 /\ blocks[i].size \in 0 .. heap_end
    <3>1. /\ blocks[i].at \in Nat /\ blocks[i].size \in Nat
          /\ blocks[i].at + HeaderSize + blocks[i].size <= heap_end
      BY <1>2, <1>5
    <3>. QED
      BY ONLY <1>2, <1>3, <3>1
  <2>3. ASSUME NEW o \in Owners
        PROVE  hold[o].ptr \in 0 .. heap_end - 1 /\ hold[o].n \in Sizes \cup {0}
    <3>1. /\ hold[o].n \in Sizes \cup {0} /\ hold[o].ptr \in Nat
          /\ (hold[o] = Nothing => hold[o].ptr = 0)
      BY <1>1, HoldingTypes
    <3>2. CASE hold[o] = Nothing
      BY <1>1, <1>2, <1>3, <3>1, <3>2
    <3>3. CASE hold[o] # Nothing
      <4>1. PICK b \in Used(blocks) : b.at + HeaderSize = hold[o].ptr
        BY <1>1, <3>3 DEF HeldIn
      <4>2. PICK i \in 1 .. Len(blocks) : b = blocks[i]
        BY DEF Used
      <4>3. /\ blocks[i].at \in Nat /\ blocks[i].size \in Nat
            /\ blocks[i].at + HeaderSize + blocks[i].size <= heap_end
        BY <1>2, <1>5
      <4>4. blocks[i].size > 0
        BY <1>4
      <4>5. hold[o].ptr = blocks[i].at + HeaderSize
        BY <4>1, <4>2
      <4>6. hold[o].ptr \in 0 .. heap_end - 1
        BY ONLY <1>2, <1>3, <4>3, <4>4, <4>5
      <4>. QED
        BY <3>1, <4>6
    <3>. QED
      BY <3>2, <3>3
  <2>4. mem \in [0 .. MaxEnd - 1 -> Owners \cup {Header, "any"}]
    BY <1>1 DEF Contents
  <2>. QED
    BY <1>2, <2>1, <2>2, <2>3, <2>4 DEF TypeOK
<1>7. Tiled
  <2>1. ASSUME NEW i \in 1 .. Len(blocks)
        PROVE  blocks[i].at + HeaderSize + blocks[i].size
                 = IF i < Len(blocks) THEN blocks[i + 1].at ELSE heap_end
    <3>1. CASE i < Len(blocks)
      <4>1. i \in 1 .. Len(blocks) - 1
        BY <1>2, <3>1
      <4>. QED
        BY <1>2, <1>4, <3>1, <4>1
    <3>2. CASE i = Len(blocks)
      BY <1>2, <1>4, <3>2
    <3>3. Len(blocks) \in Nat /\ i \in 1 .. Len(blocks)
      BY <1>2
    <3>4. i < Len(blocks) \/ i = Len(blocks)
      BY ONLY <3>3
    <3>. QED
      BY ONLY <3>1, <3>2, <3>4
  <2>2. ASSUME NEW i \in 1 .. Len(blocks), blocks[i].free, i < Len(blocks) PROVE ~blocks[i + 1].free
    <3>1. i \in 1 .. Len(blocks) - 1
      BY <1>2, <2>2
    <3>. QED
      BY <1>1, <2>2, <3>1, Zenon DEF Parted
  <2>3. \A i \in 1 .. Len(blocks) : blocks[i].free /\ i < Len(blocks) => ~blocks[i + 1].free
    BY ONLY <2>2
  <2>4. \A i \in 1 .. Len(blocks) :
           blocks[i].at + HeaderSize + blocks[i].size
             = IF i < Len(blocks) THEN blocks[i + 1].at ELSE heap_end
    BY ONLY <2>1
  <2>. QED
    BY ONLY <1>2, <1>4, <2>3, <2>4, Zenon DEF Tiled
<1>8. Intact
  BY <1>1 DEF Intact, IntactIn, BytesOf
<1>9. NothingLost
  <2>1. ASSUME NEW i \in 1 .. Len(blocks), ~blocks[i].free
        PROVE  \E o \in Owners : hold[o] # Nothing /\ hold[o].ptr = blocks[i].at + HeaderSize
    <3>1. blocks[i] \in Used(blocks)
      BY <2>1, Zenon DEF Used
    <3>. QED
      BY <1>1, <3>1 DEF AllHeld
  <2>2. ASSUME NEW o \in Owners, hold[o] # Nothing
        PROVE  \E i \in 1 .. Len(blocks) : ~blocks[i].free /\ hold[o].ptr = blocks[i].at + HeaderSize
    <3>1. PICK b \in Used(blocks) : b.at + HeaderSize = hold[o].ptr
      BY <1>1, <2>2 DEF HeldIn
    <3>2. PICK i \in 1 .. Len(blocks) : b = blocks[i] /\ ~blocks[i].free
      BY Zenon DEF Used
    <3>. QED
      BY <3>1, <3>2, Zenon
  <2>. DEFINE inUse == {j \in DOMAIN blocks : ~blocks[j].free}
              holders == {q \in Owners : hold[q] # Nothing}
  <2>3. \A i : i \in inUse <=> i \in 1 .. Len(blocks) /\ ~blocks[i].free
    BY <1>2, Zenon
  <2>4. \A o : o \in holders <=> o \in Owners /\ hold[o] # Nothing
    OBVIOUS
  <2>. HIDE DEF inUse, holders
  <2>5. \A i \in inUse : \E o \in holders : blocks[i].at + HeaderSize = hold[o].ptr
    BY <2>1, <2>3, <2>4
  <2>6. \A o \in holders : \E i \in inUse : blocks[i].at + HeaderSize = hold[o].ptr
    BY <2>2, <2>3, <2>4
  <2>7. {blocks[i].at + HeaderSize : i \in inUse} = {hold[o].ptr : o \in holders}
    BY ONLY <2>5, <2>6
  <2>. QED
    BY <2>7 DEF NothingLost, inUse, holders
<1>. QED
  BY <1>6, <1>7, <1>8, <1>9 DEF HeapSafe

-----------------------------------------------------------------------------
(* heap.c: whatever is allocated, resized and freed, and wherever the      *)
(* frames run out, the list describes the whole heap without gaps and      *)
(* without neighbouring free blocks, contents and headers stay, and the    *)
(* blocks in use are those somebody holds.                                 *)
THEOREM HeapStaysSafe == Spec => []HeapSafe
<1>1. Init => HInv
  BY InitHInv
<1>2. HInv /\ [Next]_vars => HInv'
  BY StepHInv
<1>3. HInv => HeapSafe
  BY HInvSafe
<1>. QED
  BY <1>1, <1>2, <1>3, PTL DEF Spec

-----------------------------------------------------------------------------
(***************************************************************************)
(* The page frames.  First induction along ranges, and the functions that  *)
(* recursive definitions define.                                           *)
(***************************************************************************)
\* Every nonempty set of natural numbers has a least element.
LEMMA LeastNat ==
  ASSUME NEW S \in SUBSET Nat, S # {}
  PROVE  \E x \in S : \A y \in S : x <= y
<1>1. PICK x \in S : \A y \in S : ~ (<<y, x>> \in OpToRel(<, Nat))
  BY NatLessThanWellFounded, WFMin
<1>2. \A y \in S : ~ (y < x)
  BY <1>1 DEF OpToRel
<1>. QED
  BY <1>2

\* Induction along a range.
LEMMA UpTo ==
  ASSUME NEW n \in Nat, NEW S, 0 \in S, \A k \in 1 .. n : k - 1 \in S => k \in S
  PROVE  \A k \in 0 .. n : k \in S
<1>. DEFINE Bad == (0 .. n) \ S
<1>1. SUFFICES ASSUME Bad # {} PROVE FALSE
  OBVIOUS
<1>2. Bad \in SUBSET Nat
  OBVIOUS
<1>3. PICK m \in Bad : \A y \in Bad : m <= y
  BY ONLY <1>1, <1>2, LeastNat, Zenon
<1>4. m \in 1 .. n /\ m - 1 \in 0 .. n
  BY <1>3
<1>5. m - 1 \in S
  BY <1>3, <1>4
<1>. QED
  BY <1>3, <1>4, <1>5

\* The functions that go through a range step by step, as a recursive
\* definition does.
Steps(X, a, n, step) ==
  {g \in [0 .. n -> X] : g[0] = a /\ \A k \in 1 .. n : g[k] = step[<<g[k - 1], k>>]}

\* There is such a function.
LEMMA StepsExist ==
  ASSUME NEW X, NEW a \in X, NEW n \in Nat, NEW step \in [X \X (1 .. n) -> X]
  PROVE  Steps(X, a, n, step) # {}
<1>. DEFINE Reached == {m \in 0 .. n : \E g \in [0 .. m -> X] :
                         /\ g[0] = a
                         /\ \A k \in 1 .. m : g[k] = step[<<g[k - 1], k>>]}
<1>1. 0 \in Reached
  <2>. DEFINE f == [j \in 0 .. 0 |-> a]
  <2>1. f \in [0 .. 0 -> X] /\ f[0] = a /\ \A k \in 1 .. 0 : f[k] = step[<<f[k - 1], k>>]
    OBVIOUS
  <2>. HIDE DEF f
  <2>2. 0 \in 0 .. n
    OBVIOUS
  <2>. QED
    BY <2>1, <2>2
<1>2. ASSUME NEW m \in 1 .. n, m - 1 \in Reached PROVE m \in Reached
  <2>1. PICK g \in [0 .. m - 1 -> X] : /\ g[0] = a
                                       /\ \A k \in 1 .. m - 1 : g[k] = step[<<g[k - 1], k>>]
    BY <1>2
  <2>. DEFINE h == [j \in 0 .. m |-> IF j = m THEN step[<<g[m - 1], m>>] ELSE g[j]]
  <2>2. m - 1 \in 0 .. m - 1 /\ 0 \in 0 .. m - 1 /\ m \in 0 .. m /\ m \in 0 .. n
    OBVIOUS
  <2>3. step[<<g[m - 1], m>>] \in X
    BY <2>1, <2>2
  <2>4. \A j \in 0 .. m : j # m => j \in 0 .. m - 1 /\ g[j] \in X
    BY <2>1
  <2>5. h \in [0 .. m -> X]
    BY <2>3, <2>4
  <2>6. h[m] = step[<<g[m - 1], m>>] /\ \A j \in 0 .. m - 1 : h[j] = g[j]
    BY <2>2
  <2>. HIDE DEF h
  <2>7. h[0] = a
    BY <2>1, <2>2, <2>6
  <2>8. ASSUME NEW k \in 1 .. m PROVE h[k] = step[<<h[k - 1], k>>]
    <3>1. k - 1 \in 0 .. m - 1
      OBVIOUS
    <3>2. CASE k = m
      BY <2>6, <3>1, <3>2
    <3>3. CASE k # m
      <4>1. k \in 1 .. m - 1 /\ k \in 0 .. m - 1
        BY <3>3
      <4>. QED
        BY <2>1, <2>6, <3>1, <4>1
    <3>. QED
      BY <3>2, <3>3
  <2>. QED
    BY <2>2, <2>5, <2>7, <2>8
<1>3. n \in Reached => \E g \in [0 .. n -> X] : /\ g[0] = a
                                              /\ \A k \in 1 .. n : g[k] = step[<<g[k - 1], k>>]
  OBVIOUS
<1>. HIDE DEF Reached
<1>4. \A k \in 0 .. n : k \in Reached
  BY <1>1, <1>2, UpTo
<1>5. n \in 0 .. n
  OBVIOUS
<1>. QED
  BY <1>3, <1>4, <1>5 DEF Steps

-----------------------------------------------------------------------------
(* Bounded sets of numbers have a greatest element, and what Min and Max   *)
(* choose is the least and the greatest.                                   *)
LEMMA MinIs ==
  ASSUME NEW S \in SUBSET Nat, S # {}
  PROVE  Physical!Min(S) \in S /\ Physical!Min(S) \in Nat /\ \A y \in S : Physical!Min(S) <= y
<1>1. \E x \in S : \A y \in S : x <= y
  BY ONLY S \in SUBSET Nat, S # {}, LeastNat, Zenon
<1>2. Physical!Min(S) \in S /\ \A y \in S : Physical!Min(S) <= y
  BY <1>1 DEF Physical!Min
<1>. QED
  BY <1>2

(* Max of a set with a bound.                                              *)
LEMMA MaxIs ==
  ASSUME NEW S \in SUBSET Nat, S # {}, NEW b \in Nat, \A y \in S : y <= b
  PROVE  Physical!Max(S) \in S /\ Physical!Max(S) \in Nat /\ \A y \in S : y <= Physical!Max(S)
<1>. DEFINE U == {u \in Nat : \A y \in S : y <= u}
<1>1. U \in SUBSET Nat /\ U # {}
  OBVIOUS
<1>2. PICK u \in U : \A v \in U : u <= v
  <2>. HIDE DEF U
  <2>. QED
    BY <1>1, LeastNat
<1>3. u \in S
  <2>1. SUFFICES ASSUME u \notin S PROVE FALSE
    OBVIOUS
  <2>2. PICK s \in S : TRUE
    OBVIOUS
  <2>3. s <= u /\ s # u /\ s \in Nat /\ u \in Nat
    BY <1>2, <2>1, <2>2
  <2>4. u - 1 \in U
    BY <1>2, <2>1, <2>3
  <2>. QED
    BY <1>2, <2>3, <2>4
<1>4. \E x \in S : \A y \in S : x >= y
  BY <1>2, <1>3
<1>5. Physical!Max(S) \in S /\ \A y \in S : Physical!Max(S) >= y
  BY <1>4 DEF Physical!Max
<1>. QED
  BY <1>5

(* Finitely many numbers have a bound.                                     *)
LEMMA Bounded ==
  ASSUME NEW n \in Nat, NEW f \in [1 .. n -> Nat]
  PROVE  \E b \in Nat : \A k \in 1 .. n : f[k] <= b
<1>. DEFINE S == {m \in 0 .. n : \E b \in Nat : \A k \in 1 .. m : f[k] <= b}
<1>1. 0 \in S
  OBVIOUS
<1>2. ASSUME NEW m \in 1 .. n, m - 1 \in S PROVE m \in S
  <2>1. PICK b \in Nat : \A k \in 1 .. m - 1 : f[k] <= b
    BY <1>2
  <2>2. f[m] \in Nat
    OBVIOUS
  <2>3. \A k \in 1 .. m : f[k] <= b + f[m]
    <3>. TAKE k \in 1 .. m
    <3>1. k = m \/ k \in 1 .. m - 1
      OBVIOUS
    <3>2. f[k] \in Nat
      OBVIOUS
    <3>. QED
      BY <2>1, <2>2, <3>1, <3>2
  <2>4. b + f[m] \in Nat /\ m \in 0 .. n
    BY <2>1, <2>2
  <2>. QED
    BY <2>3, <2>4
<1>3. n \in S => \E b \in Nat : \A k \in 1 .. n : f[k] <= b
  OBVIOUS
<1>. HIDE DEF S
<1>4. \A k \in 0 .. n : k \in S
  BY <1>1, <1>2, UpTo
<1>. QED
  BY <1>3, <1>4

-----------------------------------------------------------------------------
(***************************************************************************)
(* pmm_init: where frames and the manager's own tables lie.                *)
(***************************************************************************)
(* Rounding up to units.                                                   *)
LEMMA FramesUpIs ==
  ASSUME NEW n \in Nat, NEW unit \in Nat \ {0}
  PROVE  Physical!Up(n, unit) \in Nat /\ n <= unit * Physical!Up(n, unit)
<1>1. PICK q \in Int : \E r \in 0 .. unit - 1 :
        q = (n + unit - 1) \div unit /\ n + unit - 1 = unit * q + r
  BY DivMod
<1>2. n <= unit * q
  BY <1>1
<1>3. q >= 0
  <2>1. SUFFICES ASSUME q <= -1 PROVE FALSE
    BY <1>1
  <2>2. unit * q <= unit * (-1)
    BY <1>1, <2>1
  <2>. QED
    BY <1>1, <2>2
<1>. QED
  BY <1>1, <1>2, <1>3 DEF Physical!Up

(* A whole page below a bound of bytes.                                    *)
LEMMA FramesDownIs ==
  ASSUME NEW n \in Nat, NEW unit \in Nat \ {0}
  PROVE  n \div unit \in Nat /\ unit * (n \div unit) <= n
<1>1. PICK q \in Int : \E r \in 0 .. unit - 1 : q = n \div unit /\ n = unit * q + r
  BY DivMod
<1>2. q >= 0
  <2>1. SUFFICES ASSUME q <= -1 PROVE FALSE
    BY <1>1
  <2>2. unit * q <= unit * (-1)
    BY <1>1, <2>1
  <2>. QED
    BY <1>1, <2>2
<1>. QED
  BY <1>1, <1>2

(* Multiples are ordered as their factors are.                             *)
LEMMA Times ==
  ASSUME NEW A \in Nat, NEW x \in Int, NEW y \in Int, x <= y
  PROVE  A * x <= A * y
BY SMT

(* And the other way round.                                                *)
LEMMA TimesLess ==
  ASSUME NEW A \in Nat \ {0}, NEW x \in Int, NEW y \in Int, A * x <= A * y
  PROVE  x <= y
<1>1. SUFFICES ASSUME y + 1 <= x PROVE FALSE
  OBVIOUS
<1>2. A * (y + 1) <= A * x
  BY <1>1, Times
<1>3. A * (y + 1) = A * y + A
  OBVIOUS
<1>. QED
  BY <1>2, <1>3

(* An instance counts like the modules of its own.                         *)
LEMMA FramesSame ==
  ASSUME NEW S
  PROVE  Physical!Cardinality(S) = Cardinality(S)
BY DEF Cardinality, Physical!Cardinality

(* The entries of a map.                                                   *)
LEMMA FramesEntryIs ==
  ASSUME Physical!PageAssumption, NEW mm \in Maps, NEW k \in DOMAIN mm
  PROVE  /\ mm[k].base \in Nat /\ mm[k].length \in Nat
         /\ Physical!FirstPage(mm[k]) \in Nat \ {0} /\ Physical!EndPage(mm[k]) \in Nat
         /\ mm[k].base <= FramePage * Physical!FirstPage(mm[k])
         /\ FramePage * Physical!EndPage(mm[k]) <= mm[k].base + mm[k].length
<1>1. mm[k] \in Physical!Areas
  BY ElementOfSeq DEF Physical!PageAssumption
<1>2. /\ mm[k].base \in Nat /\ mm[k].length \in Nat /\ FramePage \in Nat \ {0}
      /\ mm[k].base + mm[k].length \in Nat
  BY <1>1 DEF Physical!Areas, Physical!PageAssumption
<1>3. Physical!EndPage(mm[k]) \in Nat /\ FramePage * Physical!EndPage(mm[k]) <= mm[k].base + mm[k].length
  BY <1>2, FramesDownIs DEF Physical!EndPage
<1>. DEFINE u == Physical!Up(mm[k].base, FramePage)
<1>4. u \in Nat /\ mm[k].base <= FramePage * u
  BY <1>2, FramesUpIs
<1>. HIDE DEF u
<1>5. Physical!FirstPage(mm[k]) \in Nat /\ u <= Physical!FirstPage(mm[k]) /\ 1 <= Physical!FirstPage(mm[k])
  <2>1. {u, 1} \in SUBSET Nat /\ {u, 1} # {} /\ u + 1 \in Nat /\ \A y \in {u, 1} : y <= u + 1
    BY <1>4
  <2>2. Physical!Max({u, 1}) \in Nat /\ \A y \in {u, 1} : y <= Physical!Max({u, 1})
    BY ONLY <2>1, MaxIs
  <2>. QED
    BY <2>2 DEF Physical!FirstPage, u
<1>6. FramePage * u <= FramePage * Physical!FirstPage(mm[k])
  BY <1>2, <1>4, <1>5, Times
<1>7. FramePage * u \in Nat /\ FramePage * Physical!FirstPage(mm[k]) \in Nat
  BY <1>2, <1>4, <1>5
<1>. QED
  BY <1>2, <1>3, <1>4, <1>5, <1>6, <1>7

(* No usable range ends above the memory the manager has counts for.       *)
LEMMA FramesBelowTop ==
  ASSUME Physical!PageAssumption, NEW mm \in Maps
  PROVE  /\ Physical!TotalPages(mm) \in Nat
         /\ \A k \in Physical!Usable(mm) : Physical!EndPage(mm[k]) <= Physical!TotalPages(mm)
<1>. DEFINE J == {j \in DOMAIN mm : mm[j].type \in {"usable", "reclaimable", "kernel"}}
            S == {0} \cup {mm[k].base + mm[k].length : k \in J}
            n == Len(mm)
            end == [k \in 1 .. n |-> mm[k].base + mm[k].length]
<1>1. mm \in Seq(Physical!Areas) /\ FramePage \in Nat \ {0}
  BY DEF Physical!PageAssumption
<1>2. n \in Nat /\ DOMAIN mm = 1 .. n
  BY <1>1, LenProperties
<1>3. \A k \in DOMAIN mm : mm[k].base \in Nat /\ mm[k].length \in Nat
  BY FramesEntryIs
<1>4. end \in [1 .. n -> Nat]
  BY <1>2, <1>3
<1>5. PICK b \in Nat : \A k \in 1 .. n : end[k] <= b
  BY <1>2, <1>4, Bounded
<1>6. S \in SUBSET Nat /\ S # {} /\ \A y \in S : y <= b
  BY <1>2, <1>3, <1>5
<1>7. Physical!HighestAddress(mm) \in Nat /\ \A k \in J : mm[k].base + mm[k].length <= Physical!HighestAddress(mm)
  <2>1. Physical!HighestAddress(mm) = Physical!Max(S)
    BY DEF Physical!HighestAddress
  <2>2. \A k \in J : mm[k].base + mm[k].length \in S
    OBVIOUS
  <2>. HIDE DEF S
  <2>. QED
    BY <1>5, <1>6, <2>1, <2>2, MaxIs
<1>. HIDE DEF S, end
<1>8. Physical!TotalPages(mm) \in Nat /\ Physical!HighestAddress(mm) <= FramePage * Physical!TotalPages(mm)
  BY <1>1, <1>7, FramesUpIs DEF Physical!TotalPages
<1>9. ASSUME NEW k \in Physical!Usable(mm) PROVE Physical!EndPage(mm[k]) <= Physical!TotalPages(mm)
  <2>1. k \in DOMAIN mm /\ k \in J
    BY DEF Physical!Usable
  <2>2. Physical!EndPage(mm[k]) \in Nat /\ FramePage * Physical!EndPage(mm[k]) <= mm[k].base + mm[k].length
    BY <2>1, FramesEntryIs
  <2>3. mm[k].base + mm[k].length \in Nat
    BY <2>1, <1>3
  <2>4. FramePage * Physical!EndPage(mm[k]) \in Nat /\ FramePage * Physical!TotalPages(mm) \in Nat
    BY <1>1, <1>8, <2>2
  <2>5. FramePage * Physical!EndPage(mm[k]) <= FramePage * Physical!TotalPages(mm)
    BY <1>7, <1>8, <2>1, <2>2, <2>3, <2>4
  <2>. QED
    BY <1>1, <1>8, <2>2, <2>5, TimesLess
<1>. QED
  BY <1>8, <1>9

(* Where the manager's tables lie: at the start of the first usable range  *)
(* that has room, in as many frames as they need.                          *)
LEMMA FramesMetadataIs ==
  ASSUME Physical!PageAssumption, NEW mm \in Maps, Physical!MetadataStart(mm) # None
  PROVE  /\ \E k \in Physical!Usable(mm) : Physical!Metadata(mm) \subseteq Physical!FirstPage(mm[k]) .. Physical!EndPage(mm[k]) - 1
         /\ Cardinality(Physical!Metadata(mm)) = Physical!MetadataPages(mm) /\ Physical!MetadataPages(mm) \in Nat
         /\ Cardinality(Physical!Metadata(mm)) * FramePage >= Physical!Up(Physical!TotalPages(mm), 8) + 4 * Physical!TotalPages(mm)
<1>. DEFINE T == Physical!TotalPages(mm)
            n == Physical!Up(T, 8)
            need == 4 * Physical!Up(n, 4) + 4 * T
            big == {k \in Physical!Usable(mm) : Physical!EndPage(mm[k]) - Physical!FirstPage(mm[k]) >= Physical!MetadataPages(mm)}
<1>1. T \in Nat /\ FramePage \in Nat \ {0} /\ mm \in Seq(Physical!Areas)
  BY FramesBelowTop DEF Physical!PageAssumption
<1>2. n \in Nat
  <2>1. 8 \in Nat \ {0}
    OBVIOUS
  <2>. HIDE DEF T
  <2>. QED
    BY <1>1, <2>1, FramesUpIs
<1>3. Physical!Up(n, 4) \in Nat /\ n <= 4 * Physical!Up(n, 4)
  BY <1>2, FramesUpIs
<1>4. need \in Nat /\ n + 4 * T <= need
  BY <1>1, <1>2, <1>3
<1>5. Physical!MetadataPages(mm) \in Nat /\ need <= FramePage * Physical!MetadataPages(mm)
  <2>1. Physical!MetadataPages(mm) = Physical!Up(need, FramePage)
    BY DEF Physical!MetadataPages
  <2>. HIDE DEF need
  <2>. QED
    BY <1>1, <1>4, <2>1, FramesUpIs
<1>6. big # {} /\ Physical!MetadataStart(mm) = Physical!FirstPage(mm[Physical!Min(big)])
  BY DEF Physical!MetadataStart
<1>7. Physical!Min(big) \in big
  <2>1. big \in SUBSET Nat
    BY <1>1, LenProperties DEF Physical!Usable
  <2>. QED
    BY <1>6, <2>1, MinIs
<1>. DEFINE k == Physical!Min(big)
<1>8. k \in Physical!Usable(mm) /\ k \in DOMAIN mm /\ Physical!EndPage(mm[k]) - Physical!FirstPage(mm[k]) >= Physical!MetadataPages(mm)
  BY <1>7 DEF Physical!Usable
<1>. HIDE DEF k, big, need, n, T
<1>9. Physical!FirstPage(mm[k]) \in Nat /\ Physical!EndPage(mm[k]) \in Nat
  BY <1>8, FramesEntryIs
<1>10. Physical!Metadata(mm) = Physical!FirstPage(mm[k]) .. Physical!FirstPage(mm[k]) + Physical!MetadataPages(mm) - 1
  BY <1>6 DEF Physical!Metadata, k
<1>11. Physical!Metadata(mm) \subseteq Physical!FirstPage(mm[k]) .. Physical!EndPage(mm[k]) - 1
  BY <1>5, <1>8, <1>9, <1>10
<1>12. Cardinality(Physical!Metadata(mm)) = Physical!MetadataPages(mm)
  <2>. DEFINE a == Physical!FirstPage(mm[k])  b == Physical!FirstPage(mm[k]) + Physical!MetadataPages(mm) - 1
  <2>1. a \in Int /\ b \in Int
    BY <1>5, <1>9
  <2>2. Cardinality(a .. b) = IF a > b THEN 0 ELSE b - a + 1
    BY ONLY <2>1, FS_Interval, Zenon
  <2>. QED
    BY <1>5, <1>9, <1>10, <2>2
<1>13. Cardinality(Physical!Metadata(mm)) * FramePage >= n + 4 * T
  BY <1>1, <1>2, <1>4, <1>5, <1>12
<1>. QED
  BY <1>5, <1>8, <1>11, <1>12, <1>13 DEF n, T

(* A frame of a usable range consists of usable bytes, and is not the one  *)
(* at NULL.                                                                *)
LEMMA FramesInRange ==
  ASSUME Physical!PageAssumption, NEW mm \in Maps, NEW k \in Physical!Usable(mm),
         NEW p \in Physical!FirstPage(mm[k]) .. Physical!EndPage(mm[k]) - 1
  PROVE  /\ p # 0 /\ p \in 0 .. Physical!TotalPages(mm) - 1
         /\ Physical!ByteRange(p) \subseteq mm[k].base .. mm[k].base + mm[k].length - 1
<1>1. k \in DOMAIN mm /\ FramePage \in Nat \ {0}
  BY DEF Physical!Usable, Physical!PageAssumption
<1>2. /\ mm[k].base \in Nat /\ mm[k].length \in Nat
      /\ Physical!FirstPage(mm[k]) \in Nat \ {0} /\ Physical!EndPage(mm[k]) \in Nat
      /\ mm[k].base <= FramePage * Physical!FirstPage(mm[k])
      /\ FramePage * Physical!EndPage(mm[k]) <= mm[k].base + mm[k].length
  BY <1>1, FramesEntryIs
<1>3. Physical!TotalPages(mm) \in Nat /\ Physical!EndPage(mm[k]) <= Physical!TotalPages(mm)
  BY FramesBelowTop
<1>4. p \in Nat /\ Physical!FirstPage(mm[k]) <= p /\ p + 1 <= Physical!EndPage(mm[k])
  BY <1>2
<1>5. FramePage * Physical!FirstPage(mm[k]) <= FramePage * p
  BY <1>1, <1>2, <1>4, Times
<1>6. FramePage * (p + 1) <= FramePage * Physical!EndPage(mm[k])
  BY <1>1, <1>2, <1>4, Times
<1>7. /\ FramePage * p \in Nat /\ FramePage * (p + 1) \in Nat
      /\ FramePage * Physical!FirstPage(mm[k]) \in Nat /\ FramePage * Physical!EndPage(mm[k]) \in Nat
      /\ p * FramePage = FramePage * p /\ (p + 1) * FramePage = FramePage * (p + 1)
  BY <1>1, <1>2, <1>4
<1>8. mm[k].base <= p * FramePage /\ (p + 1) * FramePage <= mm[k].base + mm[k].length
  BY <1>2, <1>5, <1>6, <1>7
<1>9. p * FramePage \in Nat /\ (p + 1) * FramePage \in Nat /\ mm[k].base + mm[k].length \in Nat
  BY <1>2, <1>7
<1>10. Physical!ByteRange(p) \subseteq mm[k].base .. mm[k].base + mm[k].length - 1
  BY <1>2, <1>8, <1>9 DEF Physical!ByteRange
<1>. QED
  BY <1>2, <1>3, <1>4, <1>10

(* What the manager starts with.                                           *)
FramesStartsFrom(mm) == mm \in Maps /\ Physical!MetadataStart(mm) # None

(* What is free at the start lies in usable ranges, outside the tables.    *)
LEMMA FramesStartIs ==
  ASSUME Physical!PageAssumption, NEW mm, FramesStartsFrom(mm)
  PROVE  /\ Physical!TotalPages(mm) \in Nat
         /\ Physical!FreeAtStart(mm) \subseteq 0 .. Physical!TotalPages(mm) - 1
         /\ Physical!Metadata(mm) \subseteq 0 .. Physical!TotalPages(mm) - 1
         /\ Physical!FreeAtStart(mm) \cap Physical!Metadata(mm) = {}
         /\ \A p \in Physical!FreeAtStart(mm) \cup Physical!Metadata(mm) :
              /\ p # 0
              /\ \E k \in DOMAIN mm : mm[k].type = "usable" /\
                   Physical!ByteRange(p) \subseteq mm[k].base .. mm[k].base + mm[k].length - 1
<1>1. mm \in Maps /\ Physical!MetadataStart(mm) # None
  BY DEF FramesStartsFrom
<1>2. \A p \in Physical!FreeAtStart(mm) \cup Physical!Metadata(mm) :
        \E k \in Physical!Usable(mm) : p \in Physical!FirstPage(mm[k]) .. Physical!EndPage(mm[k]) - 1
  <2>1. \E k \in Physical!Usable(mm) : Physical!Metadata(mm) \subseteq Physical!FirstPage(mm[k]) .. Physical!EndPage(mm[k]) - 1
    BY <1>1, FramesMetadataIs
  <2>2. \A p \in Physical!FreeAtStart(mm) : \E k \in Physical!Usable(mm) : p \in Physical!FirstPage(mm[k]) .. Physical!EndPage(mm[k]) - 1
    BY DEF Physical!FreeAtStart
  <2>. QED
    BY <2>1, <2>2
<1>3. \A k \in Physical!Usable(mm) : k \in DOMAIN mm /\ mm[k].type = "usable"
  BY DEF Physical!Usable
<1>4. ASSUME NEW p \in Physical!FreeAtStart(mm) \cup Physical!Metadata(mm)
      PROVE  /\ p # 0 /\ p \in 0 .. Physical!TotalPages(mm) - 1
             /\ \E k \in DOMAIN mm : mm[k].type = "usable" /\
                  Physical!ByteRange(p) \subseteq mm[k].base .. mm[k].base + mm[k].length - 1
  <2>1. PICK k \in Physical!Usable(mm) : p \in Physical!FirstPage(mm[k]) .. Physical!EndPage(mm[k]) - 1
    BY <1>2
  <2>2. /\ p # 0 /\ p \in 0 .. Physical!TotalPages(mm) - 1
        /\ Physical!ByteRange(p) \subseteq mm[k].base .. mm[k].base + mm[k].length - 1
    BY <1>1, <2>1, FramesInRange
  <2>. QED
    BY <1>3, <2>2
<1>5. Physical!TotalPages(mm) \in Nat
  BY <1>1, FramesBelowTop
<1>6. Physical!FreeAtStart(mm) \cap Physical!Metadata(mm) = {}
  <2>. DEFINE all == UNION {Physical!FirstPage(mm[k]) .. Physical!EndPage(mm[k]) - 1 : k \in Physical!Usable(mm)}
  <2>1. Physical!FreeAtStart(mm) = all \ Physical!Metadata(mm)
    BY DEF Physical!FreeAtStart
  <2>2. \A A, B : (A \ B) \cap B = {}
    OBVIOUS
  <2>. HIDE DEF all
  <2>. QED
    BY ONLY <2>1, <2>2, Zenon
<1>. QED
  BY <1>4, <1>5, <1>6

-----------------------------------------------------------------------------
(***************************************************************************)
(* The scan of pmm_alloc_contiguous_pages.                                 *)
(***************************************************************************)
(* After n frames: run frames that end before frame n are free, all of the *)
(* free ones there, or the run that was looked for has been found; before  *)
(* it there is none.                                                       *)
FramesScanIs(s, n, count) ==
  /\ s.run \in 0 .. count /\ s.start \in Nat
  /\ s.run > 0 => \A p \in s.start .. s.start + s.run - 1 : p \in 0 .. n - 1 /\ p \notin bitmap
  /\ s.run < count =>
       /\ s.run > 0 => s.start + s.run = n /\ (s.start = 0 \/ s.start - 1 \in bitmap)
       /\ s.run = 0 => n = 0 \/ n - 1 \in bitmap
       /\ ~\E k \in Nat : \A p \in k .. k + count - 1 : p \in 0 .. n - 1 /\ p \notin bitmap

FramesScanStep(s, n, count) ==
  IF s.run = count THEN s
  ELSE IF n - 1 \in bitmap THEN [s EXCEPT !.run = 0]
  ELSE [run |-> s.run + 1, start |-> IF s.run = 0 THEN n - 1 ELSE s.start]

(* One more frame.                                                         *)
LEMMA FramesScanStepIs ==
  ASSUME NEW count \in Nat, count > 1, NEW n \in Nat \ {0},
         NEW s \in [run : Nat, start : Nat], FramesScanIs(s, n - 1, count)
  PROVE  FramesScanIs(FramesScanStep(s, n, count), n, count)
<1>. DEFINE r == FramesScanStep(s, n, count)
<1>1. CASE s.run = count
  <2>1. r = s
    BY <1>1 DEF FramesScanStep
  <2>2. /\ s.run \in 0 .. count /\ s.start \in Nat
        /\ \A p \in s.start .. s.start + s.run - 1 : p \in 0 .. n - 1 - 1 /\ p \notin bitmap
    BY <1>1 DEF FramesScanIs
  <2>3. \A p \in s.start .. s.start + s.run - 1 : p \in 0 .. n - 1 /\ p \notin bitmap
    BY <2>2
  <2>. QED
    BY <1>1, <2>1, <2>2, <2>3 DEF FramesScanIs
<1>2. CASE s.run # count
  <2>1. /\ s.run \in 0 .. count - 1 /\ s.start \in Nat
        /\ s.run > 0 => s.start + s.run = n - 1 /\ (s.start = 0 \/ s.start - 1 \in bitmap)
        /\ s.run > 0 => \A p \in s.start .. s.start + s.run - 1 : p \in 0 .. n - 1 - 1 /\ p \notin bitmap
        /\ s.run = 0 => n - 1 = 0 \/ n - 1 - 1 \in bitmap
        /\ ~\E k \in Nat : \A p \in k .. k + count - 1 : p \in 0 .. n - 1 - 1 /\ p \notin bitmap
    BY <1>2 DEF FramesScanIs
  <2>2. CASE n - 1 \in bitmap
    <3>1. r.run = 0 /\ r.start = s.start
      BY <1>2, <2>2 DEF FramesScanStep
    <3>2. ASSUME NEW k \in Nat, \A p \in k .. k + count - 1 : p \in 0 .. n - 1 /\ p \notin bitmap
          PROVE  FALSE
      <4>1. \A p \in k .. k + count - 1 : p \in 0 .. n - 1 - 1 /\ p \notin bitmap
        BY <2>2, <3>2
      <4>. QED
        BY <2>1, <4>1
    <3>3. ~\E k \in Nat : \A p \in k .. k + count - 1 : p \in 0 .. n - 1 /\ p \notin bitmap
      BY <3>2
    <3>4. FramesScanIs(r, n, count)
      <4>. HIDE DEF r
      <4>. QED
        BY ONLY <2>1, <2>2, <3>1, <3>3, count \in Nat DEF FramesScanIs
    <3>. QED
      BY <3>4
  <2>3. CASE n - 1 \notin bitmap
    <3>1. r.run = s.run + 1 /\ r.start = IF s.run = 0 THEN n - 1 ELSE s.start
      BY <1>2, <2>3 DEF FramesScanStep
    <3>2. /\ r.run \in 0 .. count /\ r.run > 0 /\ r.start \in Nat /\ r.start + r.run = n
          /\ r.start = 0 \/ r.start - 1 \in bitmap
      BY <2>1, <3>1
    <3>3. \A p \in r.start .. r.start + r.run - 1 : p \in 0 .. n - 1 /\ p \notin bitmap
      <4>. TAKE p \in r.start .. r.start + r.run - 1
      <4>1. p \in Nat /\ (p = n - 1 \/ (s.run > 0 /\ p \in s.start .. s.start + s.run - 1))
        BY <2>1, <3>1, <3>2
      <4>. QED
        BY <2>1, <2>3, <4>1
    <3>4. ASSUME r.run < count, NEW k \in Nat,
                 \A p \in k .. k + count - 1 : p \in 0 .. n - 1 /\ p \notin bitmap
          PROVE  FALSE
      <4>1. k + count - 1 <= n - 1
        <5>1. k + count - 1 \in k .. k + count - 1
          OBVIOUS
        <5>. QED
          BY <3>4, <5>1
      <4>2. CASE k + count - 1 < n - 1
        <5>1. \A p \in k .. k + count - 1 : p \in 0 .. n - 1 - 1 /\ p \notin bitmap
          BY <3>4, <4>2
        <5>. QED
          BY <2>1, <5>1
      <4>3. CASE k + count - 1 = n - 1
        <5>1. k < r.start /\ r.start - 1 \in k .. k + count - 1
          BY <3>2, <3>4, <4>3
        <5>2. r.start - 1 \notin bitmap
          BY <3>4, <5>1
        <5>. QED
          BY <3>2, <5>1, <5>2
      <4>. QED
        BY <4>1, <4>2, <4>3
    <3>5. r.run < count => ~\E k \in Nat : \A p \in k .. k + count - 1 : p \in 0 .. n - 1 /\ p \notin bitmap
      BY <3>4
    <3>. HIDE DEF r
    <3>6. FramesScanIs(r, n, count)
      BY <3>2, <3>3, <3>5 DEF FramesScanIs
    <3>. QED
      BY <3>6 DEF r
  <2>. QED
    BY <2>2, <2>3
<1>. QED
  BY <1>1, <1>2

(* The scan finds a run of free frames if there is one.                    *)
LEMMA FramesScanFinds ==
  ASSUME total_pages \in Nat, NEW count \in Nat, count > 1
  PROVE  /\ Physical!Scan(count).run = count =>
              /\ Physical!Scan(count).start \in Nat
              /\ \A p \in Physical!Scan(count).start .. Physical!Scan(count).start + count - 1 : p \in Physical!Pages \ bitmap
         /\ Physical!Scan(count).run # count =>
              ~\E k \in Nat : \A p \in k .. k + count - 1 : p \in Physical!Pages \ bitmap
<1>. DEFINE N == total_pages
            X == [run : Nat, start : Nat]
            first == [run |-> 0, start |-> 0]
            step == [x \in X \X (1 .. N) |-> FramesScanStep(x[1], x[2], count)]
            IsScan(t) == t = [n \in 0 .. N |->
                                IF n = 0 THEN first
                                ELSE LET s == t[n - 1]
                                     IN  IF s.run = count THEN s
                                         ELSE IF n - 1 \in bitmap THEN [s EXCEPT !.run = 0]
                                         ELSE [run |-> s.run + 1,
                                               start |-> IF s.run = 0 THEN n - 1 ELSE s.start]]
<1>1. step \in [X \X (1 .. N) -> X]
  <2>1. ASSUME NEW s \in X, NEW n \in 1 .. N PROVE FramesScanStep(s, n, count) \in X
    BY <2>1 DEF FramesScanStep
  <2>. HIDE DEF X
  <2>2. \A x \in X \X (1 .. N) : x[1] \in X /\ x[2] \in 1 .. N
    OBVIOUS
  <2>. QED
    BY <2>1, <2>2
<1>2. first \in X
  OBVIOUS
<1>3. PICK t \in [0 .. N -> X] : t[0] = first /\ \A n \in 1 .. N : t[n] = step[<<t[n - 1], n>>]
  <2>. HIDE DEF X, step, first
  <2>1. Steps(X, first, N, step) # {}
    BY ONLY total_pages \in Nat, <1>1, <1>2, StepsExist, Zenon
  <2>. QED
    BY <2>1 DEF Steps
<1>4. \A n \in 1 .. N : n - 1 \in 0 .. N /\ t[n - 1] \in X /\ t[n] = FramesScanStep(t[n - 1], n, count)
  <2>1. ASSUME NEW n \in 1 .. N, NEW s \in X PROVE step[<<s, n>>] = FramesScanStep(s, n, count)
    <3>. HIDE DEF X
    <3>1. <<s, n>> \in X \X (1 .. N)
      OBVIOUS
    <3>. QED
      BY <3>1
  <2>. HIDE DEF X, step, first
  <2>. TAKE n \in 1 .. N
  <2>2. n - 1 \in 0 .. N
    OBVIOUS
  <2>3. t[n - 1] \in X /\ t[n] = step[<<t[n - 1], n>>]
    BY <1>3, <2>2
  <2>. QED
    BY <2>1, <2>2, <2>3
<1>5. IsScan(t)
  <2>. HIDE DEF X, step, first
  <2>1. \A n \in 0 .. N : n = 0 \/ n \in 1 .. N
    OBVIOUS
  <2>2. \A n \in 0 .. N : t[n] = IF n = 0 THEN first ELSE FramesScanStep(t[n - 1], n, count)
    BY <1>3, <1>4, <2>1
  <2>3. t = [n \in 0 .. N |-> IF n = 0 THEN first ELSE FramesScanStep(t[n - 1], n, count)]
    BY <1>3, <2>2
  <2>. QED
    BY <2>3 DEF FramesScanStep
<1>6. PICK u : IsScan(u) /\ Physical!Scan(count) = u[N]
  <2>1. Physical!Scan(count) = (CHOOSE u : IsScan(u))[N]
    BY DEF Physical!Scan, first
  <2>. HIDE DEF IsScan
  <2>. QED
    BY <1>5, <2>1
<1>. DEFINE Good == {n \in 0 .. N : u[n] \in X /\ FramesScanIs(u[n], n, count)}
<1>7. u[0] = first /\ \A n \in 1 .. N : u[n] = FramesScanStep(u[n - 1], n, count)
  <2>1. 0 \in 0 .. N /\ \A n \in 1 .. N : n \in 0 .. N /\ n # 0
    OBVIOUS
  <2>2. u = [n \in 0 .. N |-> IF n = 0 THEN first ELSE FramesScanStep(u[n - 1], n, count)]
    BY <1>6 DEF FramesScanStep
  <2>. HIDE DEF IsScan, first
  <2>. QED
    BY <2>1, <2>2
<1>. HIDE DEF IsScan, step
<1>8. 0 \in Good
  <2>1. first.run = 0 /\ first.start = 0 /\ first \in X
    OBVIOUS
  <2>2. ASSUME NEW k \in Nat, \A p \in k .. k + count - 1 : p \in 0 .. 0 - 1 /\ p \notin bitmap PROVE FALSE
    <3>1. k \in k .. k + count - 1
      OBVIOUS
    <3>2. k \in 0 .. 0 - 1
      BY <2>2, <3>1
    <3>. QED
      BY ONLY <3>2
  <2>. HIDE DEF first, X
  <2>3. FramesScanIs(first, 0, count)
    BY <2>1, <2>2 DEF FramesScanIs
  <2>. QED
    BY <1>7, <2>1, <2>3
<1>9. ASSUME NEW n \in 1 .. N, n - 1 \in Good PROVE n \in Good
  <2>1. u[n - 1] \in X /\ FramesScanIs(u[n - 1], n - 1, count)
    BY <1>9
  <2>2. u[n] = FramesScanStep(u[n - 1], n, count)
    BY <1>7
  <2>3. \A s \in X : FramesScanStep(s, n, count) \in X
    BY DEF FramesScanStep
  <2>4. FramesScanIs(u[n], n, count)
    BY <2>1, <2>2, FramesScanStepIs
  <2>. HIDE DEF X
  <2>. QED
    BY <2>1, <2>2, <2>3, <2>4
<1>10. \A n \in Good : u[n] \in X /\ FramesScanIs(u[n], n, count)
  OBVIOUS
<1>. HIDE DEF Good
<1>11. \A n \in 0 .. N : n \in Good
  BY <1>8, <1>9, UpTo
<1>. DEFINE s == Physical!Scan(count)
<1>12. s \in X /\ FramesScanIs(s, N, count)
  <2>1. N \in 0 .. N
    OBVIOUS
  <2>. QED
    BY <1>6, <1>10, <1>11, <2>1
<1>. HIDE DEF s
<1>13. Physical!Pages = 0 .. N - 1
  BY DEF Physical!Pages
<1>14. CASE s.run = count
  <2>1. s.start \in Nat /\ \A p \in s.start .. s.start + s.run - 1 : p \in 0 .. N - 1 /\ p \notin bitmap
    BY <1>12, <1>14 DEF FramesScanIs
  <2>. QED
    BY <1>13, <1>14, <2>1 DEF s
<1>15. CASE s.run # count
  <2>1. ~\E k \in Nat : \A p \in k .. k + count - 1 : p \in 0 .. N - 1 /\ p \notin bitmap
    BY <1>12, <1>15 DEF FramesScanIs
  <2>. QED
    BY <1>13, <1>15, <2>1 DEF s
<1>. QED
  BY <1>14, <1>15

-----------------------------------------------------------------------------
(***************************************************************************)
(* The calls.                                                              *)
(***************************************************************************)
(* The map does not change, nor what was computed from it.                 *)
FramesMapInv ==
  /\ FramesStartsFrom(map)
  /\ total_pages = Physical!TotalPages(map)
  /\ metadata = Physical!Metadata(map)

(* Every reachable state: a frame that was free at the start has the count *)
(* that its holders have and stays below the mark of reserved ones.        *)
FramesInv ==
  /\ bitmap \subseteq Physical!Pages
  /\ refcounts \in [Physical!Pages -> 0 .. Reserved]
  /\ held \in [Physical!Pages -> Nat]
  /\ last_alloc_index \in 0 .. total_pages
  /\ \A p \in Physical!FreeAtStart(map) : refcounts[p] < Reserved
  /\ Physical!CountsAgree
  /\ Physical!RefsAreHeld

FramesCallInv ==
  /\ last \in [count : Nat, at : Physical!Pages \cup {None}]
  /\ Physical!OutOfMemoryIsReal

FramesIInv == FramesMapInv /\ FramesInv /\ FramesCallInv

(* What the map says of frames, in any state.                              *)
LEMMA FramesAre ==
  ASSUME Physical!PageAssumption, FramesMapInv
  PROVE  /\ total_pages \in Nat /\ Physical!Pages = 0 .. total_pages - 1
         /\ Reserved \in Nat /\ Reserved > 2 /\ None \notin Nat
         /\ Physical!FreeAtStart(map) \subseteq Physical!Pages /\ 0 \notin Physical!FreeAtStart(map)
         /\ IsFiniteSet(Physical!Pages) /\ Cardinality(Physical!Pages) = total_pages
<1>1. total_pages \in Nat /\ Physical!Pages = 0 .. total_pages - 1 /\ Physical!FreeAtStart(map) \subseteq Physical!Pages
  BY FramesStartIs DEF FramesMapInv, Physical!Pages
<1>2. 0 \notin Physical!FreeAtStart(map)
  BY FramesStartIs DEF FramesMapInv
<1>3. IsFiniteSet(Physical!Pages) /\ Cardinality(Physical!Pages) = total_pages
  <2>1. 0 \in Int /\ total_pages - 1 \in Int
    BY <1>1
  <2>2. /\ IsFiniteSet(0 .. total_pages - 1)
        /\ Cardinality(0 .. total_pages - 1) = IF 0 > total_pages - 1 THEN 0 ELSE (total_pages - 1) - 0 + 1
    BY ONLY <2>1, FS_Interval, Zenon
  <2>. QED
    BY <1>1, <2>2
<1>. QED
  BY <1>1, <1>2, <1>3 DEF Physical!PageAssumption

(* The invariant implies what the runs check.                              *)
LEMMA FramesInvSafe == Physical!PageAssumption /\ FramesIInv => Physical!Safety
<1>. SUFFICES ASSUME Physical!PageAssumption, FramesIInv PROVE Physical!Safety
  OBVIOUS
<1>1. FramesMapInv /\ FramesInv /\ FramesCallInv
  BY DEF FramesIInv
<1>2. /\ total_pages \in Nat /\ Physical!Pages = 0 .. total_pages - 1
      /\ IsFiniteSet(Physical!Pages) /\ Cardinality(Physical!Pages) = total_pages
  BY <1>1, FramesAre
<1>3. free_pages \in 0 .. total_pages
  <2>1. Physical!Pages \ bitmap \in SUBSET Physical!Pages
    OBVIOUS
  <2>2. IsFiniteSet(Physical!Pages \ bitmap) /\ Cardinality(Physical!Pages \ bitmap) <= Cardinality(Physical!Pages)
    BY ONLY <1>2, <2>1, FS_Subset, Zenon
  <2>3. Cardinality(Physical!Pages \ bitmap) \in Nat
    BY ONLY <2>2, FS_CardinalityType, Zenon
  <2>4. free_pages = Cardinality(Physical!Pages \ bitmap)
    BY <1>1, FramesSame DEF FramesInv, Physical!CountsAgree
  <2>. QED
    BY <1>2, <2>2, <2>3, <2>4
<1>4. metadata \subseteq Physical!Pages /\ metadata = Physical!Metadata(map)
  BY <1>1, <1>2, FramesStartIs DEF FramesMapInv
<1>5. Physical!TypeOK
  BY <1>1, <1>2, <1>3, <1>4 DEF Physical!TypeOK, FramesMapInv, FramesStartsFrom, FramesInv, FramesCallInv
<1>6. ASSUME NEW p \in metadata \cup {q \in Physical!Pages : held[q] > 0}
      PROVE  p \in Physical!FreeAtStart(map) \cup Physical!Metadata(map)
  <2>1. CASE p \in metadata
    BY <1>4, <2>1
  <2>2. CASE p \in Physical!Pages /\ held[p] > 0
    BY <1>1, <2>2 DEF FramesInv, Physical!RefsAreHeld
  <2>. QED
    BY <2>1, <2>2
<1>7. \A p \in metadata : held[p] = 0
  <2>1. \A p \in metadata : p \in Physical!Pages /\ p \notin Physical!FreeAtStart(map)
    BY <1>1, <1>4, FramesStartIs DEF FramesMapInv
  <2>. QED
    BY <1>1, <2>1 DEF FramesInv, Physical!RefsAreHeld
<1>8. Physical!OnlyUsable
  <2>1. \A p \in metadata \cup {q \in Physical!Pages : held[q] > 0} :
          /\ p # 0
          /\ \E k \in DOMAIN map : map[k].type = "usable" /\
               Physical!ByteRange(p) \subseteq map[k].base .. map[k].base + map[k].length - 1
    BY <1>1, <1>6, FramesStartIs DEF FramesMapInv
  <2>2. Cardinality(metadata) * FramePage >= Physical!Up(total_pages, 8) + 4 * total_pages
    BY <1>1, <1>4, FramesMetadataIs DEF FramesMapInv, FramesStartsFrom
  <2>. QED
    BY <1>7, <2>1, <2>2, FramesSame DEF Physical!OnlyUsable
<1>. QED
  BY <1>1, <1>5, <1>8 DEF Physical!Safety, FramesInv, FramesCallInv

(* pmm_init establishes the invariant.                                     *)
LEMMA FramesInitInv == Physical!PageAssumption /\ Physical!Init => FramesIInv
<1>. SUFFICES ASSUME Physical!PageAssumption, Physical!Init PROVE FramesIInv
  OBVIOUS
<1>1. FramesMapInv
  BY FramesSame DEF Physical!Init, FramesMapInv, FramesStartsFrom
<1>2. /\ total_pages \in Nat /\ Physical!Pages = 0 .. total_pages - 1
      /\ Reserved \in Nat /\ Reserved > 2 /\ Physical!FreeAtStart(map) \subseteq Physical!Pages
  BY <1>1, FramesAre
<1>. DEFINE F == Physical!FreeAtStart(map)
<1>3. /\ bitmap = Physical!Pages \ F /\ refcounts = [p \in Physical!Pages |-> IF p \in F THEN 0 ELSE Reserved]
      /\ free_pages = Cardinality(F) /\ last_alloc_index = 0 /\ held = [p \in Physical!Pages |-> 0]
      /\ last = [count |-> 0, at |-> None]
  BY FramesSame DEF Physical!Init, Physical!NoCall
<1>. HIDE DEF F
<1>4. Physical!Pages \ bitmap = F
  <2>1. F \subseteq Physical!Pages
    BY <1>2 DEF F
  <2>. QED
    BY ONLY <1>3, <2>1, Zenon
<1>5. FramesInv
  <2>1. /\ bitmap \subseteq Physical!Pages /\ refcounts \in [Physical!Pages -> 0 .. Reserved] /\ held \in [Physical!Pages -> Nat]
        /\ last_alloc_index \in 0 .. total_pages
    BY <1>2, <1>3
  <2>2. /\ \A p \in F : p \in Physical!Pages /\ refcounts[p] = 0 /\ held[p] = 0
        /\ \A p \in Physical!Pages \ F : p \in bitmap /\ refcounts[p] = Reserved /\ held[p] = 0
        /\ \A p \in F : p \notin bitmap
    BY <1>2, <1>3, <1>4
  <2>3. Physical!CountsAgree
    <3>1. \A p \in Physical!Pages : p \in bitmap <=> refcounts[p] # 0
      BY <1>2, <2>2
    <3>2. free_pages = Cardinality(Physical!Pages \ bitmap)
      BY ONLY <1>3, <1>4, Zenon
    <3>. QED
      BY <3>1, <3>2, FramesSame DEF Physical!CountsAgree
  <2>4. Physical!RefsAreHeld
    BY <2>2 DEF Physical!RefsAreHeld, F
  <2>5. \A p \in Physical!FreeAtStart(map) : refcounts[p] < Reserved
    BY <1>2, <2>2 DEF F
  <2>. QED
    BY <2>1, <2>3, <2>4, <2>5 DEF FramesInv
<1>6. FramesCallInv
  BY <1>3 DEF FramesCallInv, Physical!OutOfMemoryIsReal
<1>. QED
  BY <1>1, <1>5, <1>6 DEF FramesIInv

(* What a call leaves of the map.                                          *)
LEMMA FramesMapKept ==
  ASSUME FramesMapInv, UNCHANGED <<map, total_pages, metadata>>
  PROVE  FramesMapInv' /\ Physical!Pages' = Physical!Pages /\ Physical!FreeAtStart(map)' = Physical!FreeAtStart(map)
BY DEF FramesMapInv, Physical!Pages

(* Frames that nobody holds are taken, all of them by one caller.          *)
LEMMA FramesTakeStep ==
  ASSUME Physical!PageAssumption, FramesIInv, NEW frames \in SUBSET (Physical!Pages \ bitmap), frames # {},
         NEW count \in Nat \ {0}, Cardinality(frames) = count, Physical!Min(frames) + count <= total_pages,
         Physical!Take(frames, count), last_alloc_index' \in 0 .. total_pages
  PROVE  FramesIInv' /\ \A p \in Physical!Pages : held[p] > 0 => held'[p] = held[p]
<1>1. /\ total_pages \in Nat /\ Physical!Pages = 0 .. total_pages - 1
      /\ Reserved \in Nat /\ Reserved > 2 /\ None \notin Nat /\ Physical!FreeAtStart(map) \subseteq Physical!Pages
      /\ IsFiniteSet(Physical!Pages) /\ Cardinality(Physical!Pages) = total_pages
  BY FramesAre DEF FramesIInv
<1>2. FramesMapInv' /\ Physical!Pages' = Physical!Pages /\ Physical!FreeAtStart(map)' = Physical!FreeAtStart(map) /\ total_pages' = total_pages
  BY FramesMapKept DEF FramesIInv, Physical!Take
<1>3. FramesInv
  BY DEF FramesIInv
<1>4. /\ bitmap' = bitmap \cup frames
      /\ refcounts' = [p \in Physical!Pages |-> IF p \in frames THEN 1 ELSE refcounts[p]]
      /\ free_pages' = free_pages - count
      /\ held' = [p \in Physical!Pages |-> IF p \in frames THEN held[p] + 1 ELSE held[p]]
      /\ last' = [count |-> count, at |-> Physical!Min(frames)]
  BY DEF Physical!Take
<1>5. \A p \in frames : p \in Physical!Pages /\ p \in Physical!FreeAtStart(map) /\ refcounts[p] = 0 /\ held[p] = 0
  <2>1. \A p \in frames : p \in Physical!Pages /\ refcounts[p] = 0
    BY <1>3, FramesSame DEF FramesInv, Physical!CountsAgree
  <2>. QED
    BY <1>1, <1>3, <2>1 DEF FramesInv, Physical!RefsAreHeld
<1>6. free_pages' = Cardinality(Physical!Pages' \ bitmap')
  <2>. DEFINE S == Physical!Pages \ bitmap
  <2>1. IsFiniteSet(S) /\ free_pages = Cardinality(S) /\ S \in SUBSET Physical!Pages
    <3>1. S \in SUBSET Physical!Pages
      OBVIOUS
    <3>2. IsFiniteSet(S)
      BY ONLY <1>1, <3>1, FS_Subset, Zenon
    <3>. QED
      BY <1>3, <3>1, <3>2, FramesSame DEF FramesInv, Physical!CountsAgree
  <2>2. Physical!Pages' \ bitmap' = S \ frames /\ S \cap frames = frames
    BY <1>2, <1>4
  <2>. HIDE DEF S
  <2>3. IsFiniteSet(S \ frames) /\ IsFiniteSet(frames) /\ Cardinality(S \ frames) = Cardinality(S) - Cardinality(S \cap frames)
    <3>1. IsFiniteSet(frames)
      BY ONLY frames \in SUBSET (Physical!Pages \ bitmap), <2>1, FS_Subset, Zenon DEF S
    <3>2. /\ IsFiniteSet(S \ frames)
          /\ Cardinality(S \ frames) = Cardinality(S) - Cardinality(S \cap frames)
      BY ONLY <2>1, <3>1, FS_Difference, Zenon
    <3>. QED
      BY <3>1, <3>2
  <2>. QED
    BY <1>4, <2>1, <2>2, <2>3
<1>7. FramesInv'
  <2>1. /\ bitmap' \subseteq Physical!Pages' /\ refcounts' \in [Physical!Pages' -> 0 .. Reserved]
        /\ held' \in [Physical!Pages' -> Nat] /\ last_alloc_index' \in 0 .. total_pages'
    <3>1. /\ bitmap \subseteq Physical!Pages /\ refcounts \in [Physical!Pages -> 0 .. Reserved]
          /\ held \in [Physical!Pages -> Nat]
      BY <1>3 DEF FramesInv
    <3>2. /\ frames \subseteq Physical!Pages /\ last_alloc_index' \in 0 .. total_pages
          /\ 1 \in 0 .. Reserved
      BY <1>1, <1>5
    <3>3. bitmap' \subseteq Physical!Pages'
      BY ONLY <1>2, <1>4, <3>1, <3>2
    <3>4. refcounts' \in [Physical!Pages' -> 0 .. Reserved]
      BY ONLY <1>2, <1>4, <3>1, <3>2
    <3>5. held' \in [Physical!Pages' -> Nat]
      BY ONLY <1>2, <1>4, <3>1
    <3>. QED
      BY ONLY <1>2, <3>2, <3>3, <3>4, <3>5
  <2>2. \A p \in Physical!Pages : p \in bitmap <=> refcounts[p] # 0
    BY <1>3, FramesSame DEF FramesInv, Physical!CountsAgree
  <2>3. Physical!CountsAgree'
    BY <1>2, <1>4, <1>6, <2>2, FramesSame DEF Physical!CountsAgree
  <2>4. \A p \in Physical!Pages : IF p \in Physical!FreeAtStart(map) THEN refcounts[p] = held[p]
                         ELSE refcounts[p] = Reserved /\ held[p] = 0
    BY <1>3 DEF FramesInv, Physical!RefsAreHeld
  <2>5. Physical!RefsAreHeld'
    BY <1>2, <1>4, <1>5, <2>4 DEF Physical!RefsAreHeld
  <2>6. \A p \in Physical!FreeAtStart(map) : refcounts'[p] < Reserved
    BY <1>1, <1>3, <1>4 DEF FramesInv
  <2>. QED
    BY <1>2, <2>1, <2>3, <2>5, <2>6 DEF FramesInv
<1>8. FramesCallInv'
  <2>1. Physical!Min(frames) \in Physical!Pages /\ Physical!Min(frames) \in Nat
    <3>1. frames \in SUBSET Nat
      BY <1>1
    <3>. QED
      BY <3>1, MinIs
  <2>. QED
    BY <1>1, <1>2, <1>4, <2>1 DEF FramesCallInv, Physical!OutOfMemoryIsReal
<1>. QED
  BY <1>2, <1>4, <1>5, <1>7, <1>8 DEF FramesIInv

(* A refusal, when there is no such run.                                   *)
LEMMA FramesRefuseStep ==
  ASSUME Physical!PageAssumption, FramesIInv, NEW count \in Nat, Physical!NoMemory(count),
         count > 0 => ~\E s \in Physical!Pages : \A p \in s .. s + count - 1 : p \in Physical!Pages \ bitmap
  PROVE  FramesIInv' /\ \A p \in Physical!Pages : held[p] > 0 => held'[p] = held[p]
<1>1. FramesMapInv' /\ Physical!Pages' = Physical!Pages /\ Physical!FreeAtStart(map)' = Physical!FreeAtStart(map)
  BY FramesMapKept DEF FramesIInv, Physical!NoMemory
<1>2. /\ last' = [count |-> count, at |-> None]
      /\ UNCHANGED <<map, total_pages, bitmap, refcounts, free_pages, last_alloc_index, held>>
  BY DEF Physical!NoMemory
<1>3. FramesInv'
  BY <1>1, <1>2, FramesSame DEF FramesIInv, FramesInv, Physical!CountsAgree, Physical!RefsAreHeld
<1>4. FramesCallInv'
  BY <1>1, <1>2 DEF FramesCallInv, Physical!OutOfMemoryIsReal
<1>. QED
  BY <1>1, <1>2, <1>3, <1>4 DEF FramesIInv

(* pmm_alloc_page: the search goes round once, from where the last ended.  *)
LEMMA FramesAllocStep ==
  ASSUME Physical!PageAssumption, FramesIInv, Physical!pmm_alloc_page
  PROVE  FramesIInv' /\ \A p \in Physical!Pages : held[p] > 0 => held'[p] = held[p]
<1>. DEFINE N == total_pages
            index(i) == (last_alloc_index + i) % N
<1>1. N \in Nat /\ Physical!Pages = 0 .. N - 1 /\ last_alloc_index \in 0 .. N
  BY FramesAre DEF FramesIInv, FramesInv
<1>2. ASSUME Physical!Rounds # {} PROVE FramesIInv' /\ \A p \in Physical!Pages : held[p] > 0 => held'[p] = held[p]
  <2>. DEFINE idx == (last_alloc_index + Physical!Min(Physical!Rounds)) % total_pages
  <2>1. Physical!Take({idx}, 1) /\ last_alloc_index' = idx + 1
    BY <1>2 DEF Physical!pmm_alloc_page
  <2>2. Physical!Rounds \in SUBSET Nat
    BY <1>1 DEF Physical!Rounds
  <2>3. Physical!Min(Physical!Rounds) \in Physical!Rounds
    BY <1>2, <2>2, MinIs
  <2>4. Physical!Min(Physical!Rounds) \in Physical!Pages /\ idx \notin bitmap
    BY <2>3 DEF Physical!Rounds
  <2>5. idx \in Physical!Pages
    BY <1>1, <2>4
  <2>. HIDE DEF idx
  <2>6. {idx} \in SUBSET (Physical!Pages \ bitmap) /\ {idx} # {} /\ {idx} \in SUBSET Nat /\ 1 \in Nat \ {0}
    BY <1>1, <2>4, <2>5
  <2>7. Cardinality({idx}) = 1
    BY FS_Singleton
  <2>8. Physical!Min({idx}) = idx
    BY <2>6, MinIs
  <2>9. Physical!Min({idx}) + 1 <= total_pages /\ last_alloc_index' \in 0 .. total_pages
    BY <1>1, <2>1, <2>5, <2>8
  <2>. QED
    BY ONLY Physical!PageAssumption, FramesIInv, <2>1, <2>6, <2>7, <2>9, FramesTakeStep, Zenon
<1>3. ASSUME Physical!Rounds = {}, Physical!NoMemory(1)
      PROVE  FramesIInv' /\ \A p \in Physical!Pages : held[p] > 0 => held'[p] = held[p]
  <2>1. ASSUME NEW p \in Physical!Pages PROVE p \in bitmap
    <3>. DEFINE i == IF last_alloc_index <= p THEN p - last_alloc_index ELSE p + N - last_alloc_index
    <3>1. i \in Physical!Pages /\ (last_alloc_index + i = p \/ last_alloc_index + i = p + N)
      BY <1>1
    <3>. HIDE DEF i
    <3>2. index(i) = p
      BY <1>1, <3>1
    <3>3. i \notin Physical!Rounds
      BY <1>3
    <3>. QED
      BY <3>1, <3>2, <3>3 DEF Physical!Rounds
  <2>2. ASSUME NEW s \in Physical!Pages, \A p \in s .. s + 1 - 1 : p \in Physical!Pages \ bitmap PROVE FALSE
    <3>1. s \in s .. s + 1 - 1
      BY <1>1
    <3>. QED
      BY <2>1, <2>2, <3>1
  <2>. QED
    BY <1>3, <2>2, FramesRefuseStep
<1>. QED
  BY <1>2, <1>3 DEF Physical!pmm_alloc_page

(* pmm_alloc_contiguous_pages.                                             *)
LEMMA FramesContiguousStep ==
  ASSUME Physical!PageAssumption, FramesIInv, NEW count \in Nat, Physical!pmm_alloc_contiguous_pages(count)
  PROVE  FramesIInv' /\ \A p \in Physical!Pages : held[p] > 0 => held'[p] = held[p]
<1>1. /\ total_pages \in Nat /\ Physical!Pages = 0 .. total_pages - 1 /\ last_alloc_index \in 0 .. total_pages
      /\ IsFiniteSet(Physical!Pages)
  BY FramesAre DEF FramesIInv, FramesInv
<1>2. CASE (count = 0 \/ count > free_pages) /\ Physical!NoMemory(count)
  <2>1. ASSUME count > 0, NEW s \in Physical!Pages, \A p \in s .. s + count - 1 : p \in Physical!Pages \ bitmap
        PROVE  FALSE
    <3>. DEFINE S == Physical!Pages \ bitmap  b == s + count - 1
    <3>1. s \in Int /\ b \in Int /\ s .. b \in SUBSET S
      BY <1>1, <2>1
    <3>2. IsFiniteSet(S) /\ free_pages = Cardinality(S)
      <4>1. S \in SUBSET Physical!Pages
        OBVIOUS
      <4>2. IsFiniteSet(S)
        BY ONLY <1>1, <4>1, FS_Subset, Zenon
      <4>. QED
        BY <4>2, FramesSame DEF FramesIInv, FramesInv, Physical!CountsAgree
    <3>. HIDE DEF S
    <3>3. Cardinality(s .. b) <= Cardinality(S)
      BY ONLY <3>1, <3>2, FS_Subset, Zenon
    <3>4. Cardinality(s .. b) = IF s > b THEN 0 ELSE b - s + 1
      BY ONLY <3>1, FS_Interval, Zenon
    <3>5. Cardinality(s .. b) = count
      BY <1>1, <2>1, <3>4
    <3>6. Cardinality(S) \in Nat
      BY ONLY <3>2, FS_CardinalityType, Zenon
    <3>. QED
      BY <1>2, <2>1, <3>2, <3>3, <3>5, <3>6
  <2>. QED
    BY <1>2, <2>1, FramesRefuseStep
<1>3. CASE count = 1 /\ Physical!pmm_alloc_page
  BY <1>3, FramesAllocStep
<1>4. CASE /\ count > 1 /\ Physical!Scan(count).run = count
           /\ Physical!Take(Physical!Scan(count).start .. Physical!Scan(count).start + count - 1, count)
           /\ UNCHANGED last_alloc_index
  <2>. DEFINE a == Physical!Scan(count).start  b == a + count - 1  F == a .. b
  <2>1. a \in Nat /\ \A p \in F : p \in Physical!Pages \ bitmap
    BY <1>1, <1>4, FramesScanFinds
  <2>2. Physical!Take(F, count) /\ last_alloc_index' \in 0 .. total_pages
    BY <1>1, <1>4
  <2>. HIDE DEF a
  <2>3. F \in SUBSET (Physical!Pages \ bitmap) /\ F # {} /\ F \in SUBSET Nat /\ count \in Nat \ {0} /\ a \in F
    <3>1. a \in F /\ F \in SUBSET Nat /\ count \in Nat \ {0}
      BY <1>4, <2>1
    <3>2. F \in SUBSET (Physical!Pages \ bitmap)
      <4>. HIDE DEF F
      <4>. QED
        BY ONLY <2>1, Zenon
    <3>. QED
      BY <3>1, <3>2
  <2>4. Cardinality(F) = count
    <3>1. a \in Int /\ b \in Int
      BY <2>1
    <3>2. Cardinality(a .. b) = IF a > b THEN 0 ELSE b - a + 1
      BY ONLY <3>1, FS_Interval, Zenon
    <3>. QED
      BY <1>4, <2>1, <3>2
  <2>5. Physical!Min(F) + count <= total_pages
    <3>1. Physical!Min(F) \in F /\ Physical!Min(F) <= a /\ Physical!Min(F) \in Nat
      BY <2>3, MinIs
    <3>2. b \in F
      BY <1>4, <2>1
    <3>3. b \in Physical!Pages
      BY <2>1, <3>2
    <3>. QED
      BY <1>1, <1>4, <2>1, <3>1, <3>3
  <2>. HIDE DEF F
  <2>. QED
    BY ONLY Physical!PageAssumption, FramesIInv, <2>2, <2>3, <2>4, <2>5, FramesTakeStep, Zenon
<1>5. CASE count > 1 /\ Physical!Scan(count).run # count /\ Physical!NoMemory(count)
  <2>1. ~\E k \in Nat : \A p \in k .. k + count - 1 : p \in Physical!Pages \ bitmap
    BY <1>1, <1>5, FramesScanFinds
  <2>2. ~\E s \in Physical!Pages : \A p \in s .. s + count - 1 : p \in Physical!Pages \ bitmap
    <3>1. \A s \in Physical!Pages : s \in Nat
      BY <1>1
    <3>. QED
      BY ONLY <2>1, <3>1, Zenon
  <2>. QED
    BY <1>5, <2>2, FramesRefuseStep
<1>. QED
  BY <1>2, <1>3, <1>4, <1>5 DEF Physical!pmm_alloc_contiguous_pages

(* A frame that is allocated was free at the start, and is held.           *)
LEMMA FramesAllocatedIs ==
  ASSUME Physical!PageAssumption, FramesIInv, NEW p \in 0 .. total_pages
  PROVE  /\ Physical!allocated_frame(p) <=> p \in Physical!Pages /\ held[p] > 0
         /\ Physical!allocated_frame(p) => /\ p \in Physical!Pages /\ p \in Physical!FreeAtStart(map) /\ p \in bitmap
                                  /\ refcounts[p] = held[p] /\ refcounts[p] \in 1 .. Reserved - 1
<1>1. /\ total_pages \in Nat /\ Physical!Pages = 0 .. total_pages - 1 /\ 0 \notin Physical!FreeAtStart(map)
      /\ Reserved \in Nat /\ Reserved > 2
  BY FramesAre DEF FramesIInv
<1>2. /\ refcounts \in [Physical!Pages -> 0 .. Reserved] /\ held \in [Physical!Pages -> Nat]
      /\ \A q \in Physical!FreeAtStart(map) : refcounts[q] < Reserved
      /\ \A q \in Physical!Pages : q \in bitmap <=> refcounts[q] # 0
      /\ \A q \in Physical!Pages : IF q \in Physical!FreeAtStart(map) THEN refcounts[q] = held[q]
                          ELSE refcounts[q] = Reserved /\ held[q] = 0
  BY FramesSame DEF FramesIInv, FramesInv, Physical!CountsAgree, Physical!RefsAreHeld
<1>. QED
  BY <1>1, <1>2 DEF Physical!allocated_frame

(* pmm_free_page: only an allocated frame loses a reference.               *)
LEMMA FramesFreeStep ==
  ASSUME Physical!PageAssumption, FramesIInv, NEW p \in 0 .. total_pages, Physical!pmm_free_page(p)
  PROVE  FramesIInv'
<1>1. /\ total_pages \in Nat /\ Physical!Pages = 0 .. total_pages - 1 /\ Physical!FreeAtStart(map) \subseteq Physical!Pages
      /\ Reserved \in Nat /\ Reserved > 2 /\ IsFiniteSet(Physical!Pages)
  BY FramesAre DEF FramesIInv
<1>2. FramesMapInv' /\ Physical!Pages' = Physical!Pages /\ Physical!FreeAtStart(map)' = Physical!FreeAtStart(map) /\ total_pages' = total_pages
  BY FramesMapKept DEF FramesIInv, Physical!pmm_free_page
<1>3. /\ held' = [q \in Physical!Pages |-> IF q = p /\ held[q] > 0 THEN held[q] - 1 ELSE held[q]]
      /\ last' = [count |-> 0, at |-> None] /\ last_alloc_index' = last_alloc_index
  BY DEF Physical!pmm_free_page, Physical!NoCall
<1>4. /\ refcounts \in [Physical!Pages -> 0 .. Reserved] /\ held \in [Physical!Pages -> Nat] /\ bitmap \subseteq Physical!Pages
      /\ last_alloc_index \in 0 .. total_pages
      /\ \A q \in Physical!FreeAtStart(map) : refcounts[q] < Reserved
      /\ \A q \in Physical!Pages : q \in bitmap <=> refcounts[q] # 0
      /\ free_pages = Cardinality(Physical!Pages \ bitmap)
      /\ \A q \in Physical!Pages : IF q \in Physical!FreeAtStart(map) THEN refcounts[q] = held[q]
                          ELSE refcounts[q] = Reserved /\ held[q] = 0
  BY FramesSame DEF FramesIInv, FramesInv, Physical!CountsAgree, Physical!RefsAreHeld
<1>5. FramesCallInv'
  BY <1>3 DEF FramesCallInv, Physical!OutOfMemoryIsReal
<1>6. held' \in [Physical!Pages -> Nat]
  BY <1>3, <1>4
<1>7. CASE Physical!allocated_frame(p) /\ Physical!Release(p)
  <2>1. /\ p \in Physical!Pages /\ p \in Physical!FreeAtStart(map) /\ p \in bitmap
        /\ refcounts[p] = held[p] /\ refcounts[p] \in 1 .. Reserved - 1
    BY <1>7, FramesAllocatedIs
  <2>2. refcounts' = [refcounts EXCEPT ![p] = @ - 1]
    BY <1>7 DEF Physical!Release
  <2>3. /\ refcounts'[p] = refcounts[p] - 1 /\ held'[p] = held[p] - 1
        /\ \A q \in Physical!Pages : q # p => refcounts'[q] = refcounts[q] /\ held'[q] = held[q]
        /\ refcounts' \in [Physical!Pages -> 0 .. Reserved]
    BY <1>1, <1>3, <1>4, <2>1, <2>2
  <2>4. Physical!RefsAreHeld'
    <3>1. \A q \in Physical!Pages : IF q \in Physical!FreeAtStart(map) THEN refcounts'[q] = held'[q]
                           ELSE refcounts'[q] = Reserved /\ held'[q] = 0
      BY <1>4, <2>1, <2>3
    <3>. QED
      BY <1>2, <3>1 DEF Physical!RefsAreHeld
  <2>4a. \A q \in Physical!FreeAtStart(map) : refcounts'[q] < Reserved
    <3>1. refcounts'[p] < Reserved
      BY <1>1, <2>1, <2>3
    <3>. QED
      BY <1>1, <1>4, <2>3, <3>1
  <2>5. CASE refcounts[p] = 1 /\ bitmap' = bitmap \ {p} /\ free_pages' = free_pages + 1
    <3>1. bitmap' \subseteq Physical!Pages /\ \A q \in Physical!Pages : q \in bitmap' <=> refcounts'[q] # 0
      BY <1>4, <2>1, <2>3, <2>5
    <3>2. free_pages' = Cardinality(Physical!Pages \ bitmap')
      <4>. DEFINE S == Physical!Pages \ bitmap
      <4>1. Physical!Pages \ bitmap' = S \cup {p} /\ p \notin S /\ S \in SUBSET Physical!Pages
        BY <1>4, <2>1, <2>5
      <4>. HIDE DEF S
      <4>2. IsFiniteSet(S)
        BY ONLY <1>1, <4>1, FS_Subset, Zenon
      <4>3. Cardinality(S \cup {p}) = IF p \in S THEN Cardinality(S) ELSE Cardinality(S) + 1
        BY ONLY <4>2, FS_AddElement, Zenon
      <4>. QED
        BY <1>4, <2>5, <4>1, <4>3 DEF S
    <3>3. Physical!CountsAgree'
      BY <1>2, <3>1, <3>2, FramesSame DEF Physical!CountsAgree
    <3>4. last_alloc_index' \in 0 .. total_pages
      BY <1>3, <1>4
    <3>5. FramesInv'
      BY <1>2, <1>6, <2>3, <2>4, <2>4a, <3>1, <3>3, <3>4 DEF FramesInv
    <3>. QED
      BY <1>2, <1>5, <3>5 DEF FramesIInv
  <2>6. CASE refcounts[p] # 1 /\ UNCHANGED <<bitmap, free_pages>>
    <3>1. \A q \in Physical!Pages : q \in bitmap' <=> refcounts'[q] # 0
      BY <1>4, <2>1, <2>3, <2>6
    <3>2. Physical!CountsAgree'
      BY <1>2, <1>4, <2>6, <3>1, FramesSame DEF Physical!CountsAgree
    <3>3. last_alloc_index' \in 0 .. total_pages /\ bitmap' \subseteq Physical!Pages
      BY <1>3, <1>4, <2>6
    <3>4. FramesInv'
      BY <1>2, <1>6, <2>3, <2>4, <2>4a, <3>2, <3>3 DEF FramesInv
    <3>. QED
      BY <1>2, <1>5, <3>4 DEF FramesIInv
  <2>. QED
    BY <1>7, <2>5, <2>6 DEF Physical!Release
<1>8. CASE ~Physical!allocated_frame(p) /\ UNCHANGED <<bitmap, refcounts, free_pages>>
  <2>1. ~(p \in Physical!Pages /\ held[p] > 0)
    BY <1>8, FramesAllocatedIs
  <2>2. \A q \in Physical!Pages : held'[q] = held[q]
    BY <1>3, <2>1
  <2>3. Physical!RefsAreHeld'
    BY <1>2, <1>4, <1>8, <2>2 DEF Physical!RefsAreHeld
  <2>4. Physical!CountsAgree'
    BY <1>2, <1>4, <1>8, FramesSame DEF Physical!CountsAgree
  <2>5. /\ last_alloc_index' \in 0 .. total_pages /\ bitmap' \subseteq Physical!Pages
        /\ refcounts' \in [Physical!Pages -> 0 .. Reserved] /\ \A q \in Physical!FreeAtStart(map) : refcounts'[q] < Reserved
    BY <1>3, <1>4, <1>8
  <2>6. FramesInv'
    BY <1>2, <1>6, <2>3, <2>4, <2>5 DEF FramesInv
  <2>. QED
    BY <1>2, <1>5, <2>6 DEF FramesIInv
<1>. QED
  BY <1>7, <1>8 DEF Physical!pmm_free_page

(* pmm_ref_page: an allocated frame gets one more holder, below the mark.  *)
LEMMA FramesRefStep ==
  ASSUME Physical!PageAssumption, FramesIInv, NEW p \in 0 .. total_pages, Physical!pmm_ref_page(p)
  PROVE  FramesIInv'
<1>1. /\ total_pages \in Nat /\ Physical!Pages = 0 .. total_pages - 1 /\ Physical!FreeAtStart(map) \subseteq Physical!Pages
      /\ Reserved \in Nat /\ Reserved > 2
  BY FramesAre DEF FramesIInv
<1>2. FramesMapInv' /\ Physical!Pages' = Physical!Pages /\ Physical!FreeAtStart(map)' = Physical!FreeAtStart(map) /\ total_pages' = total_pages
  BY FramesMapKept DEF FramesIInv, Physical!pmm_ref_page
<1>3. /\ last' = [count |-> 0, at |-> None] /\ last_alloc_index' = last_alloc_index
      /\ UNCHANGED <<bitmap, free_pages>>
  BY DEF Physical!pmm_ref_page, Physical!NoCall
<1>4. /\ refcounts \in [Physical!Pages -> 0 .. Reserved] /\ held \in [Physical!Pages -> Nat] /\ bitmap \subseteq Physical!Pages
      /\ last_alloc_index \in 0 .. total_pages
      /\ \A q \in Physical!FreeAtStart(map) : refcounts[q] < Reserved
      /\ \A q \in Physical!Pages : q \in bitmap <=> refcounts[q] # 0
      /\ free_pages = Cardinality(Physical!Pages \ bitmap)
      /\ \A q \in Physical!Pages : IF q \in Physical!FreeAtStart(map) THEN refcounts[q] = held[q]
                          ELSE refcounts[q] = Reserved /\ held[q] = 0
  BY FramesSame DEF FramesIInv, FramesInv, Physical!CountsAgree, Physical!RefsAreHeld
<1>5. FramesCallInv'
  BY <1>3 DEF FramesCallInv, Physical!OutOfMemoryIsReal
<1>6. CASE /\ Physical!allocated_frame(p) /\ refcounts[p] # Reserved - 1
           /\ refcounts' = [refcounts EXCEPT ![p] = @ + 1]
           /\ held' = [held EXCEPT ![p] = @ + 1]
  <2>1. /\ p \in Physical!Pages /\ p \in Physical!FreeAtStart(map) /\ p \in bitmap
        /\ refcounts[p] = held[p] /\ refcounts[p] \in 1 .. Reserved - 1
    BY <1>6, FramesAllocatedIs
  <2>2. /\ refcounts'[p] = refcounts[p] + 1 /\ held'[p] = held[p] + 1
        /\ \A q \in Physical!Pages : q # p => refcounts'[q] = refcounts[q] /\ held'[q] = held[q]
        /\ refcounts' \in [Physical!Pages -> 0 .. Reserved] /\ held' \in [Physical!Pages -> Nat]
    BY <1>1, <1>4, <1>6, <2>1
  <2>3. Physical!RefsAreHeld' /\ \A q \in Physical!FreeAtStart(map) : refcounts'[q] < Reserved
    <3>1. \A q \in Physical!Pages : IF q \in Physical!FreeAtStart(map) THEN refcounts'[q] = held'[q]
                                   ELSE refcounts'[q] = Reserved /\ held'[q] = 0
      BY ONLY <1>4, <2>1, <2>2
    <3>2. \A q \in Physical!FreeAtStart(map) : refcounts'[q] < Reserved
      <4>. TAKE q \in Physical!FreeAtStart(map)
      <4>1. CASE q = p
        <5>1. refcounts[p] # Reserved - 1
          BY <1>6
        <5>. QED
          BY ONLY <1>1, <2>1, <2>2, <4>1, <5>1
      <4>2. CASE q # p
        BY ONLY <1>1, <1>4, <2>2, <4>2
      <4>. QED
        BY <4>1, <4>2
    <3>. QED
      BY ONLY <1>2, <3>1, <3>2 DEF Physical!RefsAreHeld
  <2>4. \A q \in Physical!Pages : q \in bitmap' <=> refcounts'[q] # 0
    BY ONLY <1>1, <1>3, <1>4, <2>1, <2>2
  <2>5. Physical!CountsAgree'
    BY <1>2, <1>3, <1>4, <2>4, FramesSame DEF Physical!CountsAgree
  <2>6. last_alloc_index' \in 0 .. total_pages /\ bitmap' \subseteq Physical!Pages
    BY <1>3, <1>4
  <2>7. FramesInv'
    BY <1>2, <2>2, <2>3, <2>5, <2>6 DEF FramesInv
  <2>. QED
    BY <1>2, <1>5, <2>7 DEF FramesIInv
<1>7. CASE UNCHANGED <<refcounts, held>>
  BY <1>1, <1>2, <1>3, <1>4, <1>5, <1>7, FramesSame DEF FramesIInv, FramesInv, Physical!CountsAgree, Physical!RefsAreHeld
<1>. QED
  BY <1>6, <1>7 DEF Physical!pmm_ref_page

(* Every step keeps the invariant, and an allocation what others hold.     *)
LEMMA FramesNextStep ==
  ASSUME Physical!PageAssumption, FramesIInv, [Physical!Next]_(Physical!vars)
  PROVE  FramesIInv' /\ (last'.count > 0 => \A p \in Physical!Pages : held[p] > 0 => held'[p] = held[p])
<1>1. CASE Physical!pmm_alloc_page
  BY <1>1, FramesAllocStep
<1>2. CASE \E n \in Counts : Physical!pmm_alloc_contiguous_pages(n)
  BY <1>2, FramesContiguousStep DEF Physical!PageAssumption
<1>3. ASSUME NEW p \in 0 .. total_pages, Physical!pmm_free_page(p) \/ Physical!pmm_ref_page(p)
      PROVE  FramesIInv' /\ last'.count = 0
  <2>1. last' = [count |-> 0, at |-> None]
    BY <1>3 DEF Physical!pmm_free_page, Physical!pmm_ref_page, Physical!NoCall
  <2>. QED
    BY <1>3, <2>1, FramesFreeStep, FramesRefStep
<1>4. CASE UNCHANGED Physical!vars
  BY <1>4, FramesSame DEF Physical!vars, FramesIInv, FramesMapInv, FramesInv, FramesCallInv, Physical!CountsAgree, Physical!RefsAreHeld, Physical!OutOfMemoryIsReal, Physical!Pages
<1>. QED
  BY <1>1, <1>2, <1>3, <1>4 DEF Physical!Next

(* pmm.c: bitmap, counts and holders agree in every state, and a refusal   *)
(* means that there is no such run.                                        *)
THEOREM FramesStaySafe == ASSUME Physical!PageAssumption PROVE Physical!Spec => []Physical!Safety
<1>1. Physical!Init => FramesIInv
  BY FramesInitInv
<1>2. FramesIInv /\ [Physical!Next]_(Physical!vars) => FramesIInv'
  BY FramesNextStep
<1>3. FramesIInv => Physical!Safety
  BY FramesInvSafe
<1>. QED
  BY <1>1, <1>2, <1>3, PTL DEF Physical!Spec

(* pmm.c: no allocation takes a frame that somebody holds.                 *)
THEOREM FramesTakenOnce == ASSUME Physical!PageAssumption PROVE Physical!Spec => Physical!NeverTakenTwice
<1>1. Physical!Init => FramesIInv
  BY FramesInitInv
<1>2. FramesIInv /\ [Physical!Next]_(Physical!vars) => FramesIInv'
  BY FramesNextStep
<1>3. FramesIInv /\ [Physical!Next]_(Physical!vars) => [last'.count > 0 => \A p \in Physical!Pages : held[p] > 0 => held'[p] = held[p]]_(Physical!vars)
  BY FramesNextStep
<1>. QED
  BY <1>1, <1>2, <1>3, PTL DEF Physical!Spec, Physical!NeverTakenTwice

(* pmm.c, for any firmware maps: bitmap, counts and holders agree, an      *)
(* allocation takes only what nobody holds, a refusal means that there is  *)
(* no such run.                                                            *)
THEOREM FramesAlwaysSafe == Physical!Spec => FramesSafe
<1>1. Physical!Spec => []Physical!Safety
  BY FramesStaySafe, FramesAssumption
<1>2. Physical!Spec => Physical!NeverTakenTwice
  BY FramesTakenOnce, FramesAssumption
<1>3. Physical!Safety => (part = "frames" => Physical!Safety)
  OBVIOUS
<1>. QED
  BY <1>1, <1>2, <1>3, PTL DEF FramesSafe

-----------------------------------------------------------------------------
(***************************************************************************)
(* The ELF loader.  First pages: what is aligned, and how segments lie in  *)
(* whole pages.                                                            *)
(***************************************************************************)
ElfAligned == {ElfPage * i : i \in Nat}

(* Aligned addresses are a page apart, and there are no more in between.   *)
LEMMA ElfAlignedIs ==
  ASSUME Elf!ElfAssumption
  PROVE  /\ ElfAligned \subseteq Nat
         /\ \A x, y \in ElfAligned : x < y => x + ElfPage <= y
         /\ \A x \in ElfAligned : x + ElfPage \in ElfAligned
<1>1. ElfPage \in Nat \ {0}
  BY DEF Elf!ElfAssumption
<1>2. ASSUME NEW i \in Nat PROVE ElfPage * i \in Nat /\ ElfPage * i + ElfPage = ElfPage * (i + 1)
  BY <1>1
<1>3. ASSUME NEW i \in Nat, NEW j \in Nat, ElfPage * i < ElfPage * j
      PROVE  ElfPage * i + ElfPage <= ElfPage * j
  <2>1. ~ (j <= i)
    <3>1. j <= i => ElfPage * j <= ElfPage * i
      BY <1>1, Times
    <3>2. QED
      BY <1>2, <1>3, <3>1
  <2>2. ElfPage * (i + 1) <= ElfPage * j
    BY <1>1, <2>1, Times
  <2>3. QED
    BY <1>2, <2>2
<1>4. ASSUME NEW x \in ElfAligned, NEW y \in ElfAligned, x < y PROVE x + ElfPage <= y
  <2>1. PICK i \in Nat : x = ElfPage * i
    BY DEF ElfAligned
  <2>2. PICK j \in Nat : y = ElfPage * j
    BY DEF ElfAligned
  <2>3. ElfPage * i < ElfPage * j
    BY <1>4, <2>1, <2>2
  <2>4. QED
    BY <1>3, <2>1, <2>2, <2>3
<1>5. ASSUME NEW x \in ElfAligned PROVE x \in Nat /\ x + ElfPage \in ElfAligned
  <2>1. PICK i \in Nat : x = ElfPage * i
    BY DEF ElfAligned
  <2>2. i + 1 \in Nat
    OBVIOUS
  <2>3. QED
    BY <1>2, <2>1, <2>2 DEF ElfAligned
<1>6. QED
  BY <1>4, <1>5

(* The page of an address, and of which pages there are.                   *)
LEMMA ElfPageOfIs ==
  ASSUME Elf!ElfAssumption, NEW a \in Nat
  PROVE  /\ Elf!PageOf(a) \in ElfAligned /\ Elf!PageOf(a) \in Nat
         /\ Elf!PageOf(a) <= a /\ a < Elf!PageOf(a) + ElfPage
         /\ a % ElfPage = a - Elf!PageOf(a)
<1>1. ElfPage \in Nat \ {0}
  BY DEF Elf!ElfAssumption
<1>2. PICK q \in Int : \E r \in 0 .. ElfPage - 1 : q = a \div ElfPage /\ r = a % ElfPage /\ a = ElfPage * q + r
  BY <1>1, DivMod
<1>3. PICK r \in 0 .. ElfPage - 1 : r = a % ElfPage /\ a = ElfPage * q + r
  BY <1>2
<1>4. Elf!PageOf(a) = ElfPage * q
  <2>1. Elf!PageOf(a) = a - r
    BY <1>3 DEF Elf!PageOf
  <2>2. ElfPage * q \in Int
    BY <1>1
  <2>3. QED
    BY <1>3, <2>1, <2>2
<1>5. q >= 0
  <2>1. q <= -1 => ElfPage * q <= ElfPage * (-1)
    BY <1>1, Times
  <2>2. ElfPage * (-1) = - ElfPage
    BY <1>1
  <2>3. ElfPage * q \in Int /\ ElfPage * q + r >= 0
    BY <1>1, <1>3
  <2>4. QED
    BY <1>1, <2>1, <2>2, <2>3
<1>6. Elf!PageOf(a) \in ElfAligned
  BY <1>4, <1>5 DEF ElfAligned
<1>7. Elf!PageOf(a) \in Nat
  BY <1>6, ElfAlignedIs
<1>8. a = Elf!PageOf(a) + r
  BY <1>3, <1>4
<1>9. QED
  BY <1>1, <1>3, <1>6, <1>7, <1>8

(* An address has one page.                                                *)
LEMMA ElfPageOfByte ==
  ASSUME Elf!ElfAssumption, NEW v \in ElfAligned, NEW b \in 0 .. ElfPage - 1
  PROVE  Elf!PageOf(v + b) = v /\ (v + b) % ElfPage = b
<1>1. ElfPage \in Nat \ {0} /\ v \in Nat /\ v + b \in Nat
  BY ElfAlignedIs DEF Elf!ElfAssumption
<1>2. /\ Elf!PageOf(v + b) \in ElfAligned /\ Elf!PageOf(v + b) \in Nat
      /\ Elf!PageOf(v + b) <= v + b /\ v + b < Elf!PageOf(v + b) + ElfPage
      /\ (v + b) % ElfPage = (v + b) - Elf!PageOf(v + b)
  BY <1>1, ElfPageOfIs
<1>3. ~ (v < Elf!PageOf(v + b)) /\ ~ (Elf!PageOf(v + b) < v)
  BY <1>1, <1>2, ElfAlignedIs
<1>4. Elf!PageOf(v + b) = v
  BY <1>1, <1>2, <1>3
<1>5. QED
  BY <1>1, <1>2, <1>4

(* The pages of the user half, and of the stack with its guards.           *)
LEMMA ElfPagesAre ==
  ASSUME Elf!ElfAssumption
  PROVE  /\ Elf!PageVas = {v \in ElfAligned : v < ElfUserEnd}
         /\ ElfUserEnd \in ElfAligned /\ StackBase \in ElfAligned
         /\ StackBase - ElfPage \in ElfAligned
<1>1. /\ ElfPage \in Nat \ {0} /\ ElfUserEnd \in Nat /\ StackBase \in Nat
      /\ ElfUserEnd % ElfPage = 0 /\ StackBase % ElfPage = 0 /\ StackBase >= ElfPage
  BY DEF Elf!ElfAssumption
<1>2. ASSUME NEW x \in Nat, x % ElfPage = 0
      PROVE  x \div ElfPage \in Nat /\ x = ElfPage * (x \div ElfPage)
  <2>1. PICK q \in Int : \E r \in 0 .. ElfPage - 1 : q = x \div ElfPage /\ r = x % ElfPage /\ x = ElfPage * q + r
    BY <1>1, DivMod
  <2>2. q = x \div ElfPage /\ x = ElfPage * q
    <3>1. ElfPage * q \in Int
      BY <1>1
    <3>2. QED
      BY <1>2, <2>1, <3>1
  <2>3. q >= 0
    <3>1. q <= -1 => ElfPage * q <= ElfPage * (-1)
      BY <1>1, Times
    <3>2. ElfPage * (-1) = - ElfPage
      BY <1>1
    <3>3. QED
      BY <1>1, <2>2, <3>1, <3>2
  <2>4. QED
    BY <2>2, <2>3
<1>3. ASSUME NEW x \in Nat, x % ElfPage = 0 PROVE x \in ElfAligned
  BY <1>2, <1>3 DEF ElfAligned
<1>4. ElfUserEnd \in ElfAligned /\ StackBase \in ElfAligned
  BY <1>1, <1>3
<1>5. PICK n \in Nat : n = ElfUserEnd \div ElfPage /\ ElfUserEnd = ElfPage * n
  BY <1>1, <1>2
<1>6. StackBase - ElfPage \in ElfAligned
  <2>1. PICK i \in Nat : StackBase = ElfPage * i
    BY <1>4 DEF ElfAligned
  <2>2. i # 0
    <3>1. ElfPage * 0 = 0
      BY <1>1
    <3>2. QED
      BY <1>1, <2>1, <3>1
  <2>3. i - 1 \in Nat /\ ElfPage * (i - 1) = ElfPage * i - ElfPage
    BY <1>1, <2>2
  <2>4. QED
    BY <2>1, <2>3 DEF ElfAligned
<1>7. ASSUME NEW i \in Nat PROVE i \in 0 .. n - 1 <=> ElfPage * i < ElfPage * n
  <2>1. i <= n - 1 => ElfPage * (i + 1) <= ElfPage * n
    BY <1>1, Times
  <2>2. n <= i => ElfPage * n <= ElfPage * i
    BY <1>1, Times
  <2>3. ElfPage * (i + 1) = ElfPage * i + ElfPage /\ ElfPage * i \in Int /\ ElfPage * n \in Int
    BY <1>1
  <2>4. QED
    BY <1>1, <2>1, <2>2, <2>3
<1>8. Elf!PageVas = {p * ElfPage : p \in 0 .. n - 1}
  BY <1>5 DEF Elf!PageVas
<1>9. \A i \in Nat : i * ElfPage = ElfPage * i
  BY <1>1
<1>10. ASSUME NEW v PROVE v \in Elf!PageVas <=> v \in ElfAligned /\ v < ElfUserEnd
  <2>1. ASSUME v \in Elf!PageVas PROVE v \in ElfAligned /\ v < ElfUserEnd
    <3>1. PICK i \in 0 .. n - 1 : v = i * ElfPage
      BY <1>8, <2>1
    <3>2. i \in Nat /\ v = ElfPage * i
      BY <1>9, <3>1
    <3>3. QED
      BY <1>5, <1>7, <3>1, <3>2 DEF ElfAligned
  <2>2. ASSUME v \in ElfAligned, v < ElfUserEnd PROVE v \in Elf!PageVas
    <3>1. PICK i \in Nat : v = ElfPage * i
      BY <2>2 DEF ElfAligned
    <3>2. i \in 0 .. n - 1 /\ v = i * ElfPage
      BY <1>5, <1>7, <1>9, <2>2, <3>1
    <3>3. QED
      BY <1>8, <3>2
  <2>3. QED
    BY <2>1, <2>2
<1>11. QED
  BY <1>4, <1>6, <1>10

(* Pages counted from an aligned address.                                  *)
LEMMA ElfPagesFrom ==
  ASSUME Elf!ElfAssumption, NEW base \in ElfAligned, NEW n \in Nat
  PROVE  /\ base + n * ElfPage \in ElfAligned
         /\ \A v \in ElfAligned : base <= v /\ v < base + n * ElfPage
                                    => \E i \in 0 .. n - 1 : v = base + i * ElfPage
         /\ \A i \in 0 .. n - 1 : /\ base <= base + i * ElfPage
                                  /\ base + i * ElfPage < base + n * ElfPage
<1>1. ElfPage \in Nat \ {0}
  BY DEF Elf!ElfAssumption
<1>2. PICK k \in Nat : base = ElfPage * k
  BY DEF ElfAligned
<1>3. ASSUME NEW i \in Nat PROVE base + i * ElfPage = ElfPage * (k + i) /\ base + i * ElfPage \in ElfAligned
  <2>1. ElfPage * (k + i) = ElfPage * k + ElfPage * i /\ i * ElfPage = ElfPage * i
    BY <1>1
  <2>2. k + i \in Nat
    OBVIOUS
  <2>3. QED
    BY <1>2, <2>1, <2>2 DEF ElfAligned
<1>4. ASSUME NEW v \in ElfAligned, base <= v, v < base + n * ElfPage
      PROVE  \E i \in 0 .. n - 1 : v = base + i * ElfPage
  <2>1. PICK j \in Nat : v = ElfPage * j
    BY DEF ElfAligned
  <2>2. k <= j
    BY <1>1, <1>2, <1>4, <2>1, TimesLess
  <2>3. ~ (k + n <= j)
    <3>1. k + n <= j => ElfPage * (k + n) <= ElfPage * j
      BY <1>1, Times
    <3>2. base + n * ElfPage = ElfPage * (k + n)
      BY <1>3
    <3>3. ElfPage * (k + n) \in Int /\ ElfPage * j \in Int
      BY <1>1
    <3>4. QED
      BY <1>4, <2>1, <3>1, <3>2, <3>3
  <2>4. PICK i \in Nat : j = k + i
    <3>1. j - k \in Nat /\ j = k + (j - k)
      BY <2>2
    <3>2. QED
      BY <3>1
  <2>5. i \in 0 .. n - 1
    BY <2>3, <2>4
  <2>6. QED
    BY <1>3, <2>1, <2>4, <2>5
<1>5. ASSUME NEW i \in 0 .. n - 1
      PROVE  base <= base + i * ElfPage /\ base + i * ElfPage < base + n * ElfPage
  <2>1. 0 * ElfPage <= i * ElfPage /\ (i + 1) * ElfPage <= n * ElfPage
    <3>1. ElfPage * 0 <= ElfPage * i
      BY <1>1, Times
    <3>2. ElfPage * (i + 1) <= ElfPage * n
      BY <1>1, Times
    <3>3. \A x \in Int : ElfPage * x = x * ElfPage
      BY <1>1
    <3>4. QED
      BY <3>1, <3>2, <3>3
  <2>2. (i + 1) * ElfPage = i * ElfPage + ElfPage /\ i * ElfPage \in Int /\ n * ElfPage \in Int
        /\ 0 * ElfPage = 0
    BY <1>1
  <2>3. base \in Nat
    BY ElfAlignedIs
  <2>4. QED
    BY <1>1, <2>1, <2>2, <2>3
<1>6. QED
  BY <1>3, <1>4, <1>5

(* The first address behind the stack.                                     *)
ElfStackEnd == StackBase + StackPages * ElfPage

(* The stack and its guards, by address.                                   *)
LEMMA ElfStackIs ==
  ASSUME Elf!ElfAssumption
  PROVE  /\ ElfStackEnd \in ElfAligned /\ ElfStackEnd + ElfPage <= ElfUserEnd
         /\ StackBase <= ElfStackEnd
         /\ Elf!StackArea = {v \in ElfAligned : StackBase - ElfPage <= v /\ v <= ElfStackEnd}
         /\ {StackBase + i * ElfPage : i \in 0 .. StackPages - 1}
              = {v \in ElfAligned : StackBase <= v /\ v < ElfStackEnd}
         /\ Elf!StackArea \subseteq Elf!PageVas
<1>1. /\ ElfPage \in Nat \ {0} /\ StackPages \in Nat /\ StackBase \in Nat /\ StackBase >= ElfPage
      /\ StackBase + (StackPages + 1) * ElfPage <= ElfUserEnd /\ ElfUserEnd \in Nat
  BY DEF Elf!ElfAssumption
<1>2. /\ StackBase \in ElfAligned /\ StackBase - ElfPage \in ElfAligned
      /\ Elf!PageVas = {v \in ElfAligned : v < ElfUserEnd}
  BY ElfPagesAre
<1>3. /\ (StackPages + 1) * ElfPage = StackPages * ElfPage + ElfPage
      /\ (StackPages + 2) * ElfPage = StackPages * ElfPage + 2 * ElfPage
      /\ StackPages * ElfPage \in Nat
  BY <1>1
<1>4. /\ ElfStackEnd \in ElfAligned
      /\ \A v \in ElfAligned : StackBase <= v /\ v < ElfStackEnd
                                 => \E i \in 0 .. StackPages - 1 : v = StackBase + i * ElfPage
      /\ \A i \in 0 .. StackPages - 1 : /\ StackBase <= StackBase + i * ElfPage
                                        /\ StackBase + i * ElfPage < ElfStackEnd
  BY <1>1, <1>2, ElfPagesFrom DEF ElfStackEnd
<1>5. \A i \in 0 .. StackPages - 1 : StackBase + i * ElfPage \in ElfAligned
  BY <1>2, ElfPagesFrom
<1>6. {StackBase + i * ElfPage : i \in 0 .. StackPages - 1}
        = {v \in ElfAligned : StackBase <= v /\ v < ElfStackEnd}
  BY <1>4, <1>5
<1>7. ElfStackEnd + ElfPage <= ElfUserEnd /\ StackBase <= ElfStackEnd /\ ElfStackEnd \in Nat
  BY <1>1, <1>3 DEF ElfStackEnd
<1> DEFINE low == StackBase - ElfPage
<1>8. low \in ElfAligned /\ low \in Nat /\ low + (StackPages + 2) * ElfPage = ElfStackEnd + ElfPage
  BY <1>1, <1>2, <1>3 DEF ElfStackEnd
<1>9. \A i \in Int : StackBase + i * ElfPage = low + (i + 1) * ElfPage
  BY <1>1
<1>10. \A i \in Nat : low + i * ElfPage \in ElfAligned
  BY <1>8, ElfPagesFrom
<1> HIDE DEF low
<1>11. /\ \A v \in ElfAligned : low <= v /\ v < ElfStackEnd + ElfPage
                                 => \E i \in 0 .. StackPages + 1 : v = low + i * ElfPage
       /\ \A i \in 0 .. StackPages + 1 : /\ low <= low + i * ElfPage
                                         /\ low + i * ElfPage < ElfStackEnd + ElfPage
  <2>1. PICK n \in Nat : n = StackPages + 2
    BY <1>1
  <2>2. n - 1 = StackPages + 1 /\ low + n * ElfPage = ElfStackEnd + ElfPage
    BY <1>1, <1>8, <2>1
  <2>3. /\ \A v \in ElfAligned : low <= v /\ v < low + n * ElfPage
                                 => \E i \in 0 .. n - 1 : v = low + i * ElfPage
        /\ \A i \in 0 .. n - 1 : /\ low <= low + i * ElfPage
                                 /\ low + i * ElfPage < low + n * ElfPage
    BY <1>8, ElfPagesFrom
  <2>4. QED
    BY <2>2, <2>3
<1>12. ASSUME NEW v \in ElfAligned PROVE v < ElfStackEnd + ElfPage <=> v <= ElfStackEnd
  BY <1>1, <1>4, <1>7, ElfAlignedIs
<1>13. ASSUME NEW v \in Elf!StackArea PROVE v \in ElfAligned /\ low <= v /\ v <= ElfStackEnd
  <2>1. PICK i \in -1 .. StackPages : v = StackBase + i * ElfPage
    BY DEF Elf!StackArea
  <2>2. i + 1 \in 0 .. StackPages + 1 /\ i + 1 \in Nat /\ v = low + (i + 1) * ElfPage
    BY <1>1, <1>9, <2>1
  <2>3. QED
    BY <1>10, <1>11, <1>12, <2>2
<1>14. ASSUME NEW v \in ElfAligned, low <= v, v <= ElfStackEnd PROVE v \in Elf!StackArea
  <2>1. PICK i \in 0 .. StackPages + 1 : v = low + i * ElfPage
    BY <1>11, <1>12, <1>14
  <2>2. i - 1 \in -1 .. StackPages /\ (i - 1) + 1 = i
    BY <1>1
  <2>3. v = StackBase + (i - 1) * ElfPage
    BY <1>9, <2>1, <2>2
  <2>4. QED
    BY <2>2, <2>3 DEF Elf!StackArea
<1>15. Elf!StackArea = {v \in ElfAligned : low <= v /\ v <= ElfStackEnd}
  BY <1>13, <1>14
<1>16. Elf!StackArea \subseteq Elf!PageVas
  <2>1. ASSUME NEW v \in Elf!StackArea PROVE v \in Elf!PageVas
    <3>1. v \in ElfAligned /\ v <= ElfStackEnd /\ v \in Nat
      BY <1>13, ElfAlignedIs
    <3>2. v < ElfUserEnd
      BY <1>1, <1>7, <3>1
    <3>3. QED
      BY <1>2, <3>1, <3>2
  <2>2. QED
    BY <2>1
<1>17. QED
  BY <1>4, <1>6, <1>7, <1>15, <1>16 DEF low

(* A program header.                                                       *)
LEMMA ElfPhdrIs ==
  ASSUME Elf!FileAssumption, NEW p \in Phdrs
  PROVE  /\ p.vaddr \in Nat /\ p.offset \in Nat /\ p.filesz \in Nat /\ p.memsz \in Nat
         /\ p.flags \in SUBSET STRING
BY DEF Elf!FileAssumption, Elf!Values

(* The pages of a segment that the validator accepts: it starts in the     *)
(* first and ends in the last.                                             *)
LEMMA ElfSegmentIs ==
  ASSUME Elf!ElfAssumption, Elf!FileAssumption, NEW p \in Phdrs, Elf!LoadOk(p), p.memsz # 0
  PROVE  /\ Elf!PageOf(p.vaddr) \in ElfAligned /\ Elf!EndOf(p) \in ElfAligned
         /\ Elf!PageOf(p.vaddr) \in Nat /\ Elf!EndOf(p) \in Nat
         /\ Elf!EndOf(p) <= ElfUserEnd /\ p.vaddr + p.memsz <= Elf!EndOf(p)
         /\ Elf!PageOf(p.vaddr) <= p.vaddr /\ p.vaddr < Elf!PageOf(p.vaddr) + ElfPage
         /\ Elf!PageOf(p.vaddr) < Elf!EndOf(p)
         /\ \A x \in ElfAligned : x < p.vaddr + p.memsz <=> x < Elf!EndOf(p)
         /\ \E n \in Nat : /\ Elf!EndOf(p) = Elf!PageOf(p.vaddr) + n * ElfPage
                           /\ (Elf!EndOf(p) - Elf!PageOf(p.vaddr)) \div ElfPage = n
<1>1. /\ ElfPage \in Nat \ {0} /\ ElfUserEnd \in Nat /\ ElfWord \in Nat /\ ElfUserEnd + ElfPage < ElfWord
  BY DEF Elf!ElfAssumption
<1>2. p.vaddr \in Nat /\ p.memsz \in Nat \ {0}
  BY ElfPhdrIs
<1>3. p.vaddr + p.memsz <= ElfUserEnd
  BY <1>1, <1>2 DEF Elf!LoadOk
<1>4. PICK e \in Nat : e = p.vaddr + p.memsz + (ElfPage - 1)
  BY <1>1, <1>2
<1>5. Elf!EndOf(p) = Elf!PageOf(e)
  <2>1. ASSUME NEW y \in Nat, y < ElfWord PROVE y % ElfWord = y
    BY <1>1, <2>1
  <2>2. Elf!Plus(p.vaddr, p.memsz) = p.vaddr + p.memsz
    <3>1. p.vaddr + p.memsz \in Nat /\ p.vaddr + p.memsz < ElfWord
      BY <1>1, <1>2, <1>3
    <3>2. QED
      BY <2>1, <3>1 DEF Elf!Plus
  <2>3. Elf!Plus(p.vaddr + p.memsz, ElfPage - 1) = e
    <3>1. e < ElfWord
      BY <1>1, <1>2, <1>3, <1>4
    <3>2. QED
      BY <1>4, <2>1, <3>1 DEF Elf!Plus
  <2>4. QED
    BY <2>2, <2>3 DEF Elf!EndOf
<1>6. /\ Elf!PageOf(p.vaddr) \in ElfAligned /\ Elf!PageOf(p.vaddr) \in Nat
      /\ Elf!PageOf(p.vaddr) <= p.vaddr /\ p.vaddr < Elf!PageOf(p.vaddr) + ElfPage
  BY <1>2, ElfPageOfIs
<1>7. /\ Elf!EndOf(p) \in ElfAligned /\ Elf!EndOf(p) \in Nat
      /\ Elf!EndOf(p) <= e /\ e < Elf!EndOf(p) + ElfPage
  BY <1>5, ElfPageOfIs
<1>8. p.vaddr + p.memsz <= Elf!EndOf(p) /\ Elf!EndOf(p) < p.vaddr + p.memsz + ElfPage
  BY <1>1, <1>2, <1>4, <1>7
<1>9. Elf!PageOf(p.vaddr) < Elf!EndOf(p)
  <2>1. PICK a \in Nat : a = p.vaddr
    BY <1>2
  <2>2. PICK m \in Nat \ {0} : m = p.memsz
    BY <1>2
  <2>3. Elf!PageOf(p.vaddr) <= a /\ a + m <= Elf!EndOf(p)
    BY <1>6, <1>8, <2>1, <2>2
  <2>4. QED
    BY <1>6, <1>7, <2>3
<1>10. ASSUME NEW x \in ElfAligned PROVE x < p.vaddr + p.memsz <=> x < Elf!EndOf(p)
  <2>1. x \in Nat /\ (x < Elf!EndOf(p) => x + ElfPage <= Elf!EndOf(p))
    BY <1>7, ElfAlignedIs
  <2>2. PICK z \in Nat : z = p.vaddr + p.memsz
    BY <1>2
  <2>3. z <= Elf!EndOf(p) /\ Elf!EndOf(p) < z + ElfPage
    BY <1>8, <2>2
  <2>4. x < z <=> x < Elf!EndOf(p)
    BY <1>1, <1>7, <2>1, <2>3
  <2>5. QED
    BY <2>2, <2>4
<1>11. Elf!EndOf(p) <= ElfUserEnd
  <2>1. ElfUserEnd \in ElfAligned
    BY ElfPagesAre
  <2>2. ElfUserEnd < Elf!EndOf(p) => ElfUserEnd + ElfPage <= Elf!EndOf(p)
    BY <1>7, <2>1, ElfAlignedIs
  <2>3. QED
    BY <1>1, <1>2, <1>3, <1>7, <1>8, <2>2
<1>12. \E n \in Nat : /\ Elf!EndOf(p) = Elf!PageOf(p.vaddr) + n * ElfPage
                      /\ (Elf!EndOf(p) - Elf!PageOf(p.vaddr)) \div ElfPage = n
  <2>1. PICK i \in Nat : Elf!PageOf(p.vaddr) = ElfPage * i
    BY <1>6 DEF ElfAligned
  <2>2. PICK j \in Nat : Elf!EndOf(p) = ElfPage * j
    BY <1>7 DEF ElfAligned
  <2>3. i <= j
    BY <1>1, <1>6, <1>7, <1>9, <2>1, <2>2, TimesLess
  <2>4. PICK n \in Nat : n = j - i
    BY <2>3
  <2>5. ElfPage * j = ElfPage * i + n * ElfPage /\ ElfPage * j - ElfPage * i = ElfPage * n
    BY <1>1, <2>4
  <2>6. (ElfPage * n) \div ElfPage = n
    <3>1. PICK q \in Int : \E r \in 0 .. ElfPage - 1 : q = (ElfPage * n) \div ElfPage /\ r = (ElfPage * n) % ElfPage
                                                         /\ ElfPage * n = ElfPage * q + r
      BY <1>1, DivMod
    <3>2. PICK r \in 0 .. ElfPage - 1 : q = (ElfPage * n) \div ElfPage /\ ElfPage * n = ElfPage * q + r
      BY <3>1
    <3>3. q <= n
      <4>1. ElfPage * q <= ElfPage * n
        BY <1>1, <3>2
      <4>2. QED
        BY <1>1, <4>1, TimesLess
    <3>4. n <= q
      <4>1. q + 1 <= n => ElfPage * (q + 1) <= ElfPage * n
        BY <1>1, Times
      <4>2. ElfPage * (q + 1) = ElfPage * q + ElfPage /\ ElfPage * q \in Int
        BY <1>1
      <4>3. QED
        BY <1>1, <3>2, <4>1, <4>2
    <3>5. QED
      BY <3>2, <3>3, <3>4
  <2>7. QED
    BY <2>1, <2>2, <2>5, <2>6
<1>13. QED
  BY <1>6, <1>7, <1>8, <1>9, <1>10, <1>11, <1>12

-----------------------------------------------------------------------------
(***************************************************************************)
(* The validator's rounds.                                                 *)
(***************************************************************************)
ElfRecord == [ok : BOOLEAN, pages : Nat, previous_end : ElfAligned, entry_found : BOOLEAN]
ElfLimit == ElfPages - StackPages
ElfCount(p) == (Elf!EndOf(p) - Elf!PageOf(p.vaddr)) \div ElfPage

(* What a round that accepts p has found, going from c to d.               *)
ElfRound(h, c, p, d) ==
  /\ ~ Elf!Loads(p) => d = c
  /\ Elf!Loads(p) =>
       /\ Elf!LoadOk(p) /\ Elf!FlagsOk(p) /\ Elf!file_range(h.size, p.offset, p.filesz)
       /\ c.previous_end <= Elf!PageOf(p.vaddr)
       /\ d.pages = c.pages + ElfCount(p) /\ d.previous_end = Elf!EndOf(p)
       /\ d.entry_found = (c.entry_found \/ Elf!EntryIn(h, p))

(* A round with room for limit pages, and with any other room.             *)
LEMMA ElfChecked ==
  ASSUME Elf!ElfAssumption, Elf!FileAssumption, NEW h, NEW c \in ElfRecord, c.ok, NEW p \in Phdrs,
         NEW limit \in Nat, c.pages <= limit, Elf!Checked(h, c, p, limit).ok
  PROVE  /\ Elf!Checked(h, c, p, limit) \in ElfRecord
         /\ ElfRound(h, c, p, Elf!Checked(h, c, p, limit))
         /\ c.pages <= Elf!Checked(h, c, p, limit).pages
         /\ Elf!Checked(h, c, p, limit).pages <= limit
         /\ c.previous_end <= Elf!Checked(h, c, p, limit).previous_end
         /\ \A room \in Nat : Elf!Checked(h, c, p, limit).pages <= room
                               => Elf!Checked(h, c, p, room) = Elf!Checked(h, c, p, limit)
<1> DEFINE no == [c EXCEPT !.ok = FALSE]
           yes == [ok |-> TRUE, pages |-> c.pages + ElfCount(p), previous_end |-> Elf!EndOf(p),
                   entry_found |-> c.entry_found \/ Elf!EntryIn(h, p)]
           early == ~ Elf!TypeSupported(p) \/ ~ Elf!file_range(h.size, p.offset, p.filesz)
           bad == ~ Elf!LoadOk(p) \/ ~ Elf!Apart(c, p)
<1>1. /\ c.pages \in Nat /\ c.previous_end \in ElfAligned /\ c.previous_end \in Nat
      /\ c.entry_found \in BOOLEAN /\ ~ no.ok
  BY ElfAlignedIs DEF ElfRecord
<1>2. /\ yes.pages = c.pages + ElfCount(p) /\ yes.previous_end = Elf!EndOf(p)
      /\ yes.entry_found = (c.entry_found \/ Elf!EntryIn(h, p)) /\ yes.ok
      /\ yes = [ok |-> TRUE, pages |-> c.pages + ElfCount(p), previous_end |-> Elf!EndOf(p),
                entry_found |-> c.entry_found \/ Elf!EntryIn(h, p)]
  OBVIOUS
<1>3. ASSUME NEW m
      PROVE  Elf!Checked(h, c, p, m) = IF p.type = "null" THEN c
               ELSE IF early THEN no
               ELSE IF p.type # "load" THEN c
               ELSE IF ~ Elf!FlagsOk(p) THEN no
               ELSE IF p.memsz = 0 THEN c
               ELSE IF bad \/ ElfCount(p) > m - c.pages THEN no
               ELSE yes
  BY DEF Elf!Checked, ElfCount
<1> HIDE DEF no, yes, early, bad
<1>4. CASE ~ Elf!Loads(p)
  <2>1. p.type # "load" \/ p.memsz = 0
    BY <1>4 DEF Elf!Loads
  <2>2. Elf!Checked(h, c, p, limit) = c
    BY <1>1, <1>3, <2>1
  <2>3. \A room \in Nat : Elf!Checked(h, c, p, room) = c
    BY <1>1, <1>3, <2>1, <2>2
  <2>4. ElfRound(h, c, p, c)
    BY <1>4 DEF ElfRound
  <2>5. QED
    BY <1>1, <2>2, <2>3, <2>4
<1>5. CASE Elf!Loads(p)
  <2>1. p.type = "load" /\ p.memsz # 0
    BY <1>5 DEF Elf!Loads
  <2>2. p.type # "null"
    BY <2>1
  <2>3. /\ ~ early /\ Elf!FlagsOk(p) /\ ~ bad /\ ~ (ElfCount(p) > limit - c.pages)
        /\ Elf!Checked(h, c, p, limit) = yes
    BY <1>1, <1>3, <2>1, <2>2
  <2>4. Elf!LoadOk(p) /\ Elf!Apart(c, p) /\ Elf!file_range(h.size, p.offset, p.filesz)
    BY <2>3 DEF early, bad
  <2>5. /\ Elf!EndOf(p) \in ElfAligned /\ Elf!EndOf(p) \in Nat /\ Elf!PageOf(p.vaddr) \in Nat
        /\ Elf!PageOf(p.vaddr) < Elf!EndOf(p) /\ ElfCount(p) \in Nat
    BY <2>1, <2>4, ElfSegmentIs DEF ElfCount
  <2>6. c.previous_end <= Elf!PageOf(p.vaddr)
    BY <1>1, <2>4, <2>5 DEF Elf!Apart
  <2>7. ElfRound(h, c, p, yes)
    BY <1>2, <1>5, <2>3, <2>4, <2>6 DEF ElfRound
  <2>8. PICK a \in Nat : a = c.pages
    BY <1>1
  <2>9. PICK n \in Nat : n = ElfCount(p)
    BY <2>5
  <2>10. yes.pages = a + n /\ a + n <= limit
    BY <1>2, <2>3, <2>8, <2>9
  <2>11. yes \in ElfRecord
    <3>1. (c.entry_found \/ Elf!EntryIn(h, p)) \in BOOLEAN /\ a + n \in Nat
      BY DEF ElfRecord
    <3>2. yes = [ok |-> TRUE, pages |-> a + n, previous_end |-> Elf!EndOf(p),
                 entry_found |-> c.entry_found \/ Elf!EntryIn(h, p)]
      BY <1>2, <2>8, <2>9
    <3>3. QED
      BY <2>5, <3>1, <3>2 DEF ElfRecord
  <2>12. ASSUME NEW room \in Nat, a + n <= room PROVE Elf!Checked(h, c, p, room) = yes
    <3>1. ~ (ElfCount(p) > room - c.pages)
      BY <2>8, <2>9, <2>12
    <3>2. QED
      BY <1>3, <2>1, <2>2, <2>3, <3>1
  <2>13. c.previous_end <= yes.previous_end
    BY <1>1, <1>2, <2>5, <2>6
  <2>14. c.pages <= yes.pages
    BY <2>8, <2>10
  <2>15. QED
    BY <2>3, <2>7, <2>10, <2>11, <2>12, <2>13, <2>14
<1>6. QED
  BY <1>4, <1>5

(* The rounds over the program headers ps: g has what each one left.       *)
ElfRounds(h, ps, g) ==
  /\ g \in [0 .. Len(ps) -> ElfRecord]
  /\ g[0] = Elf!Unchecked
  /\ \A k \in 0 .. Len(ps) : g[k].ok /\ g[k].pages <= ElfLimit
  /\ \A k \in 1 .. Len(ps) :
       /\ g[k] = Elf!Checked(h, g[k - 1], ps[k], ElfLimit)
       /\ ElfRound(h, g[k - 1], ps[k], g[k])
       /\ \A room \in Nat : g[k].pages <= room => Elf!Checked(h, g[k - 1], ps[k], room) = g[k]
  /\ \A j, k \in 0 .. Len(ps) :
       j <= k => g[j].pages <= g[k].pages /\ g[j].previous_end <= g[k].previous_end
  /\ g[Len(ps)].entry_found =>
       \E k \in 1 .. Len(ps) : Elf!Loads(ps[k]) /\ Elf!EntryIn(h, ps[k])

(* The limit.                                                              *)
LEMMA ElfLimitIs ==
  ASSUME Elf!ElfAssumption
  PROVE  ElfLimit \in Nat /\ ElfPages \in Nat /\ StackPages \in Nat /\ ElfPages = ElfLimit + StackPages
<1>1. ElfPages \in InlinePages .. ElfPages /\ InlinePages \in Nat /\ StackPages \in Nat /\ StackPages < ElfPages
  BY DEF Elf!ElfAssumption, Elf!Capacities
<1>2. QED
  BY <1>1 DEF ElfLimit

(* Before the first round.                                                 *)
LEMMA ElfNoRounds ==
  ASSUME Elf!ElfAssumption, NEW h
  PROVE  \E g : ElfRounds(h, <<>>, g) /\ g[0] = Elf!Unchecked
<1> DEFINE g == [k \in 0 .. 0 |-> Elf!Unchecked]
<1>1. /\ Elf!Unchecked \in ElfRecord /\ Elf!Unchecked.ok /\ Elf!Unchecked.pages = 0
      /\ ~ Elf!Unchecked.entry_found /\ Elf!Unchecked.previous_end = 0
  <2>1. ElfPage \in Nat \ {0}
    BY DEF Elf!ElfAssumption
  <2>2. 0 = ElfPage * 0
    BY <2>1
  <2>3. 0 \in ElfAligned
    BY <2>2 DEF ElfAligned
  <2>4. QED
    BY <2>3 DEF Elf!Unchecked, ElfRecord
<1>2. g \in [0 .. 0 -> ElfRecord] /\ g[0] = Elf!Unchecked /\ Len(<<>>) = 0
  BY <1>1
<1>3. \A k \in 0 .. 0 : k = 0
  OBVIOUS
<1>4. 1 .. 0 = {}
  OBVIOUS
<1> HIDE DEF g
<1>5. ElfRounds(h, <<>>, g)
  BY <1>1, <1>2, <1>3, <1>4, ElfLimitIs DEF ElfRounds
<1>6. QED
  BY <1>2, <1>5

-----------------------------------------------------------------------------
(* One more round.                                                         *)
LEMMA ElfNextRound ==
  ASSUME Elf!ElfAssumption, Elf!FileAssumption, NEW h, NEW ps \in Seq(Phdrs), NEW g,
         ElfRounds(h, ps, g), NEW p \in Phdrs, Elf!Checked(h, g[Len(ps)], p, ElfLimit).ok
  PROVE  \E d : /\ ElfRounds(h, Append(ps, p), d)
                /\ d[Len(Append(ps, p))] = Elf!Checked(h, g[Len(ps)], p, ElfLimit)
<1>1. PICK n \in Nat : n = Len(ps)
  OBVIOUS
<1> DEFINE qs == Append(ps, p)
           c == Elf!Checked(h, g[n], p, ElfLimit)
           d == [k \in 0 .. n + 1 |-> IF k = n + 1 THEN c ELSE g[k]]
<1>2. /\ g \in [0 .. n -> ElfRecord] /\ g[0] = Elf!Unchecked
      /\ \A k \in 0 .. n : g[k].ok /\ g[k].pages <= ElfLimit
      /\ \A k \in 1 .. n :
           /\ g[k] = Elf!Checked(h, g[k - 1], ps[k], ElfLimit)
           /\ ElfRound(h, g[k - 1], ps[k], g[k])
           /\ \A room \in Nat : g[k].pages <= room => Elf!Checked(h, g[k - 1], ps[k], room) = g[k]
      /\ \A j, k \in 0 .. n :
           j <= k => g[j].pages <= g[k].pages /\ g[j].previous_end <= g[k].previous_end
      /\ g[n].entry_found =>
           \E k \in 1 .. n : Elf!Loads(ps[k]) /\ Elf!EntryIn(h, ps[k])
  BY <1>1 DEF ElfRounds
<1>3. /\ Len(qs) = n + 1 /\ qs[n + 1] = p /\ \A k \in 1 .. n : qs[k] = ps[k]
  BY <1>1
<1>4. /\ n \in 0 .. n /\ n + 1 \in 0 .. n + 1 /\ 0 # n + 1
      /\ \A k \in 1 .. n : k \in 0 .. n /\ k - 1 \in 0 .. n
      /\ \A k \in 1 .. n + 1 : k = n + 1 \/ k \in 1 .. n
      /\ \A k \in 0 .. n + 1 : k = n + 1 \/ k \in 0 .. n
      /\ (n + 1) - 1 = n /\ 0 \in 0 .. n
  OBVIOUS
<1>5. g[n] \in ElfRecord /\ g[n].ok /\ g[n].pages <= ElfLimit /\ ElfLimit \in Nat
  BY <1>2, <1>4, ElfLimitIs
<1>6. c.ok
  BY <1>1
<1>7. /\ c \in ElfRecord /\ ElfRound(h, g[n], p, c)
      /\ g[n].pages <= c.pages /\ c.pages <= ElfLimit
      /\ g[n].previous_end <= c.previous_end
      /\ \A room \in Nat : c.pages <= room => Elf!Checked(h, g[n], p, room) = c
  <2>1. PICK e : e = g[n]
    OBVIOUS
  <2>2. QED
    BY <1>5, <1>6, <2>1, ElfChecked
<1>8. /\ d \in [0 .. n + 1 -> ElfRecord] /\ d[n + 1] = c
      /\ \A k \in 0 .. n : d[k] = g[k]
  BY <1>2, <1>4, <1>7
<1> HIDE DEF c, d, qs
<1>9. \A k \in 0 .. n + 1 : d[k].ok /\ d[k].pages <= ElfLimit
  BY <1>2, <1>4, <1>6, <1>7, <1>8
<1>10. ASSUME NEW k \in 1 .. n + 1
       PROVE  /\ d[k] = Elf!Checked(h, d[k - 1], qs[k], ElfLimit)
              /\ ElfRound(h, d[k - 1], qs[k], d[k])
              /\ \A room \in Nat : d[k].pages <= room => Elf!Checked(h, d[k - 1], qs[k], room) = d[k]
  <2>1. CASE k = n + 1
    BY <1>3, <1>4, <1>7, <1>8, <2>1 DEF c
  <2>2. CASE k \in 1 .. n
    BY <1>2, <1>3, <1>4, <1>8, <2>2
  <2>3. QED
    BY <1>4, <2>1, <2>2
<1>11. ASSUME NEW j \in 0 .. n + 1, NEW k \in 0 .. n + 1, j <= k
       PROVE  d[j].pages <= d[k].pages /\ d[j].previous_end <= d[k].previous_end
  <2>1. CASE k \in 0 .. n
    BY <1>2, <1>8, <1>11, <2>1
  <2>2. CASE k = n + 1 /\ j = n + 1
    <3>1. c.pages \in Nat /\ c.previous_end \in ElfAligned /\ c.previous_end \in Nat
      BY <1>7, ElfAlignedIs DEF ElfRecord
    <3>2. QED
      BY <1>8, <2>2, <3>1
  <2>3. CASE k = n + 1 /\ j \in 0 .. n
    <3>1. j <= n
      BY <2>3
    <3>2. g[j].pages <= g[n].pages /\ g[j].previous_end <= g[n].previous_end /\ d[j] = g[j]
      BY <1>2, <1>4, <1>8, <2>3, <3>1
    <3>3. /\ c.pages \in Nat /\ c.previous_end \in Nat /\ g[n].pages \in Nat /\ g[n].previous_end \in Nat
          /\ g[j].pages \in Nat /\ g[j].previous_end \in Nat
      BY <1>2, <1>5, <1>7, <2>3, ElfAlignedIs DEF ElfRecord
    <3>4. QED
      BY <1>7, <1>8, <2>3, <3>2, <3>3
  <2>4. QED
    BY <1>4, <2>1, <2>2, <2>3
<1>12. ASSUME d[n + 1].entry_found
       PROVE  \E k \in 1 .. n + 1 : Elf!Loads(qs[k]) /\ Elf!EntryIn(h, qs[k])
  <2>1. CASE g[n].entry_found
    <3>1. PICK k \in 1 .. n : Elf!Loads(ps[k]) /\ Elf!EntryIn(h, ps[k])
      BY <1>2, <2>1
    <3>2. k \in 1 .. n + 1 /\ qs[k] = ps[k]
      BY <1>3
    <3>3. QED
      BY <3>1, <3>2
  <2>2. CASE ~ g[n].entry_found
    <3>1. Elf!Loads(p) /\ Elf!EntryIn(h, p)
      BY <1>7, <1>8, <1>12, <2>2 DEF ElfRound
    <3>2. QED
      BY <1>3, <3>1
  <2>3. QED
    BY <2>1, <2>2
<1>13. ElfRounds(h, qs, d)
  BY <1>2, <1>3, <1>4, <1>8, <1>9, <1>10, <1>11, <1>12 DEF ElfRounds
<1>14. QED
  BY <1>1, <1>3, <1>8, <1>13 DEF c, qs

(* The same rounds with any room that is enough for the pages found.       *)
LEMMA ElfAgain ==
  ASSUME Elf!ElfAssumption, NEW h, Elf!HeaderOk(h), NEW ps \in Seq(Phdrs), NEW g, ElfRounds(h, ps, g),
         g[Len(ps)].entry_found, NEW room \in Nat, g[Len(ps)].pages <= room
  PROVE  Elf!elf_validate(h, ps, room)
<1>1. PICK n \in Nat : n = Len(ps)
  OBVIOUS
<1> DEFINE G(f) == [i \in 0 .. Len(ps) |->
                      IF i = 0 THEN Elf!Unchecked
                      ELSE IF f[i - 1].ok THEN Elf!Checked(h, f[i - 1], ps[i], room) ELSE f[i - 1]]
           r == CHOOSE f : f = G(f)
<1>2. Elf!elf_validate(h, ps, room) <=> Elf!HeaderOk(h) /\ r[Len(ps)].ok /\ r[Len(ps)].entry_found
  BY DEF Elf!elf_validate
<1>3. /\ g \in [0 .. n -> ElfRecord] /\ g[0] = Elf!Unchecked
      /\ \A k \in 0 .. n : g[k].ok
      /\ \A k \in 1 .. n : \A m \in Nat : g[k].pages <= m => Elf!Checked(h, g[k - 1], ps[k], m) = g[k]
      /\ \A k \in 0 .. n : g[k].pages <= g[n].pages
  BY <1>1 DEF ElfRounds
<1>4. ASSUME NEW k \in 1 .. n
      PROVE  g[k - 1].ok /\ Elf!Checked(h, g[k - 1], ps[k], room) = g[k]
  <2>1. k \in 0 .. n /\ k - 1 \in 0 .. n /\ n \in 0 .. n
    OBVIOUS
  <2>2. g[k].pages \in Nat /\ g[n].pages \in Nat /\ g[k].pages <= g[n].pages /\ g[n].pages <= room
    BY <1>1, <1>3, <2>1 DEF ElfRecord
  <2>3. g[k].pages <= room
    BY <2>2
  <2>4. QED
    BY <1>3, <2>1, <2>3
<1>5. g = G(g)
  <2>1. \A i \in 0 .. n : G(g)[i] = g[i]
    BY <1>1, <1>3, <1>4
  <2>2. g = [i \in 0 .. n |-> g[i]]
    BY <1>3
  <2>3. QED
    BY <1>1, <2>1, <2>2
<1>6. r = G(r)
  BY <1>5
<1>7. /\ r[0] = Elf!Unchecked
      /\ \A k \in 1 .. n : r[k] = IF r[k - 1].ok THEN Elf!Checked(h, r[k - 1], ps[k], room) ELSE r[k - 1]
  <2>1. \A k \in 0 .. n : r[k] = G(r)[k]
    BY <1>6
  <2> HIDE DEF r
  <2>2. QED
    BY <1>1, <2>1
<1> HIDE DEF r
<1> DEFINE S == {k \in 0 .. n : r[k] = g[k]}
<1>8. 0 \in S
  BY <1>3, <1>7
<1>9. ASSUME NEW k \in 1 .. n, k - 1 \in S PROVE k \in S
  BY <1>4, <1>7, <1>9
<1>10. n \in S
  <2> HIDE DEF S
  <2>1. \A k \in 0 .. n : k \in S
    BY <1>8, <1>9, UpTo
  <2>2. QED
    BY <2>1
<1>11. QED
  BY <1>1, <1>2, <1>3, <1>10

-----------------------------------------------------------------------------
(* The least of some numbers.                                              *)
LEMMA ElfMinIs ==
  ASSUME NEW S \in SUBSET Nat, S # {}
  PROVE  Elf!Min(S) \in S /\ \A y \in S : Elf!Min(S) <= y
<1>1. \E x \in S : \A y \in S : x <= y
  BY LeastNat
<1>2. QED
  BY <1>1 DEF Elf!Min

(* The page list that is reserved is large enough, and no larger than a    *)
(* page list can be.                                                       *)
LEMMA ElfReserved ==
  ASSUME Elf!ElfAssumption, NEW count \in Nat, count <= ElfPages
  PROVE  Elf!ReservedPages(count) \in InlinePages .. ElfPages /\ count <= Elf!ReservedPages(count)
<1>1. InlinePages \in Nat /\ ElfPages \in Elf!Capacities /\ Elf!Capacities \subseteq InlinePages .. ElfPages
  BY DEF Elf!ElfAssumption, Elf!Capacities
<1>2. ElfPages \in Nat /\ InlinePages <= ElfPages
  BY <1>1, ElfLimitIs
<1>3. CASE count <= InlinePages
  BY <1>1, <1>2, <1>3 DEF Elf!ReservedPages
<1>4. CASE ~ (count <= InlinePages)
  <2> DEFINE S == {c \in Elf!Capacities : c >= count}
  <2>1. ElfPages \in S /\ S \in SUBSET Nat
    <3>1. ElfPages >= count
      BY <1>2
    <3>2. \A c \in S : c \in Nat
      BY <1>1, <1>2
    <3>3. QED
      BY <1>1, <3>1, <3>2
  <2>2. Elf!ReservedPages(count) = Elf!Min(S)
    BY <1>4 DEF Elf!ReservedPages
  <2>3. Elf!Min(S) \in S
    <3> HIDE DEF S
    <3>1. S # {}
      BY <2>1
    <3>2. QED
      BY <2>1, <3>1, ElfMinIs
  <2>4. QED
    BY <1>1, <1>2, <2>2, <2>3
<1>5. QED
  BY <1>3, <1>4

(* What elf_load puts into the page at v of segment p: the file's bytes    *)
(* where the segment has them, zero around them.                           *)
ElfImage(p, v) ==
  [b \in 0 .. ElfPage - 1 |->
     IF v + b \in p.vaddr .. p.vaddr + p.filesz - 1 THEN p.offset + (v + b - p.vaddr) ELSE Elf!Zero]

\* elf_load fills a page of a segment with exactly these bytes.
LEMMA ElfBytes ==
  ASSUME Elf!ElfAssumption, Elf!FileAssumption, NEW p \in Phdrs, NEW v \in ElfAligned
  PROVE  Elf!Bytes(p, v) = ElfImage(p, v)
<1>1. /\ v \in Nat /\ ElfPage \in Nat \ {0} /\ p.vaddr \in Nat /\ p.offset \in Nat /\ p.filesz \in Nat
  BY ElfAlignedIs, ElfPhdrIs DEF Elf!ElfAssumption
<1>2. PICK a \in Nat : a = p.vaddr
  BY <1>1
<1>3. PICK f \in Nat : f = p.filesz
  BY <1>1
<1>4. PICK o \in Nat : o = p.offset
  BY <1>1
<1> DEFINE start == IF v < a THEN a ELSE v
           stop == Elf!Min({v + ElfPage, a + f})
<1>5. stop \in {v + ElfPage, a + f} /\ stop <= v + ElfPage /\ stop <= a + f
  <2>1. {v + ElfPage, a + f} \in SUBSET Nat /\ {v + ElfPage, a + f} # {}
    BY <1>1
  <2>2. QED
    BY <2>1, ElfMinIs
<1>6. Elf!Bytes(p, v) = [b \in 0 .. ElfPage - 1 |->
         IF v + b \in start .. stop - 1 THEN o + (start - a) + (v + b - start) ELSE Elf!Zero]
  BY <1>2, <1>3, <1>4 DEF Elf!Bytes
<1> HIDE DEF stop
<1>7. ASSUME NEW b \in 0 .. ElfPage - 1
      PROVE  /\ v + b \in start .. stop - 1 <=> v + b \in a .. a + f - 1
             /\ o + (start - a) + (v + b - start) = o + (v + b - a)
  BY <1>1, <1>5
<1> HIDE DEF start
<1>8. [b \in 0 .. ElfPage - 1 |->
         IF v + b \in start .. stop - 1 THEN o + (start - a) + (v + b - start) ELSE Elf!Zero]
        = [b \in 0 .. ElfPage - 1 |-> IF v + b \in a .. a + f - 1 THEN o + (v + b - a) ELSE Elf!Zero]
  BY <1>7
<1>9. QED
  BY <1>2, <1>3, <1>4, <1>6, <1>8 DEF ElfImage

(* Such a page holds zeros and bytes of the file.                          *)
LEMMA ElfImageIs ==
  ASSUME Elf!ElfAssumption, Elf!FileAssumption, NEW p \in Phdrs, NEW v \in ElfAligned,
         NEW size \in Nat, Elf!file_range(size, p.offset, p.filesz)
  PROVE  /\ ElfImage(p, v) \in [0 .. ElfPage - 1 -> Int]
         /\ \A b \in 0 .. ElfPage - 1 : ElfImage(p, v)[b] = Elf!Zero \/ ElfImage(p, v)[b] < size
<1>1. /\ v \in Nat /\ ElfPage \in Nat \ {0} /\ p.vaddr \in Nat /\ p.offset \in Nat /\ p.filesz \in Nat
      /\ Elf!Zero \in Int
  BY ElfAlignedIs, ElfPhdrIs DEF Elf!ElfAssumption, Elf!Zero
<1>2. p.offset <= size /\ p.filesz <= size - p.offset
  BY DEF Elf!file_range
<1>3. ASSUME NEW b \in 0 .. ElfPage - 1
      PROVE  /\ ElfImage(p, v)[b] \in Int
             /\ ElfImage(p, v)[b] = Elf!Zero \/ ElfImage(p, v)[b] < size
  <2>1. ElfImage(p, v)[b] = IF v + b \in p.vaddr .. p.vaddr + p.filesz - 1
                            THEN p.offset + (v + b - p.vaddr) ELSE Elf!Zero
    BY DEF ElfImage
  <2>2. PICK a \in Nat : a = p.vaddr
    BY <1>1
  <2>3. PICK f \in Nat : f = p.filesz
    BY <1>1
  <2>4. PICK o \in Nat : o = p.offset
    BY <1>1
  <2>5. QED
    BY <1>1, <1>2, <2>1, <2>2, <2>3, <2>4
<1>4. DOMAIN ElfImage(p, v) = 0 .. ElfPage - 1 /\ ElfImage(p, v) = [b \in 0 .. ElfPage - 1 |-> ElfImage(p, v)[b]]
  BY DEF ElfImage
<1>5. QED
  BY <1>3, <1>4

-----------------------------------------------------------------------------
(***************************************************************************)
(* What holds at every step of the loading.                                *)
(***************************************************************************)
ElfBuilt == {"load", "stack", "published"}
ElfAt == [seg : Nat, va : Nat \cup {None}]
ElfZeros == [b \in 0 .. ElfPage - 1 |-> Elf!Zero]

(* Segment k has the page at v, up to where the loader has come.           *)
ElfHas(ps, a, k, v) ==
  /\ k \in 1 .. Len(ps) /\ Elf!Loads(ps[k])
  /\ Elf!PageOf(ps[k].vaddr) <= v /\ v < Elf!EndOf(ps[k])
  /\ k < a.seg \/ (k = a.seg /\ a.va # None /\ v < a.va)

(* So has the stack.                                                       *)
ElfStackHas(ph, a, v) == ph \in {"stack", "published"} /\ StackBase <= v /\ v < a.va

(* The file: its header has been accepted before anything is read of it.   *)
ElfFile(ph, fl, ps) ==
  /\ ph \in {"header", "validate", "refused", "load", "stack", "published", "failed"}
  /\ fl \in FileHeaders \cup {None} /\ ps \in Seq(Phdrs)
  /\ ph = "header" => ps = <<>>
  /\ (ps # <<>> \/ ph \notin {"header", "refused"})
       => fl \in FileHeaders /\ Elf!HeaderOk(fl) /\ Len(ps) <= fl.phnum

(* The page list is large enough for all that will be taken.               *)
ElfRoom(ph, ck, cap) ==
  /\ cap \in InlinePages .. ElfPages
  /\ ph \in ElfBuilt => ck.entry_found /\ ck.pages + StackPages <= cap

(* Where the loops are; the stack's area has no page of a segment.         *)
ElfPlace(ph, ps, a) ==
  /\ a \in ElfAt
  /\ ph \in {"header", "validate"} => a.seg = 1 /\ a.va = None
  /\ ph = "load" =>
       /\ a.seg \in 1 .. Len(ps) + 1
       /\ a.va # None =>
            /\ a.seg <= Len(ps) /\ Elf!Loads(ps[a.seg]) /\ a.va \in ElfAligned
            /\ Elf!PageOf(ps[a.seg].vaddr) <= a.va /\ a.va <= Elf!EndOf(ps[a.seg])
  /\ ph \in {"stack", "published"} =>
       /\ a.seg = Len(ps) + 1 /\ a.va \in ElfAligned /\ StackBase <= a.va /\ a.va <= ElfStackEnd
       /\ \A v \in Elf!StackArea : \A k : ~ ElfHas(ps, a, k, v)
  /\ ph = "published" => a.va = ElfStackEnd

(* As many frames as pages passed.                                         *)
ElfCounted(ph, ps, ck, a, pages, g) ==
  /\ ph = "load" =>
       \E n \in Nat : /\ Len(pages) = g[a.seg - 1].pages + n
                      /\ IF a.va = None THEN n = 0
                         ELSE a.va = Elf!PageOf(ps[a.seg].vaddr) + n * ElfPage
  /\ ph \in {"stack", "published"} =>
       \E n \in Nat : Len(pages) = ck.pages + n /\ a.va = StackBase + n * ElfPage

(* The frames and the tables that name them.                               *)
ElfFrame == [va : Elf!PageVas, bytes : [0 .. ElfPage - 1 -> Int]]
ElfPerms == SUBSET {"R", "W", "X"}
ElfEntries == [page : Nat, perm : ElfPerms]
ElfTables(ph, fl, pages, table, left) ==
  /\ pages \in Seq(ElfFrame)
  /\ table \in [Elf!PageVas -> {None} \cup ElfEntries]
  /\ left \in Nat /\ left + Len(pages) = ElfFrames
  /\ \A v \in Elf!PageVas : table[v] # None => table[v].page \in DOMAIN pages
  /\ \A i \in DOMAIN pages : \A b \in 0 .. ElfPage - 1 :
        pages[i].bytes[b] = Elf!Zero \/ pages[i].bytes[b] < fl.size
  /\ ph \notin ElfBuilt => pages = <<>> /\ \A v \in Elf!PageVas : table[v] = None

(* The page at v is mapped, with these permissions and bytes.              *)
ElfEntry(pages, table, v, perm, bytes) ==
  table[v] # None /\ table[v].perm = perm /\ pages[table[v].page].bytes = bytes

(* What is mapped is what has been passed.                                 *)
ElfMapped(ph, ps, a, pages, table) ==
  ph \in ElfBuilt =>
    \A v \in Elf!PageVas :
      /\ table[v] # None => (\E k : ElfHas(ps, a, k, v)) \/ ElfStackHas(ph, a, v)
      /\ \A k : ElfHas(ps, a, k, v) => ElfEntry(pages, table, v, ps[k].flags, ElfImage(ps[k], v))
      /\ ElfStackHas(ph, a, v) => ElfEntry(pages, table, v, {"R", "W"}, ElfZeros)

ElfInvariant ==
  /\ ElfFile(phase, file, phdrs) /\ ElfRoom(phase, check, capacity) /\ ElfPlace(phase, phdrs, at)
  /\ ElfTables(phase, file, user_pages, pml4, free)
  /\ ElfMapped(phase, phdrs, at, user_pages, pml4)
  /\ \E g : /\ ElfRounds(file, phdrs, g) /\ g[Len(phdrs)] = check
            /\ ElfCounted(phase, phdrs, check, at, user_pages, g)

(* The numbers of a header.                                                *)
LEMMA ElfHeaderIs ==
  ASSUME Elf!FileAssumption, NEW h \in FileHeaders
  PROVE  /\ h.size \in Nat /\ h.entry \in Nat /\ h.phoff \in Nat /\ h.phnum \in Nat
         /\ PhdrSize \in Nat
BY DEF Elf!FileAssumption, Elf!Values

(* A segment that the rounds have passed.                                  *)
LEMMA ElfPassed ==
  ASSUME Elf!ElfAssumption, Elf!FileAssumption, NEW h, NEW ps \in Seq(Phdrs), NEW g, ElfRounds(h, ps, g),
         NEW k \in 1 .. Len(ps), Elf!Loads(ps[k])
  PROVE  /\ ps[k] \in Phdrs /\ ps[k].memsz # 0
         /\ Elf!LoadOk(ps[k]) /\ Elf!FlagsOk(ps[k]) /\ Elf!file_range(h.size, ps[k].offset, ps[k].filesz)
         /\ Elf!PageOf(ps[k].vaddr) \in ElfAligned /\ Elf!EndOf(ps[k]) \in ElfAligned
         /\ Elf!PageOf(ps[k].vaddr) \in Nat /\ Elf!EndOf(ps[k]) \in Nat
         /\ Elf!PageOf(ps[k].vaddr) < Elf!EndOf(ps[k]) /\ Elf!EndOf(ps[k]) <= ElfUserEnd
         /\ \A x \in ElfAligned : x < ps[k].vaddr + ps[k].memsz <=> x < Elf!EndOf(ps[k])
         /\ g[k].pages = g[k - 1].pages + ElfCount(ps[k])
<1>1. ps[k] \in Phdrs /\ ps[k].memsz # 0 /\ ElfRound(h, g[k - 1], ps[k], g[k])
  BY DEF ElfRounds, Elf!Loads
<1>2. /\ Elf!LoadOk(ps[k]) /\ Elf!FlagsOk(ps[k]) /\ Elf!file_range(h.size, ps[k].offset, ps[k].filesz)
      /\ g[k].pages = g[k - 1].pages + ElfCount(ps[k])
  BY <1>1 DEF ElfRound
<1>3. PICK p \in Phdrs : p = ps[k]
  BY <1>1
<1>4. QED
  BY <1>1, <1>2, <1>3, ElfSegmentIs DEF ElfCount

(* It has as many pages as the round has counted.                          *)
LEMMA ElfCountIs ==
  ASSUME Elf!ElfAssumption, Elf!FileAssumption, NEW h, NEW ps \in Seq(Phdrs), NEW g, ElfRounds(h, ps, g),
         NEW k \in 1 .. Len(ps), Elf!Loads(ps[k])
  PROVE  \E n \in Nat : /\ Elf!EndOf(ps[k]) = Elf!PageOf(ps[k].vaddr) + n * ElfPage
                        /\ g[k].pages = g[k - 1].pages + n
<1>1. PICK p \in Phdrs : p = ps[k] /\ Elf!LoadOk(p) /\ p.memsz # 0 /\ g[k].pages = g[k - 1].pages + ElfCount(p)
  BY ElfPassed
<1>2. PICK n \in Nat : Elf!EndOf(p) = Elf!PageOf(p.vaddr) + n * ElfPage /\ ElfCount(p) = n
  BY <1>1, ElfSegmentIs DEF ElfCount
<1>3. QED
  BY <1>1, <1>2

(* Segments lie in the order of their headers, in pages of their own.      *)
LEMMA ElfOrdered ==
  ASSUME Elf!ElfAssumption, Elf!FileAssumption, NEW h, NEW ps \in Seq(Phdrs), NEW g, ElfRounds(h, ps, g),
         NEW j \in 1 .. Len(ps), NEW k \in 1 .. Len(ps), j < k, Elf!Loads(ps[j]), Elf!Loads(ps[k])
  PROVE  Elf!EndOf(ps[j]) <= Elf!PageOf(ps[k].vaddr)
<1>1. /\ j \in 0 .. Len(ps) /\ k - 1 \in 0 .. Len(ps) /\ j <= k - 1
  OBVIOUS
<1>2. /\ g[j] \in ElfRecord /\ g[k - 1] \in ElfRecord
      /\ g[j].previous_end <= g[k - 1].previous_end
      /\ ElfRound(h, g[j - 1], ps[j], g[j]) /\ ElfRound(h, g[k - 1], ps[k], g[k])
  BY <1>1 DEF ElfRounds
<1>3. /\ g[j].previous_end = Elf!EndOf(ps[j]) /\ g[k - 1].previous_end <= Elf!PageOf(ps[k].vaddr)
  BY <1>2 DEF ElfRound
<1>4. /\ g[j].previous_end \in Nat /\ g[k - 1].previous_end \in Nat /\ Elf!PageOf(ps[k].vaddr) \in Nat
  BY <1>2, ElfAlignedIs, ElfPassed DEF ElfRecord
<1>5. QED
  BY <1>2, <1>3, <1>4

(* No page belongs to two of them.                                         *)
LEMMA ElfOneOwner ==
  ASSUME Elf!ElfAssumption, Elf!FileAssumption, NEW h, NEW ps \in Seq(Phdrs), NEW g, ElfRounds(h, ps, g),
         NEW v \in ElfAligned, NEW j \in 1 .. Len(ps), NEW k \in 1 .. Len(ps),
         Elf!Loads(ps[j]), Elf!PageOf(ps[j].vaddr) <= v, v < Elf!EndOf(ps[j]),
         Elf!Loads(ps[k]), Elf!PageOf(ps[k].vaddr) <= v, v < Elf!EndOf(ps[k])
  PROVE  j = k
<1>1. v \in Nat
  BY ElfAlignedIs
<1>2. ASSUME NEW x \in 1 .. Len(ps), NEW y \in 1 .. Len(ps), x < y, Elf!Loads(ps[x]), Elf!Loads(ps[y]),
             v < Elf!EndOf(ps[x]), Elf!PageOf(ps[y].vaddr) <= v
      PROVE  FALSE
  <2>1. Elf!EndOf(ps[x]) \in Nat /\ Elf!PageOf(ps[y].vaddr) \in Nat
    BY <1>2, ElfPassed
  <2>2. Elf!EndOf(ps[x]) <= Elf!PageOf(ps[y].vaddr)
    BY <1>2, ElfOrdered
  <2>3. QED
    BY <1>1, <1>2, <2>1, <2>2
<1>3. ~ (j < k) /\ ~ (k < j)
  BY <1>2
<1>4. QED
  BY <1>3

-----------------------------------------------------------------------------
(* The page list with one more frame, and the table that names it.         *)
ElfWith(pages, va, bytes) == Append(pages, [va |-> va, bytes |-> bytes])
ElfNaming(pages, table, va, perm) ==
  [table EXCEPT ![va] = [page |-> Len(pages) + 1, perm |-> perm]]

(* One page is taken: the others keep what they map.                       *)
LEMMA ElfTaken ==
  ASSUME Elf!FileAssumption, NEW ph \in ElfBuilt, NEW fl, NEW pages, NEW table, NEW left,
         ElfTables(ph, fl, pages, table, left), left > 0,
         NEW va \in Elf!PageVas, NEW perm \in ElfPerms, NEW bytes \in [0 .. ElfPage - 1 -> Int],
         \A b \in 0 .. ElfPage - 1 : bytes[b] = Elf!Zero \/ bytes[b] < fl.size
  PROVE  /\ ElfTables(ph, fl, ElfWith(pages, va, bytes), ElfNaming(pages, table, va, perm), left - 1)
         /\ Len(ElfWith(pages, va, bytes)) = Len(pages) + 1
         /\ ElfEntry(ElfWith(pages, va, bytes), ElfNaming(pages, table, va, perm), va, perm, bytes)
         /\ \A w \in Elf!PageVas : w # va =>
              /\ ElfNaming(pages, table, va, perm)[w] = table[w]
              /\ \A pm, bs : ElfEntry(pages, table, w, pm, bs)
                   => ElfEntry(ElfWith(pages, va, bytes), ElfNaming(pages, table, va, perm), w, pm, bs)
<1> DEFINE qs == ElfWith(pages, va, bytes)
           tb == ElfNaming(pages, table, va, perm)
<1>1. PICK n \in Nat : n = Len(pages) /\ DOMAIN pages = 1 .. n
  BY DEF ElfTables
<1>2. PICK f : f = [va |-> va, bytes |-> bytes]
  OBVIOUS
<1>3. PICK e : e = [page |-> n + 1, perm |-> perm]
  OBVIOUS
<1>4. f \in ElfFrame /\ f.bytes = bytes
  BY <1>2 DEF ElfFrame
<1>5. e \in ElfEntries /\ e.page = n + 1 /\ e.perm = perm /\ e # None
  <2>1. e \in ElfEntries /\ e.page = n + 1 /\ e.perm = perm
    BY <1>1, <1>3 DEF ElfEntries
  <2>2. None \notin ElfEntries
    BY DEF Elf!FileAssumption, ElfEntries, ElfPerms
  <2>3. QED
    BY <2>1, <2>2
<1>6. /\ qs \in Seq(ElfFrame) /\ Len(qs) = n + 1 /\ DOMAIN qs = 1 .. n + 1 /\ qs[n + 1] = f
      /\ \A i \in 1 .. n : qs[i] = pages[i]
  <2>1. pages \in Seq(ElfFrame) /\ qs = Append(pages, f)
    BY <1>2 DEF ElfTables, ElfWith
  <2>2. QED
    BY <1>1, <1>4, <2>1
<1>7. /\ tb \in [Elf!PageVas -> {None} \cup ElfEntries] /\ tb[va] = e
      /\ \A w \in Elf!PageVas : w # va => tb[w] = table[w]
  <2>1. table \in [Elf!PageVas -> {None} \cup ElfEntries] /\ tb = [table EXCEPT ![va] = e]
    BY <1>1, <1>3 DEF ElfTables, ElfNaming
  <2>2. QED
    BY <1>5, <2>1
<1>8. /\ \A w \in Elf!PageVas : table[w] # None => table[w].page \in 1 .. n
      /\ \A i \in 1 .. n : \A b \in 0 .. ElfPage - 1 :
            pages[i].bytes[b] = Elf!Zero \/ pages[i].bytes[b] < fl.size
      /\ left \in Nat /\ left + n = ElfFrames
  BY <1>1 DEF ElfTables
<1> HIDE DEF qs, tb
<1>9. left - 1 \in Nat /\ (left - 1) + (n + 1) = ElfFrames
  BY <1>8
<1>10. \A i \in 1 .. n + 1 : i = n + 1 \/ i \in 1 .. n
  BY <1>1
<1>11. \A i \in DOMAIN qs : \A b \in 0 .. ElfPage - 1 :
          qs[i].bytes[b] = Elf!Zero \/ qs[i].bytes[b] < fl.size
  BY <1>4, <1>6, <1>8, <1>10
<1>12. \A w \in Elf!PageVas : tb[w] # None => tb[w].page \in DOMAIN qs
  <2>1. n + 1 \in 1 .. n + 1 /\ \A i \in 1 .. n : i \in 1 .. n + 1
    BY <1>1
  <2>2. QED
    BY <1>5, <1>6, <1>7, <1>8, <2>1
<1>13. ElfTables(ph, fl, qs, tb, left - 1)
  BY <1>6, <1>7, <1>9, <1>11, <1>12 DEF ElfTables
<1>14. ElfEntry(qs, tb, va, perm, bytes)
  BY <1>4, <1>5, <1>6, <1>7 DEF ElfEntry
<1>15. ASSUME NEW w \in Elf!PageVas, w # va, NEW pm, NEW bs, ElfEntry(pages, table, w, pm, bs)
       PROVE  ElfEntry(qs, tb, w, pm, bs)
  BY <1>6, <1>7, <1>8, <1>15 DEF ElfEntry
<1>16. QED
  BY <1>1, <1>6, <1>7, <1>13, <1>14, <1>15 DEF qs, tb

(* A task that fails gives everything back.                                *)
LEMMA ElfFailed ==
  ASSUME Elf!ElfAssumption, Elf!FileAssumption, ElfInvariant, phase # "header", phase # "refused",
         NEW pages, NEW left, Elf!Fail(pages, left), Len(pages) \in Nat, left \in Nat,
         left + Len(pages) = ElfFrames,
         UNCHANGED <<file, phdrs, check>>, capacity' \in InlinePages .. ElfPages, at' \in ElfAt
  PROVE  ElfInvariant'
<1>1. /\ phase' = "failed" /\ user_pages' = <<>> /\ free' = ElfFrames
      /\ pml4' = [v \in Elf!PageVas |-> None]
  BY DEF Elf!Fail
<1>2. ElfFile(phase', file', phdrs')
  BY <1>1 DEF ElfInvariant, ElfFile
<1>3. ElfRoom(phase', check', capacity') /\ ElfPlace(phase', phdrs', at')
  BY <1>1 DEF ElfRoom, ElfPlace, ElfBuilt
<1>4. ElfTables(phase', file', user_pages', pml4', free')
  <2>1. /\ user_pages' \in Seq(ElfFrame) /\ Len(user_pages') = 0 /\ DOMAIN user_pages' = {}
        /\ free' \in Nat /\ free' + 0 = ElfFrames
    BY <1>1 DEF Elf!FileAssumption
  <2>2. /\ pml4' \in [Elf!PageVas -> {None} \cup ElfEntries]
        /\ \A v \in Elf!PageVas : pml4'[v] = None
    BY <1>1
  <2>3. QED
    BY <1>1, <2>1, <2>2 DEF ElfTables, ElfBuilt
<1>5. ElfMapped(phase', phdrs', at', user_pages', pml4')
  BY <1>1 DEF ElfMapped, ElfBuilt
<1>6. \E g : /\ ElfRounds(file', phdrs', g) /\ g[Len(phdrs')] = check'
             /\ ElfCounted(phase', phdrs', check', at', user_pages', g)
  <2>1. PICK g : ElfRounds(file, phdrs, g) /\ g[Len(phdrs)] = check
    BY DEF ElfInvariant
  <2>2. ElfCounted(phase', phdrs', check', at', user_pages', g)
    BY <1>1 DEF ElfCounted
  <2>3. QED
    BY <2>1, <2>2
<1>7. QED
  BY <1>2, <1>3, <1>4, <1>5, <1>6 DEF ElfInvariant

-----------------------------------------------------------------------------
(***************************************************************************)
(* The steps.  Initially nothing is read and nothing taken.                *)
(***************************************************************************)
LEMMA ElfStarts ==
  ASSUME Elf!ElfAssumption, Elf!FileAssumption, Elf!Init
  PROVE  ElfInvariant
<1>1. /\ phase = "header" /\ file = None /\ phdrs = <<>> /\ check = Elf!Unchecked
      /\ capacity = InlinePages /\ at = [seg |-> 1, va |-> None]
      /\ user_pages = <<>> /\ pml4 = [v \in Elf!PageVas |-> None] /\ free = ElfFrames
  BY DEF Elf!Init
<1>2. ElfFile(phase, file, phdrs)
  BY <1>1 DEF ElfFile
<1>3. InlinePages \in InlinePages .. ElfPages
  BY ElfLimitIs DEF Elf!ElfAssumption, Elf!Capacities
<1>4. ElfRoom(phase, check, capacity) /\ ElfPlace(phase, phdrs, at)
  <2>1. at \in ElfAt /\ at.seg = 1 /\ at.va = None
    BY <1>1 DEF ElfAt
  <2>2. QED
    BY <1>1, <1>3, <2>1 DEF ElfRoom, ElfPlace, ElfBuilt
<1>5. ElfTables(phase, file, user_pages, pml4, free)
  <2>1. /\ user_pages \in Seq(ElfFrame) /\ Len(user_pages) = 0 /\ DOMAIN user_pages = {}
        /\ free \in Nat /\ free + 0 = ElfFrames
    BY <1>1 DEF Elf!FileAssumption
  <2>2. /\ pml4 \in [Elf!PageVas -> {None} \cup ElfEntries]
        /\ \A v \in Elf!PageVas : pml4[v] = None
    BY <1>1
  <2>3. QED
    BY <1>1, <2>1, <2>2 DEF ElfTables, ElfBuilt
<1>6. ElfMapped(phase, phdrs, at, user_pages, pml4)
  BY <1>1 DEF ElfMapped, ElfBuilt
<1>7. \E g : /\ ElfRounds(file, phdrs, g) /\ g[Len(phdrs)] = check
             /\ ElfCounted(phase, phdrs, check, at, user_pages, g)
  <2>1. PICK g : ElfRounds(file, <<>>, g) /\ g[0] = Elf!Unchecked
    BY ElfNoRounds
  <2>2. ElfCounted(phase, phdrs, check, at, user_pages, g)
    BY <1>1 DEF ElfCounted
  <2>3. QED
    BY <1>1, <2>1, <2>2
<1>8. QED
  BY <1>2, <1>4, <1>5, <1>6, <1>7 DEF ElfInvariant

(* A phase in which nothing has been built yet follows another: only the   *)
(* file matters.                                                           *)
LEMMA ElfNotBuilt ==
  ASSUME Elf!ElfAssumption, Elf!FileAssumption, ElfInvariant, phase \notin ElfBuilt, phase' \notin ElfBuilt,
         ElfFile(phase', file', phdrs'), ElfPlace(phase', phdrs', at'),
         UNCHANGED <<capacity, user_pages, pml4, free>>,
         \E g : ElfRounds(file', phdrs', g) /\ g[Len(phdrs')] = check'
  PROVE  ElfInvariant'
<1>1. /\ ElfRoom(phase, check, capacity) /\ ElfTables(phase, file, user_pages, pml4, free)
  BY DEF ElfInvariant
<1>2. ElfRoom(phase', check', capacity') /\ ElfMapped(phase', phdrs', at', user_pages', pml4')
  BY <1>1 DEF ElfRoom, ElfMapped
<1>3. user_pages = <<>> /\ DOMAIN user_pages = {}
  BY <1>1 DEF ElfTables
<1>4. ElfTables(phase', file', user_pages', pml4', free')
  BY <1>1, <1>3 DEF ElfTables
<1>5. PICK g : ElfRounds(file', phdrs', g) /\ g[Len(phdrs')] = check'
  OBVIOUS
<1>6. ElfCounted(phase', phdrs', check', at', user_pages', g)
  BY DEF ElfCounted, ElfBuilt
<1>7. QED
  BY <1>2, <1>4, <1>5, <1>6 DEF ElfInvariant

(* Refused, by any of the checks.                                          *)
LEMMA ElfRefused ==
  ASSUME Elf!ElfAssumption, Elf!FileAssumption, ElfInvariant, phase \in {"header", "validate"}, Elf!Refuse
  PROVE  ElfInvariant'
<1>1. phase' = "refused" /\ UNCHANGED <<file, phdrs, check, capacity, at, user_pages, pml4, free>>
  BY DEF Elf!Refuse
<1>2. phase \notin ElfBuilt /\ phase' \notin ElfBuilt
  BY <1>1 DEF ElfBuilt
<1>3. ElfFile(phase', file', phdrs') /\ ElfPlace(phase', phdrs', at')
  BY <1>1 DEF ElfInvariant, ElfFile, ElfPlace
<1>4. \E g : ElfRounds(file', phdrs', g) /\ g[Len(phdrs')] = check'
  BY <1>1 DEF ElfInvariant
<1>5. QED
  BY <1>1, <1>2, <1>3, <1>4, ElfNotBuilt

(* The header.                                                             *)
LEMMA ElfReadHeader ==
  ASSUME Elf!ElfAssumption, Elf!FileAssumption, ElfInvariant, NEW h \in FileHeaders, Elf!ReadHeader(h)
  PROVE  ElfInvariant'
<1>1. phase = "header" /\ phdrs = <<>>
  BY DEF Elf!ReadHeader, ElfInvariant, ElfFile
<1>2. CASE ~ Elf!HeaderOk(h)
  BY <1>1, <1>2, ElfRefused DEF Elf!ReadHeader
<1>3. CASE Elf!HeaderOk(h)
  <2>1. /\ file' = h /\ phase' = "validate"
        /\ UNCHANGED <<phdrs, check, capacity, at, user_pages, pml4, free>>
    BY <1>3 DEF Elf!ReadHeader
  <2>2. phase \notin ElfBuilt /\ phase' \notin ElfBuilt
    BY <1>1, <2>1 DEF ElfBuilt
  <2>3. ElfFile(phase', file', phdrs')
    <3>1. h.phnum \in Nat /\ Len(phdrs) = 0 /\ phdrs \in Seq(Phdrs)
      BY <1>1 DEF Elf!FileAssumption, Elf!Values
    <3>2. QED
      BY <1>1, <1>3, <2>1, <3>1 DEF ElfFile
  <2>4. ElfPlace(phase', phdrs', at')
    BY <1>1, <2>1 DEF ElfInvariant, ElfPlace
  <2>5. PICK g : ElfRounds(file, phdrs, g) /\ g[Len(phdrs)] = check
    BY DEF ElfInvariant
  <2>6. check = Elf!Unchecked /\ Len(phdrs) = 0
    BY <1>1, <2>5 DEF ElfRounds
  <2>7. PICK d : ElfRounds(h, <<>>, d) /\ d[0] = Elf!Unchecked
    BY ElfNoRounds
  <2>8. ElfRounds(file', phdrs', d) /\ d[Len(phdrs')] = check'
    BY <1>1, <2>1, <2>6, <2>7
  <2>9. QED
    BY <2>1, <2>2, <2>3, <2>4, <2>8, ElfNotBuilt
<1>4. QED
  BY <1>2, <1>3

(* One program header.                                                     *)
LEMMA ElfReadPhdr ==
  ASSUME Elf!ElfAssumption, Elf!FileAssumption, ElfInvariant, NEW p \in Phdrs, Elf!ReadPhdr(p)
  PROVE  ElfInvariant'
<1> DEFINE c == Elf!Checked(file, check, p, ElfPages - StackPages)
<1>1. phase = "validate" /\ Len(phdrs) < file.phnum
  BY DEF Elf!ReadPhdr
<1>2. CASE ~ c.ok
  BY <1>1, <1>2, ElfRefused DEF Elf!ReadPhdr
<1>3. CASE c.ok
  <2>1. /\ check' = c /\ phdrs' = Append(phdrs, p)
        /\ UNCHANGED <<phase, file, capacity, at, user_pages, pml4, free>>
    BY <1>3 DEF Elf!ReadPhdr
  <2>2. phase \notin ElfBuilt /\ phase' \notin ElfBuilt
    BY <1>1, <2>1 DEF ElfBuilt
  <2>3. ElfFile(phase, file, phdrs) /\ ElfPlace(phase, phdrs, at)
    BY DEF ElfInvariant
  <2>4. phdrs \in Seq(Phdrs) /\ file \in FileHeaders /\ Elf!HeaderOk(file)
    BY <1>1, <2>3 DEF ElfFile
  <2>5. phdrs' \in Seq(Phdrs) /\ Len(phdrs') = Len(phdrs) + 1 /\ file.phnum \in Nat
    BY <2>1, <2>4 DEF Elf!FileAssumption, Elf!Values
  <2>6. Len(phdrs') <= file.phnum
    BY <1>1, <2>4, <2>5
  <2>7. ElfFile(phase', file', phdrs')
    BY <1>1, <2>1, <2>4, <2>5, <2>6 DEF ElfFile
  <2>8. ElfPlace(phase', phdrs', at')
    BY <1>1, <2>1, <2>3 DEF ElfPlace
  <2>9. PICK g : ElfRounds(file, phdrs, g) /\ g[Len(phdrs)] = check
    BY DEF ElfInvariant
  <2>10. c = Elf!Checked(file, g[Len(phdrs)], p, ElfLimit)
    BY <2>9 DEF ElfLimit
  <2>11. \E d : ElfRounds(file', phdrs', d) /\ d[Len(phdrs')] = check'
    <3> HIDE DEF c
    <3>1. Elf!Checked(file, g[Len(phdrs)], p, ElfLimit).ok
      BY <1>3, <2>10
    <3>2. PICK d : /\ ElfRounds(file, Append(phdrs, p), d)
                   /\ d[Len(Append(phdrs, p))] = Elf!Checked(file, g[Len(phdrs)], p, ElfLimit)
      BY <2>4, <2>9, <3>1, ElfNextRound
    <3>3. QED
      BY <2>1, <2>10, <3>2
  <2>12. QED
    BY <2>1, <2>2, <2>7, <2>8, <2>11, ElfNotBuilt
<1>4. QED
  BY <1>2, <1>3

(* The task and its page list.                                             *)
LEMMA ElfConstruct ==
  ASSUME Elf!ElfAssumption, Elf!FileAssumption, ElfInvariant, Elf!Construct
  PROVE  ElfInvariant'
<1>1. /\ phase = "validate" /\ check.entry_found
      /\ capacity' = Elf!ReservedPages(check.pages + StackPages)
      /\ UNCHANGED <<file, phdrs, check, at>>
  BY DEF Elf!Construct
<1>2. /\ ElfFile(phase, file, phdrs) /\ ElfPlace(phase, phdrs, at)
      /\ ElfTables(phase, file, user_pages, pml4, free)
  BY DEF ElfInvariant
<1>3. PICK g : ElfRounds(file, phdrs, g) /\ g[Len(phdrs)] = check
  BY DEF ElfInvariant
<1>4. check.pages \in Nat /\ check.pages + StackPages \in Nat /\ check.pages + StackPages <= ElfPages
  <2>1. phdrs \in Seq(Phdrs)
    BY <1>2 DEF ElfFile
  <2>2. Len(phdrs) \in 0 .. Len(phdrs)
    BY <2>1
  <2>3. check \in ElfRecord /\ check.pages <= ElfLimit
    BY <1>3, <2>2 DEF ElfRounds
  <2>4. QED
    BY <2>3, ElfLimitIs DEF ElfRecord
<1>5. capacity' \in InlinePages .. ElfPages /\ check.pages + StackPages <= capacity'
  BY <1>1, <1>4, ElfReserved
<1>6. at \in ElfAt /\ at.seg = 1 /\ at.va = None
  BY <1>1, <1>2 DEF ElfPlace
<1>7. user_pages = <<>> /\ Len(user_pages) = 0 /\ (\A v \in Elf!PageVas : pml4[v] = None)
      /\ free \in Nat /\ free + Len(user_pages) = ElfFrames
  BY <1>1, <1>2 DEF ElfTables, ElfBuilt
<1>8. CASE Elf!Fail(user_pages, free)
  BY <1>1, <1>5, <1>6, <1>7, <1>8, ElfFailed
<1>9. CASE phase' = "failed" /\ UNCHANGED <<user_pages, pml4, free>>
  <2>1. ElfFile(phase', file', phdrs') /\ ElfPlace(phase', phdrs', at') /\ ElfRoom(phase', check', capacity')
    BY <1>1, <1>2, <1>5, <1>9 DEF ElfFile, ElfPlace, ElfRoom, ElfBuilt
  <2>2. ElfTables(phase', file', user_pages', pml4', free')
    BY <1>1, <1>2, <1>9 DEF ElfTables, ElfBuilt
  <2>3. /\ ElfMapped(phase', phdrs', at', user_pages', pml4')
        /\ ElfCounted(phase', phdrs', check', at', user_pages', g)
    BY <1>9 DEF ElfMapped, ElfCounted, ElfBuilt
  <2>4. QED
    BY <1>1, <1>3, <2>1, <2>2, <2>3 DEF ElfInvariant
<1>10. CASE phase' = "load" /\ UNCHANGED <<user_pages, pml4, free>>
  <2>1. ElfFile(phase', file', phdrs')
    BY <1>1, <1>2, <1>10 DEF ElfFile
  <2>2. ElfPlace(phase', phdrs', at')
    <3>1. 1 \in 1 .. Len(phdrs) + 1
      BY <1>2 DEF ElfFile
    <3>2. QED
      BY <1>1, <1>6, <1>10, <3>1 DEF ElfPlace
  <2>3. ElfRoom(phase', check', capacity')
    BY <1>1, <1>5 DEF ElfRoom
  <2>4. ElfTables(phase', file', user_pages', pml4', free')
    BY <1>1, <1>2, <1>7, <1>10 DEF ElfTables, ElfBuilt
  <2>5. ElfMapped(phase', phdrs', at', user_pages', pml4')
    <3>1. \A v, k : ~ ElfHas(phdrs, at, k, v)
      BY <1>6 DEF ElfHas
    <3>2. \A v : ~ ElfStackHas("load", at, v)
      BY DEF ElfStackHas
    <3>3. QED
      BY <1>1, <1>7, <1>10, <3>1, <3>2 DEF ElfMapped
  <2>6. ElfCounted(phase', phdrs', check', at', user_pages', g)
    <3>1. g[0].pages = 0
      BY <1>3 DEF ElfRounds, Elf!Unchecked
    <3>2. Len(user_pages) = g[at.seg - 1].pages + 0
      BY <1>6, <1>7, <3>1
    <3>3. QED
      BY <1>1, <1>6, <1>10, <3>2 DEF ElfCounted
  <2>7. QED
    BY <1>1, <1>3, <2>1, <2>2, <2>3, <2>4, <2>5, <2>6 DEF ElfInvariant
<1>11. QED
  BY <1>8, <1>9, <1>10 DEF Elf!Construct

-----------------------------------------------------------------------------
(* The page that elf_load is at: segment, address and frames until then.   *)
LEMMA ElfCurrent ==
  ASSUME Elf!ElfAssumption, Elf!FileAssumption, ElfInvariant, phase = "load", at.seg <= Len(phdrs),
         Elf!Loads(Elf!Segment),
         NEW g, ElfRounds(file, phdrs, g), ElfCounted(phase, phdrs, check, at, user_pages, g)
  PROVE  /\ at \in ElfAt /\ at.seg \in 1 .. Len(phdrs) /\ phdrs \in Seq(Phdrs)
         /\ Elf!Segment = phdrs[at.seg] /\ phdrs[at.seg] \in Phdrs
         /\ Elf!Page \in ElfAligned /\ Elf!Page \in Nat
         /\ Elf!PageOf(phdrs[at.seg].vaddr) <= Elf!Page /\ Elf!Page <= Elf!EndOf(phdrs[at.seg])
         /\ Elf!Page = IF at.va = None THEN Elf!PageOf(phdrs[at.seg].vaddr) ELSE at.va
         /\ Elf!Page < phdrs[at.seg].vaddr + phdrs[at.seg].memsz <=> Elf!Page < Elf!EndOf(phdrs[at.seg])
         /\ \E n \in Nat : /\ Len(user_pages) = g[at.seg - 1].pages + n
                           /\ Elf!Page = Elf!PageOf(phdrs[at.seg].vaddr) + n * ElfPage
<1>1. ElfPlace(phase, phdrs, at) /\ phdrs \in Seq(Phdrs)
  BY DEF ElfInvariant, ElfFile
<1>2. at \in ElfAt /\ at.seg \in 1 .. Len(phdrs)
  BY <1>1 DEF ElfPlace, ElfAt
<1>3. Elf!Segment = phdrs[at.seg] /\ Elf!Loads(phdrs[at.seg])
  BY DEF Elf!Segment
<1>4. PICK s \in 1 .. Len(phdrs) : s = at.seg
  BY <1>2
<1>5. /\ phdrs[s] \in Phdrs
      /\ Elf!PageOf(phdrs[s].vaddr) \in ElfAligned /\ Elf!PageOf(phdrs[s].vaddr) \in Nat
      /\ Elf!EndOf(phdrs[s]) \in Nat
      /\ Elf!PageOf(phdrs[s].vaddr) < Elf!EndOf(phdrs[s])
      /\ \A x \in ElfAligned : x < phdrs[s].vaddr + phdrs[s].memsz <=> x < Elf!EndOf(phdrs[s])
  BY <1>1, <1>3, <1>4, ElfPassed
<1>6. Elf!Page = IF at.va = None THEN Elf!PageOf(phdrs[s].vaddr) ELSE at.va
  BY <1>3, <1>4 DEF Elf!Page
<1>7. at.va # None => /\ at.va \in ElfAligned /\ Elf!PageOf(phdrs[s].vaddr) <= at.va
                      /\ at.va <= Elf!EndOf(phdrs[s])
  BY <1>1, <1>4 DEF ElfPlace
<1>8. /\ Elf!Page \in ElfAligned /\ Elf!Page \in Nat
      /\ Elf!PageOf(phdrs[s].vaddr) <= Elf!Page /\ Elf!Page <= Elf!EndOf(phdrs[s])
  BY <1>5, <1>6, <1>7, ElfAlignedIs
<1>9. PICK n \in Nat : /\ Len(user_pages) = g[at.seg - 1].pages + n
                       /\ IF at.va = None THEN n = 0
                          ELSE at.va = Elf!PageOf(phdrs[at.seg].vaddr) + n * ElfPage
  BY DEF ElfCounted
<1>10. Elf!Page = Elf!PageOf(phdrs[s].vaddr) + n * ElfPage
  <2>1. 0 * ElfPage = 0
    BY DEF Elf!ElfAssumption
  <2>2. QED
    BY <1>4, <1>5, <1>6, <1>9, <2>1
<1>11. QED
  BY <1>1, <1>2, <1>3, <1>4, <1>5, <1>6, <1>8, <1>9, <1>10

(* One page further.                                                       *)
LEMMA ElfHasNext ==
  ASSUME Elf!ElfAssumption, Elf!FileAssumption, NEW ps \in Seq(Phdrs), NEW a \in ElfAt, NEW b \in ElfAt,
         NEW first \in Nat, NEW end \in Nat, a.seg \in 1 .. Len(ps), Elf!Loads(ps[a.seg]),
         first = Elf!PageOf(ps[a.seg].vaddr), end = Elf!EndOf(ps[a.seg]),
         NEW page \in ElfAligned, page = (IF a.va = None THEN first ELSE a.va), first <= page, page < end,
         b.seg = a.seg, b.va = page + ElfPage, NEW k, NEW v \in ElfAligned
  PROVE  ElfHas(ps, b, k, v) <=> ElfHas(ps, a, k, v) \/ (k = a.seg /\ v = page)
<1>1. /\ v \in Nat /\ page \in Nat /\ ElfPage \in Nat \ {0}
      /\ page < v => page + ElfPage <= v
  BY ElfAlignedIs DEF Elf!ElfAssumption
<1>2. b.va # None
  BY <1>1 DEF Elf!FileAssumption
<1>3. CASE k # a.seg
  BY <1>3 DEF ElfHas
<1>4. CASE k = a.seg
  <2>1. ElfHas(ps, b, k, v) <=> first <= v /\ v < end /\ v < page + ElfPage
    BY <1>1, <1>2, <1>4 DEF ElfHas, ElfAt
  <2>2. ElfHas(ps, a, k, v) <=> first <= v /\ v < end /\ a.va # None /\ v < a.va
    BY <1>4 DEF ElfHas, ElfAt
  <2>3. v < page + ElfPage <=> v <= page
    BY <1>1
  <2>4. CASE a.va = None
    BY <1>1, <1>4, <2>1, <2>2, <2>3, <2>4
  <2>5. CASE a.va # None
    BY <1>1, <1>4, <2>1, <2>2, <2>3, <2>5
  <2>6. QED
    BY <2>4, <2>5
<1>5. QED
  BY <1>3, <1>4

(* A page that is to be loaded is not mapped: it has one owner.            *)
LEMMA ElfUnmapped ==
  ASSUME Elf!ElfAssumption, Elf!FileAssumption, ElfInvariant, phase = "load", at.seg <= Len(phdrs),
         Elf!Loads(Elf!Segment), Elf!Page < Elf!Segment.vaddr + Elf!Segment.memsz
  PROVE  Elf!Page \in Elf!PageVas /\ pml4[Elf!Page] = None
<1>1. PICK g : /\ ElfRounds(file, phdrs, g) /\ ElfCounted(phase, phdrs, check, at, user_pages, g)
  BY DEF ElfInvariant
<1>2. PICK s \in 1 .. Len(phdrs) : s = at.seg
  BY <1>1, ElfCurrent
<1>3. PICK v \in ElfAligned : v = Elf!Page
  BY <1>1, ElfCurrent
<1>4. /\ phdrs \in Seq(Phdrs) /\ Elf!Loads(phdrs[s]) /\ v \in Nat
      /\ Elf!PageOf(phdrs[s].vaddr) <= v /\ v < Elf!EndOf(phdrs[s])
      /\ at \in ElfAt /\ v = IF at.va = None THEN Elf!PageOf(phdrs[s].vaddr) ELSE at.va
  BY <1>1, <1>2, <1>3, ElfCurrent
<1>5. Elf!EndOf(phdrs[s]) \in Nat /\ Elf!EndOf(phdrs[s]) <= ElfUserEnd /\ ElfUserEnd \in Nat
  BY <1>1, <1>4, ElfPassed DEF Elf!ElfAssumption
<1>6. v \in Elf!PageVas
  BY <1>4, <1>5, ElfPagesAre
<1>7. ASSUME pml4[v] # None PROVE FALSE
  <2>1. ~ ElfStackHas(phase, at, v)
    BY DEF ElfStackHas
  <2>2. PICK k : ElfHas(phdrs, at, k, v)
    BY <1>6, <1>7, <2>1 DEF ElfInvariant, ElfMapped, ElfBuilt
  <2>3. k \in 1 .. Len(phdrs) /\ Elf!Loads(phdrs[k])
        /\ Elf!PageOf(phdrs[k].vaddr) <= v /\ v < Elf!EndOf(phdrs[k])
    BY <2>2 DEF ElfHas
  <2>4. k = s
    BY <1>1, <1>4, <2>3, ElfOneOwner
  <2>5. at.va # None /\ v < at.va
    BY <1>2, <2>2, <2>4 DEF ElfHas
  <2>6. QED
    BY <1>4, <2>5
<1>8. QED
  BY <1>3, <1>6, <1>7

(* One page of a segment.                                                  *)
LEMMA ElfLoadPage ==
  ASSUME Elf!ElfAssumption, Elf!FileAssumption, ElfInvariant, Elf!LoadPage
  PROVE  ElfInvariant'
<1>1. /\ phase = "load" /\ at.seg <= Len(phdrs) /\ Elf!Loads(Elf!Segment)
      /\ Elf!Page < Elf!Segment.vaddr + Elf!Segment.memsz
      /\ Elf!TakePage(Elf!Page, Elf!Bytes(Elf!Segment, Elf!Page), Elf!Segment.flags)
      /\ at' = [at EXCEPT !.va = Elf!Page + ElfPage]
      /\ UNCHANGED <<file, phdrs, check, capacity>>
  BY DEF Elf!LoadPage
<1>2. PICK g : /\ ElfRounds(file, phdrs, g) /\ g[Len(phdrs)] = check
               /\ ElfCounted(phase, phdrs, check, at, user_pages, g)
  BY DEF ElfInvariant
<1>3. PICK s \in 1 .. Len(phdrs) : s = at.seg
  BY <1>1, <1>2, ElfCurrent
<1>4. PICK v \in ElfAligned : v = Elf!Page
  BY <1>1, <1>2, ElfCurrent
<1>5. PICK p \in Phdrs : p = phdrs[s]
  BY <1>1, <1>2, <1>3, ElfCurrent
<1>6. PICK first \in Nat : first = Elf!PageOf(p.vaddr)
  BY <1>1, <1>2, <1>3, <1>5, ElfPassed, ElfCurrent
<1>7. PICK end \in Nat : end = Elf!EndOf(p)
  BY <1>1, <1>2, <1>3, <1>5, ElfPassed, ElfCurrent
<1>8. /\ phdrs \in Seq(Phdrs) /\ at \in ElfAt /\ Elf!Segment = p /\ Elf!Loads(p) /\ v \in Nat
      /\ first <= v /\ v < end /\ v = IF at.va = None THEN first ELSE at.va
  BY <1>1, <1>2, <1>3, <1>4, <1>5, <1>6, <1>7, ElfCurrent
<1>9. PICK n \in Nat : Len(user_pages) = g[s - 1].pages + n /\ v = first + n * ElfPage
  BY <1>1, <1>2, <1>3, <1>4, <1>5, <1>6, ElfCurrent
<1>10. v \in Elf!PageVas
  BY <1>1, <1>4, ElfUnmapped
<1>11. /\ ElfPage \in Nat \ {0} /\ v + ElfPage \in ElfAligned /\ v + ElfPage \in Nat /\ v + ElfPage <= end
       /\ v + ElfPage # None
  <2>1. end \in ElfAligned
    BY <1>2, <1>5, <1>7, <1>8, ElfPassed
  <2>2. ElfPage \in Nat \ {0} /\ None \notin Int
    BY DEF Elf!ElfAssumption, Elf!FileAssumption
  <2>3. v + ElfPage \in ElfAligned /\ v + ElfPage \in Nat /\ v + ElfPage <= end
    BY <1>8, <2>1, ElfAlignedIs
  <2>4. QED
    BY <2>2, <2>3
<1>12. at' \in ElfAt /\ at'.seg = s /\ at'.va = v + ElfPage
  BY <1>1, <1>3, <1>4, <1>8, <1>11 DEF ElfAt
<1>13. /\ ElfFile(phase, file, phdrs) /\ ElfRoom(phase, check, capacity)
       /\ ElfTables(phase, file, user_pages, pml4, free) /\ ElfMapped(phase, phdrs, at, user_pages, pml4)
  BY DEF ElfInvariant
<1>14. /\ user_pages \in Seq(ElfFrame) /\ free \in Nat /\ free + Len(user_pages) = ElfFrames
       /\ capacity \in InlinePages .. ElfPages
  BY <1>13 DEF ElfTables, ElfRoom
<1>15. PICK size \in Nat : size = file.size
  <2>1. file \in FileHeaders
    BY <1>1, <1>13 DEF ElfFile
  <2>2. QED
    BY <2>1, ElfHeaderIs
<1>16. /\ ElfImage(p, v) \in [0 .. ElfPage - 1 -> Int] /\ Elf!Bytes(p, v) = ElfImage(p, v)
       /\ \A b \in 0 .. ElfPage - 1 : ElfImage(p, v)[b] = Elf!Zero \/ ElfImage(p, v)[b] < file.size
  <2>1. Elf!file_range(size, p.offset, p.filesz)
    BY <1>2, <1>5, <1>8, <1>15, ElfPassed
  <2>2. QED
    BY <1>15, <2>1, ElfBytes, ElfImageIs
<1>17. p.flags \in ElfPerms
  <2>1. Elf!FlagsOk(p)
    BY <1>2, <1>5, <1>8, ElfPassed
  <2>2. QED
    BY <2>1 DEF Elf!FlagsOk, ElfPerms
<1>18. PICK bytes \in [0 .. ElfPage - 1 -> Int] : bytes = ElfImage(p, v)
  BY <1>16
<1>19. Elf!TakePage(v, bytes, p.flags)
  BY <1>1, <1>4, <1>8, <1>16, <1>18
<1>20. CASE Elf!Fail(user_pages, free)
  BY <1>1, <1>12, <1>14, <1>20, ElfFailed
<1>21. CASE /\ free > 0
            /\ Elf!Fail(Append(user_pages, [va |-> v, bytes |-> bytes]), free - 1)
  <2>1. PICK f : f = [va |-> v, bytes |-> bytes]
    OBVIOUS
  <2>2. f \in ElfFrame
    BY <1>10, <2>1 DEF ElfFrame
  <2>3. PICK qs : qs = Append(user_pages, f)
    OBVIOUS
  <2>4. Len(qs) = Len(user_pages) + 1 /\ Len(user_pages) \in Nat
    BY <1>14, <2>2, <2>3
  <2>5. Len(qs) \in Nat /\ free - 1 \in Nat /\ (free - 1) + Len(qs) = ElfFrames
    BY <1>14, <1>21, <2>4
  <2>6. Elf!Fail(qs, free - 1)
    BY <1>21, <2>1, <2>3
  <2>7. QED
    BY <1>1, <1>12, <1>14, <2>5, <2>6, ElfFailed
<1>22. CASE /\ free > 0 /\ pml4[v] = None
            /\ user_pages' = ElfWith(user_pages, v, bytes)
            /\ pml4' = ElfNaming(user_pages, pml4, v, p.flags)
            /\ free' = free - 1
            /\ UNCHANGED phase
  <2>1. /\ ElfTables("load", file, user_pages', pml4', free') /\ Len(user_pages') = Len(user_pages) + 1
        /\ ElfEntry(user_pages', pml4', v, p.flags, bytes)
        /\ \A w \in Elf!PageVas : w # v =>
              /\ pml4'[w] = pml4[w]
              /\ \A pm, bs : ElfEntry(user_pages, pml4, w, pm, bs) => ElfEntry(user_pages', pml4', w, pm, bs)
    <3>1. /\ "load" \in ElfBuilt /\ ElfTables("load", file, user_pages, pml4, free)
          /\ \A b \in 0 .. ElfPage - 1 : bytes[b] = Elf!Zero \/ bytes[b] < file.size
      BY <1>1, <1>13, <1>16, <1>18 DEF ElfBuilt
    <3>2. free > 0
      BY <1>22
    <3>3. /\ ElfTables("load", file, ElfWith(user_pages, v, bytes),
                       ElfNaming(user_pages, pml4, v, p.flags), free - 1)
          /\ Len(ElfWith(user_pages, v, bytes)) = Len(user_pages) + 1
          /\ ElfEntry(ElfWith(user_pages, v, bytes), ElfNaming(user_pages, pml4, v, p.flags), v, p.flags, bytes)
          /\ \A w \in Elf!PageVas : w # v =>
                /\ ElfNaming(user_pages, pml4, v, p.flags)[w] = pml4[w]
                /\ \A pm, bs : ElfEntry(user_pages, pml4, w, pm, bs)
                     => ElfEntry(ElfWith(user_pages, v, bytes), ElfNaming(user_pages, pml4, v, p.flags), w, pm, bs)
      BY <1>10, <1>17, <3>1, <3>2, ElfTaken
    <3>4. QED
      BY <1>22, <3>3
  <2>2. \A k : \A w \in ElfAligned :
           ElfHas(phdrs, at', k, w) <=> ElfHas(phdrs, at, k, w) \/ (k = s /\ w = v)
    BY <1>3, <1>5, <1>6, <1>7, <1>8, <1>12, ElfHasNext
  <2>3. ElfMapped("load", phdrs, at', user_pages', pml4')
    <3>1. \A w : ~ ElfStackHas("load", at', w)
      BY DEF ElfStackHas
    <3>2. ASSUME NEW w \in Elf!PageVas, pml4'[w] # None
          PROVE  \E k : ElfHas(phdrs, at', k, w)
      <4>1. w \in ElfAligned
        BY ElfPagesAre
      <4>2. CASE w = v
        BY <2>2, <4>1, <4>2
      <4>3. CASE w # v
        <5>1. pml4[w] # None /\ ~ ElfStackHas(phase, at, w)
          BY <1>1, <2>1, <3>2, <4>3 DEF ElfStackHas
        <5>2. PICK k : ElfHas(phdrs, at, k, w)
          BY <1>1, <1>13, <5>1 DEF ElfMapped, ElfBuilt
        <5>3. QED
          BY <2>2, <4>1, <5>2
      <4>4. QED
        BY <4>2, <4>3
    <3>3. ASSUME NEW w \in Elf!PageVas, NEW k, ElfHas(phdrs, at', k, w)
          PROVE  ElfEntry(user_pages', pml4', w, phdrs[k].flags, ElfImage(phdrs[k], w))
      <4>1. w \in ElfAligned
        BY ElfPagesAre
      <4>2. CASE w = v
        <5>1. k = s
          <6>1. /\ k \in 1 .. Len(phdrs) /\ Elf!Loads(phdrs[k])
                /\ Elf!PageOf(phdrs[k].vaddr) <= v /\ v < Elf!EndOf(phdrs[k])
            BY <3>3, <4>2 DEF ElfHas
          <6>2. /\ Elf!Loads(phdrs[s]) /\ Elf!PageOf(phdrs[s].vaddr) <= v /\ v < Elf!EndOf(phdrs[s])
            BY <1>5, <1>6, <1>7, <1>8
          <6>3. QED
            BY <1>2, <1>8, <6>1, <6>2, ElfOneOwner
        <5>2. QED
          BY <1>5, <1>18, <2>1, <4>2, <5>1
      <4>3. CASE w # v
        <5>1. ElfHas(phdrs, at, k, w)
          BY <2>2, <3>3, <4>1, <4>3
        <5>2. ElfEntry(user_pages, pml4, w, phdrs[k].flags, ElfImage(phdrs[k], w))
          BY <1>1, <1>13, <5>1 DEF ElfMapped, ElfBuilt
        <5>3. QED
          BY <2>1, <4>3, <5>2
      <4>4. QED
        BY <4>2, <4>3
    <3>4. QED
      BY <3>1, <3>2, <3>3 DEF ElfMapped
  <2>4. ElfPlace("load", phdrs, at')
    <3>1. /\ at'.seg \in 1 .. Len(phdrs) + 1 /\ at'.seg <= Len(phdrs)
      BY <1>8, <1>12
    <3>2. /\ Elf!Loads(phdrs[at'.seg]) /\ at'.va \in ElfAligned
          /\ Elf!PageOf(phdrs[at'.seg].vaddr) <= at'.va /\ at'.va <= Elf!EndOf(phdrs[at'.seg])
      BY <1>5, <1>6, <1>7, <1>8, <1>11, <1>12
    <3>3. QED
      BY <1>12, <3>1, <3>2 DEF ElfPlace
  <2>5. ElfCounted("load", phdrs, check, at', user_pages', g)
    <3>1. Len(user_pages') = g[at'.seg - 1].pages + (n + 1)
      <4>1. s - 1 \in 0 .. Len(phdrs)
        BY <1>8
      <4>2. g[s - 1].pages \in Nat
        BY <1>2, <4>1 DEF ElfRounds, ElfRecord
      <4>3. PICK m \in Nat : m = g[s - 1].pages
        BY <4>2
      <4>4. Len(user_pages) = m + n /\ Len(user_pages') = (m + n) + 1
        BY <1>9, <2>1, <4>3
      <4>5. Len(user_pages') = m + (n + 1)
        BY <4>4
      <4>6. QED
        BY <1>12, <4>3, <4>5
    <3>2. at'.va = Elf!PageOf(phdrs[at'.seg].vaddr) + (n + 1) * ElfPage
      <4>1. (n + 1) * ElfPage = n * ElfPage + ElfPage /\ n * ElfPage \in Nat
        BY <1>11
      <4>2. at'.va = first + (n + 1) * ElfPage
        BY <1>9, <1>11, <1>12, <4>1
      <4>3. QED
        BY <1>5, <1>6, <1>12, <4>2
    <3>3. at'.va # None /\ n + 1 \in Nat
      BY <1>11, <1>12
    <3>4. QED
      BY <3>1, <3>2, <3>3 DEF ElfCounted
  <2>6. phase' = "load"
    BY <1>1, <1>22
  <2>7. QED
    BY <1>1, <1>2, <1>13, <2>1, <2>3, <2>4, <2>5, <2>6 DEF ElfInvariant
<1>23. QED
  BY <1>19, <1>20, <1>21, <1>22 DEF Elf!TakePage, ElfWith, ElfNaming

-----------------------------------------------------------------------------
(* Multiples of a page are as many pages.                                  *)
LEMMA ElfTimes ==
  ASSUME Elf!ElfAssumption, NEW m \in Nat, NEW n \in Nat, m * ElfPage <= n * ElfPage
  PROVE  m <= n
<1>1. ElfPage \in Nat \ {0} /\ m * ElfPage = ElfPage * m /\ n * ElfPage = ElfPage * n
  BY DEF Elf!ElfAssumption
<1>2. ElfPage * m <= ElfPage * n
  BY <1>1
<1>3. QED
  BY <1>1, <1>2, TimesLess

(* The loader's walk agrees with the validator's count.                    *)
LEMMA ElfWalked ==
  ASSUME Elf!ElfAssumption, Elf!FileAssumption, ElfInvariant, phase = "load",
         NEW g, ElfRounds(file, phdrs, g), ElfCounted(phase, phdrs, check, at, user_pages, g)
  PROVE  /\ at.seg \in 1 .. Len(phdrs) => Len(user_pages) <= g[at.seg].pages
         /\ (at.seg \in 1 .. Len(phdrs) /\ (Elf!Loads(Elf!Segment)
                => Elf!Page >= Elf!Segment.vaddr + Elf!Segment.memsz))
              => Len(user_pages) = g[at.seg].pages
<1>1. SUFFICES ASSUME at.seg \in 1 .. Len(phdrs)
               PROVE  /\ Len(user_pages) <= g[at.seg].pages
                      /\ (Elf!Loads(Elf!Segment) => Elf!Page >= Elf!Segment.vaddr + Elf!Segment.memsz)
                           => Len(user_pages) = g[at.seg].pages
  OBVIOUS
<1>2. PICK s \in 1 .. Len(phdrs) : s = at.seg
  BY <1>1
<1>3. phdrs \in Seq(Phdrs) /\ ElfPlace(phase, phdrs, at)
  BY DEF ElfInvariant, ElfFile
<1>4. s - 1 \in 0 .. Len(phdrs) /\ s \in 0 .. Len(phdrs)
  BY <1>3
<1>5. PICK m \in Nat : m = g[s - 1].pages
  BY <1>4 DEF ElfRounds, ElfRecord
<1>6. CASE ~ Elf!Loads(phdrs[s])
  <2>1. at.va = None
    BY <1>2, <1>3, <1>6 DEF ElfPlace
  <2>2. Len(user_pages) = m
    BY <1>2, <1>5, <2>1 DEF ElfCounted
  <2>3. ElfRound(file, g[s - 1], phdrs[s], g[s])
    BY DEF ElfRounds
  <2>4. g[s] = g[s - 1]
    BY <1>6, <2>3 DEF ElfRound
  <2>5. QED
    BY <1>2, <1>5, <2>2, <2>4
<1>7. CASE Elf!Loads(phdrs[s])
  <2>1. at.seg <= Len(phdrs) /\ Elf!Segment = phdrs[s] /\ Elf!Loads(Elf!Segment)
    BY <1>2, <1>3, <1>7 DEF Elf!Segment
  <2>2. PICK n \in Nat : Len(user_pages) = m + n /\ Elf!Page = Elf!PageOf(phdrs[s].vaddr) + n * ElfPage
    <3>1. PICK n \in Nat : /\ Len(user_pages) = g[at.seg - 1].pages + n
                           /\ Elf!Page = Elf!PageOf(phdrs[at.seg].vaddr) + n * ElfPage
      BY <2>1, ElfCurrent
    <3>2. QED
      BY <1>2, <1>5, <3>1
  <2>3. PICK q \in Nat : Elf!EndOf(phdrs[s]) = Elf!PageOf(phdrs[s].vaddr) + q * ElfPage /\ g[s].pages = m + q
    <3>1. PICK q \in Nat : /\ Elf!EndOf(phdrs[s]) = Elf!PageOf(phdrs[s].vaddr) + q * ElfPage
                           /\ g[s].pages = g[s - 1].pages + q
      BY <1>3, <1>7, ElfCountIs
    <3>2. QED
      BY <1>5, <3>1
  <2>4. /\ Elf!Page \in Nat /\ Elf!Page <= Elf!EndOf(phdrs[s])
        /\ Elf!Page < phdrs[s].vaddr + phdrs[s].memsz <=> Elf!Page < Elf!EndOf(phdrs[s])
    BY <1>2, <2>1, ElfCurrent
  <2>5. phdrs[s] \in Phdrs /\ Elf!PageOf(phdrs[s].vaddr) \in Nat /\ ElfPage \in Nat \ {0}
    BY <1>3, <1>7, ElfPassed DEF Elf!ElfAssumption
  <2>6. PICK a \in Nat : a = Elf!PageOf(phdrs[s].vaddr)
    BY <2>5
  <2>7. n * ElfPage \in Nat /\ q * ElfPage \in Nat
    BY <2>5
  <2>8. n * ElfPage <= q * ElfPage
    BY <2>2, <2>3, <2>4, <2>6, <2>7
  <2>9. n <= q
    BY <2>8, ElfTimes
  <2>10. Len(user_pages) <= g[s].pages
    BY <2>2, <2>3, <2>9
  <2>11. ASSUME Elf!Page >= Elf!Segment.vaddr + Elf!Segment.memsz
         PROVE  Len(user_pages) = g[s].pages
    <3>1. phdrs[s].vaddr \in Nat /\ phdrs[s].memsz \in Nat
      BY <2>5, ElfPhdrIs
    <3>2. ~ (Elf!Page < phdrs[s].vaddr + phdrs[s].memsz)
      BY <2>1, <2>4, <2>11, <3>1
    <3>3. Elf!Page >= Elf!EndOf(phdrs[s])
      BY <2>2, <2>3, <2>4, <2>6, <2>7, <3>2
    <3>4. q * ElfPage <= n * ElfPage
      BY <2>2, <2>3, <2>4, <2>6, <2>7, <3>3
    <3>5. q <= n
      BY <3>4, ElfTimes
    <3>6. QED
      BY <2>2, <2>3, <2>9, <3>5
  <2>12. QED
    BY <1>2, <2>1, <2>10, <2>11
<1>8. QED
  BY <1>6, <1>7

(* The next segment.                                                       *)
LEMMA ElfNextSegment ==
  ASSUME Elf!ElfAssumption, Elf!FileAssumption, ElfInvariant, Elf!NextSegment
  PROVE  ElfInvariant'
<1>1. /\ phase = "load" /\ at.seg <= Len(phdrs)
      /\ Elf!Loads(Elf!Segment) => Elf!Page >= Elf!Segment.vaddr + Elf!Segment.memsz
      /\ at' = [seg |-> at.seg + 1, va |-> None]
      /\ UNCHANGED <<phase, file, phdrs, check, capacity, user_pages, pml4, free>>
  BY DEF Elf!NextSegment
<1>2. PICK g : /\ ElfRounds(file, phdrs, g) /\ g[Len(phdrs)] = check
               /\ ElfCounted(phase, phdrs, check, at, user_pages, g)
  BY DEF ElfInvariant
<1>3. /\ ElfFile(phase, file, phdrs) /\ ElfRoom(phase, check, capacity) /\ ElfPlace(phase, phdrs, at)
      /\ ElfTables(phase, file, user_pages, pml4, free)
      /\ ElfMapped(phase, phdrs, at, user_pages, pml4) /\ phdrs \in Seq(Phdrs)
  BY DEF ElfInvariant, ElfFile
<1>4. PICK s \in 1 .. Len(phdrs) : s = at.seg
  BY <1>1, <1>3 DEF ElfPlace
<1>5. at' \in ElfAt /\ at'.seg = s + 1 /\ at'.va = None
  BY <1>1, <1>4 DEF ElfAt
<1>6. ASSUME NEW k, NEW v \in ElfAligned
      PROVE  ElfHas(phdrs, at', k, v) <=> ElfHas(phdrs, at, k, v)
  <2>1. k \in 1 .. Len(phdrs) => (k < s + 1 <=> k < s \/ k = s)
    OBVIOUS
  <2>2. ASSUME k = s, Elf!Loads(phdrs[s]), v < Elf!EndOf(phdrs[s])
        PROVE  at.va # None /\ v < at.va
    <3>1. Elf!Segment = phdrs[s] /\ Elf!Loads(Elf!Segment)
      BY <1>4, <2>2 DEF Elf!Segment
    <3>2. /\ phdrs[s] \in Phdrs /\ Elf!Page \in Nat /\ Elf!Page <= Elf!EndOf(phdrs[s])
          /\ Elf!Page < phdrs[s].vaddr + phdrs[s].memsz <=> Elf!Page < Elf!EndOf(phdrs[s])
          /\ Elf!Page = IF at.va = None THEN Elf!PageOf(phdrs[s].vaddr) ELSE at.va
      BY <1>1, <1>2, <1>4, <3>1, ElfCurrent
    <3>3. /\ Elf!PageOf(phdrs[s].vaddr) < Elf!EndOf(phdrs[s]) /\ Elf!EndOf(phdrs[s]) \in Nat
          /\ phdrs[s].vaddr \in Nat /\ phdrs[s].memsz \in Nat
      BY <1>2, <1>3, <2>2, <3>2, ElfPassed, ElfPhdrIs
    <3>4. ~ (Elf!Page < phdrs[s].vaddr + phdrs[s].memsz)
      BY <1>1, <3>1, <3>2, <3>3
    <3>5. ~ (Elf!Page < Elf!EndOf(phdrs[s]))
      BY <3>2, <3>4
    <3>6. Elf!Page = Elf!EndOf(phdrs[s])
      BY <3>2, <3>3, <3>5
    <3>7. at.va # None
      BY <3>2, <3>3, <3>5
    <3>8. QED
      BY <2>2, <3>2, <3>6, <3>7
  <2>3. QED
    BY <1>4, <1>5, <2>1, <2>2 DEF ElfHas
<1>7. ElfPlace(phase', phdrs', at')
  <2>1. s + 1 \in 1 .. Len(phdrs) + 1
    BY <1>3
  <2>2. QED
    BY <1>1, <1>5, <2>1 DEF ElfPlace
<1>8. ElfMapped(phase', phdrs', at', user_pages', pml4')
  <2>1. \A v \in Elf!PageVas : v \in ElfAligned
    BY ElfPagesAre
  <2>2. \A v : ~ ElfStackHas("load", at', v) /\ ~ ElfStackHas("load", at, v)
    BY DEF ElfStackHas
  <2>3. QED
    BY <1>1, <1>3, <1>6, <2>1, <2>2 DEF ElfMapped
<1>9. ElfCounted(phase', phdrs', check', at', user_pages', g)
  <2>1. Len(user_pages) = g[s].pages
    BY <1>1, <1>2, <1>4, ElfWalked
  <2>2. g[s].pages \in Nat
    <3>1. s \in 0 .. Len(phdrs)
      BY <1>3
    <3>2. QED
      BY <1>2, <3>1 DEF ElfRounds, ElfRecord
  <2>3. at'.seg - 1 = s /\ Len(user_pages) = g[s].pages + 0
    BY <1>5, <2>1, <2>2
  <2>4. QED
    BY <1>1, <1>5, <2>3 DEF ElfCounted
<1>10. QED
  BY <1>1, <1>2, <1>3, <1>7, <1>8, <1>9 DEF ElfInvariant

(* The stack's area is free, or the task fails.                            *)
LEMMA ElfCheckStack ==
  ASSUME Elf!ElfAssumption, Elf!FileAssumption, ElfInvariant, Elf!CheckStack
  PROVE  ElfInvariant'
<1>1. phase = "load" /\ at.seg > Len(phdrs) /\ UNCHANGED <<file, phdrs, check, capacity>>
  BY DEF Elf!CheckStack
<1>2. PICK g : /\ ElfRounds(file, phdrs, g) /\ g[Len(phdrs)] = check
               /\ ElfCounted(phase, phdrs, check, at, user_pages, g)
  BY DEF ElfInvariant
<1>3. /\ ElfFile(phase, file, phdrs) /\ ElfRoom(phase, check, capacity) /\ ElfPlace(phase, phdrs, at)
      /\ ElfTables(phase, file, user_pages, pml4, free)
      /\ ElfMapped(phase, phdrs, at, user_pages, pml4) /\ phdrs \in Seq(Phdrs)
  BY DEF ElfInvariant, ElfFile
<1>4. at \in ElfAt /\ at.seg = Len(phdrs) + 1 /\ at.va = None
  BY <1>1, <1>3 DEF ElfPlace, ElfAt
<1>5. /\ user_pages \in Seq(ElfFrame) /\ free \in Nat /\ free + Len(user_pages) = ElfFrames
      /\ capacity \in InlinePages .. ElfPages /\ StackBase \in Nat
  BY <1>3 DEF ElfTables, ElfRoom, Elf!ElfAssumption
<1>6. CASE Elf!Fail(user_pages, free) /\ UNCHANGED at
  BY <1>1, <1>4, <1>5, <1>6, ElfFailed
<1>7. CASE /\ \A v \in Elf!StackArea : pml4[v] = None
           /\ phase' = "stack" /\ at' = [at EXCEPT !.va = StackBase]
           /\ UNCHANGED <<user_pages, pml4, free>>
  <2>1. at' \in ElfAt /\ at'.seg = Len(phdrs) + 1 /\ at'.va = StackBase
    BY <1>4, <1>5, <1>7 DEF ElfAt
  <2>2. \A k, v : ElfHas(phdrs, at', k, v) <=> ElfHas(phdrs, at, k, v)
    <3>1. \A k \in 1 .. Len(phdrs) : k < Len(phdrs) + 1
      BY <1>3
    <3>2. QED
      BY <1>4, <2>1, <3>1 DEF ElfHas
  <2>3. \A v \in Elf!StackArea : \A k : ~ ElfHas(phdrs, at', k, v)
    <3>1. SUFFICES ASSUME NEW v \in Elf!StackArea, NEW k, ElfHas(phdrs, at, k, v) PROVE FALSE
      BY <2>2
    <3>2. v \in Elf!PageVas
      BY ElfStackIs
    <3>3. pml4[v] # None
      BY <1>1, <1>3, <3>1, <3>2 DEF ElfMapped, ElfBuilt, ElfEntry
    <3>4. QED
      BY <1>7, <3>3
  <2>4. ElfPlace(phase', phdrs', at')
    <3>1. StackBase \in ElfAligned /\ StackBase <= StackBase /\ StackBase <= ElfStackEnd
      BY <1>5, ElfPagesAre, ElfStackIs
    <3>2. QED
      BY <1>1, <1>7, <2>1, <2>3, <3>1 DEF ElfPlace
  <2>5. \A v \in Elf!PageVas : ~ ElfStackHas(phase', at', v) /\ ~ ElfStackHas(phase, at, v)
    <3>1. \A v \in Elf!PageVas : v \in Nat
      BY ElfPagesAre, ElfAlignedIs
    <3>2. QED
      BY <1>1, <1>5, <2>1, <3>1 DEF ElfStackHas
  <2>6. ElfMapped(phase', phdrs', at', user_pages', pml4')
    BY <1>1, <1>3, <1>7, <2>2, <2>5 DEF ElfMapped, ElfBuilt
  <2>7. ElfCounted(phase', phdrs', check', at', user_pages', g)
    <3>1. Len(user_pages) = check.pages
      <4>1. Len(phdrs) \in 0 .. Len(phdrs) /\ (Len(phdrs) + 1) - 1 = Len(phdrs)
        BY <1>3
      <4>2. check.pages \in Nat
        BY <1>2, <4>1 DEF ElfRounds, ElfRecord
      <4>3. PICK n \in Nat : Len(user_pages) = g[at.seg - 1].pages + n /\ n = 0
        BY <1>1, <1>2, <1>4 DEF ElfCounted
      <4>4. QED
        BY <1>2, <1>4, <4>1, <4>2, <4>3
    <3>2. Len(user_pages) = check.pages + 0 /\ StackBase = StackBase + 0 * ElfPage
      BY <1>5, <3>1 DEF Elf!ElfAssumption
    <3>3. QED
      BY <1>1, <1>7, <2>1, <3>2 DEF ElfCounted
  <2>8. ElfFile(phase', file', phdrs') /\ ElfRoom(phase', check', capacity')
    BY <1>1, <1>3, <1>7 DEF ElfFile, ElfRoom, ElfBuilt
  <2>9. ElfTables(phase', file', user_pages', pml4', free')
    BY <1>1, <1>3, <1>7 DEF ElfTables, ElfBuilt
  <2>10. QED
    BY <1>1, <1>2, <2>4, <2>6, <2>7, <2>8, <2>9 DEF ElfInvariant
<1>8. QED
  BY <1>6, <1>7 DEF Elf!CheckStack

-----------------------------------------------------------------------------
(* One page of the stack.                                                  *)
LEMMA ElfStackPage ==
  ASSUME Elf!ElfAssumption, Elf!FileAssumption, ElfInvariant, Elf!StackPage
  PROVE  ElfInvariant'
<1>1. /\ phase = "stack" /\ at.va < ElfStackEnd
      /\ Elf!TakePage(at.va, ElfZeros, {"R", "W"})
      /\ at' = [at EXCEPT !.va = @ + ElfPage]
      /\ UNCHANGED <<file, phdrs, check, capacity>>
  BY DEF Elf!StackPage, ElfStackEnd, ElfZeros
<1>2. PICK g : /\ ElfRounds(file, phdrs, g) /\ g[Len(phdrs)] = check
               /\ ElfCounted(phase, phdrs, check, at, user_pages, g)
  BY DEF ElfInvariant
<1>3. /\ ElfFile(phase, file, phdrs) /\ ElfRoom(phase, check, capacity) /\ ElfPlace(phase, phdrs, at)
      /\ ElfTables(phase, file, user_pages, pml4, free)
      /\ ElfMapped(phase, phdrs, at, user_pages, pml4) /\ phdrs \in Seq(Phdrs)
  BY DEF ElfInvariant, ElfFile
<1>4. PICK v \in ElfAligned : v = at.va
  BY <1>1, <1>3 DEF ElfPlace
<1>5. /\ at \in ElfAt /\ at.seg = Len(phdrs) + 1 /\ StackBase <= v /\ v < ElfStackEnd
      /\ \A w \in Elf!StackArea : \A k : ~ ElfHas(phdrs, at, k, w)
  BY <1>1, <1>3, <1>4 DEF ElfPlace
<1>6. /\ v \in Nat /\ StackBase \in Nat /\ ElfPage \in Nat \ {0} /\ None \notin Int
      /\ ElfStackEnd \in ElfAligned /\ ElfStackEnd \in Nat /\ ElfUserEnd \in Nat
      /\ ElfStackEnd + ElfPage <= ElfUserEnd
  BY ElfAlignedIs, ElfStackIs DEF Elf!ElfAssumption, Elf!FileAssumption
<1>7. v \in Elf!PageVas /\ v \in Elf!StackArea
  <2>1. v < ElfUserEnd /\ StackBase - ElfPage <= v /\ v <= ElfStackEnd
    BY <1>5, <1>6
  <2>2. QED
    BY <2>1, ElfPagesAre, ElfStackIs
<1>8. /\ v + ElfPage \in ElfAligned /\ v + ElfPage \in Nat /\ v + ElfPage <= ElfStackEnd
      /\ StackBase <= v + ElfPage
  <2>1. v + ElfPage \in ElfAligned /\ v + ElfPage <= ElfStackEnd
    BY <1>5, <1>6, ElfAlignedIs
  <2>2. QED
    BY <1>5, <1>6, <2>1
<1>9. at' \in ElfAt /\ at'.seg = Len(phdrs) + 1 /\ at'.va = v + ElfPage
  BY <1>1, <1>4, <1>5, <1>8 DEF ElfAt
<1>10. /\ user_pages \in Seq(ElfFrame) /\ free \in Nat /\ free + Len(user_pages) = ElfFrames
       /\ capacity \in InlinePages .. ElfPages
  BY <1>3 DEF ElfTables, ElfRoom
<1>11. PICK bytes \in [0 .. ElfPage - 1 -> Int] : bytes = ElfZeros
  <2>1. Elf!Zero \in Int
    BY DEF Elf!Zero
  <2>2. ElfZeros \in [0 .. ElfPage - 1 -> Int]
    BY <2>1 DEF ElfZeros
  <2>3. QED
    BY <2>2
<1>12. PICK perm \in ElfPerms : perm = {"R", "W"}
  BY DEF ElfPerms
<1>13. Elf!TakePage(v, bytes, perm)
  BY <1>1, <1>4, <1>11, <1>12
<1>14. CASE Elf!Fail(user_pages, free)
  BY <1>1, <1>9, <1>10, <1>14, ElfFailed
<1>15. CASE free > 0 /\ Elf!Fail(ElfWith(user_pages, v, bytes), free - 1)
  <2>1. PICK f : f = [va |-> v, bytes |-> bytes]
    OBVIOUS
  <2>2. f \in ElfFrame
    BY <1>7, <2>1 DEF ElfFrame
  <2>3. PICK qs : qs = Append(user_pages, f)
    OBVIOUS
  <2>4. Len(qs) = Len(user_pages) + 1 /\ Len(user_pages) \in Nat
    BY <1>10, <2>2, <2>3
  <2>5. Len(qs) \in Nat /\ free - 1 \in Nat /\ (free - 1) + Len(qs) = ElfFrames
    BY <1>10, <1>15, <2>4
  <2>6. Elf!Fail(qs, free - 1)
    BY <1>15, <2>1, <2>3 DEF ElfWith
  <2>7. QED
    BY <1>1, <1>9, <1>10, <2>5, <2>6, ElfFailed
<1>16. CASE /\ free > 0 /\ pml4[v] = None
            /\ user_pages' = ElfWith(user_pages, v, bytes)
            /\ pml4' = ElfNaming(user_pages, pml4, v, perm)
            /\ free' = free - 1
            /\ UNCHANGED phase
  <2>1. /\ ElfTables("stack", file, user_pages', pml4', free') /\ Len(user_pages') = Len(user_pages) + 1
        /\ ElfEntry(user_pages', pml4', v, perm, bytes)
        /\ \A w \in Elf!PageVas : w # v =>
              /\ pml4'[w] = pml4[w]
              /\ \A pm, bs : ElfEntry(user_pages, pml4, w, pm, bs) => ElfEntry(user_pages', pml4', w, pm, bs)
    <3>1. /\ "stack" \in ElfBuilt /\ ElfTables("stack", file, user_pages, pml4, free)
          /\ \A b \in 0 .. ElfPage - 1 : bytes[b] = Elf!Zero \/ bytes[b] < file.size
      BY <1>1, <1>3, <1>11 DEF ElfBuilt, ElfZeros
    <3>2. free > 0
      BY <1>16
    <3>3. /\ ElfTables("stack", file, ElfWith(user_pages, v, bytes),
                       ElfNaming(user_pages, pml4, v, perm), free - 1)
          /\ Len(ElfWith(user_pages, v, bytes)) = Len(user_pages) + 1
          /\ ElfEntry(ElfWith(user_pages, v, bytes), ElfNaming(user_pages, pml4, v, perm), v, perm, bytes)
          /\ \A w \in Elf!PageVas : w # v =>
                /\ ElfNaming(user_pages, pml4, v, perm)[w] = pml4[w]
                /\ \A pm, bs : ElfEntry(user_pages, pml4, w, pm, bs)
                     => ElfEntry(ElfWith(user_pages, v, bytes), ElfNaming(user_pages, pml4, v, perm), w, pm, bs)
      BY <1>7, <3>1, <3>2, ElfTaken
    <3>4. QED
      BY <1>16, <3>3
  <2>2. \A k, w : ElfHas(phdrs, at', k, w) <=> ElfHas(phdrs, at, k, w)
    <3>1. \A k \in 1 .. Len(phdrs) : k < Len(phdrs) + 1
      BY <1>3
    <3>2. QED
      BY <1>5, <1>9, <3>1 DEF ElfHas
  <2>3. \A w \in Elf!PageVas : ElfStackHas("stack", at', w) <=> ElfStackHas("stack", at, w) \/ w = v
    <3>1. SUFFICES ASSUME NEW w \in ElfAligned
                   PROVE  ElfStackHas("stack", at', w) <=> ElfStackHas("stack", at, w) \/ w = v
      BY ElfPagesAre
    <3>2. w \in Nat /\ (v < w => v + ElfPage <= w)
      BY <1>6, ElfAlignedIs
    <3>3. ElfStackHas("stack", at', w) <=> StackBase <= w /\ w < v + ElfPage
      BY <1>9 DEF ElfStackHas
    <3>4. ElfStackHas("stack", at, w) <=> StackBase <= w /\ w < v
      BY <1>4 DEF ElfStackHas
    <3>5. QED
      BY <1>5, <1>6, <3>2, <3>3, <3>4
  <2>4. ElfMapped("stack", phdrs, at', user_pages', pml4')
    <3>1. SUFFICES ASSUME NEW w \in Elf!PageVas
                   PROVE  /\ pml4'[w] # None => (\E k : ElfHas(phdrs, at', k, w)) \/ ElfStackHas("stack", at', w)
                          /\ \A k : ElfHas(phdrs, at', k, w)
                               => ElfEntry(user_pages', pml4', w, phdrs[k].flags, ElfImage(phdrs[k], w))
                          /\ ElfStackHas("stack", at', w) => ElfEntry(user_pages', pml4', w, {"R", "W"}, ElfZeros)
      BY DEF ElfMapped
    <3>2. CASE w = v
      <4>1. ElfStackHas("stack", at', w) /\ \A k : ~ ElfHas(phdrs, at', k, w)
        BY <1>5, <1>7, <2>2, <2>3, <3>2
      <4>2. ElfEntry(user_pages', pml4', w, {"R", "W"}, ElfZeros)
        BY <1>11, <1>12, <2>1, <3>2
      <4>3. QED
        BY <4>1, <4>2
    <3>3. CASE w # v
      <4>1. /\ pml4[w] # None => (\E k : ElfHas(phdrs, at, k, w)) \/ ElfStackHas("stack", at, w)
            /\ \A k : ElfHas(phdrs, at, k, w)
                 => ElfEntry(user_pages, pml4, w, phdrs[k].flags, ElfImage(phdrs[k], w))
            /\ ElfStackHas("stack", at, w) => ElfEntry(user_pages, pml4, w, {"R", "W"}, ElfZeros)
        BY <1>1, <1>3 DEF ElfMapped, ElfBuilt
      <4>2. QED
        BY <2>1, <2>2, <2>3, <3>3, <4>1
    <3>4. QED
      BY <3>2, <3>3
  <2>5. ElfPlace("stack", phdrs, at')
    BY <1>5, <1>8, <1>9, <2>2 DEF ElfPlace
  <2>6. ElfCounted("stack", phdrs, check, at', user_pages', g)
    <3>1. PICK n \in Nat : Len(user_pages) = check.pages + n /\ v = StackBase + n * ElfPage
      BY <1>1, <1>2, <1>4 DEF ElfCounted
    <3>2. check.pages \in Nat
      <4>1. Len(phdrs) \in 0 .. Len(phdrs)
        BY <1>3
      <4>2. QED
        BY <1>2, <4>1 DEF ElfRounds, ElfRecord
    <3>3. PICK m \in Nat : m = check.pages
      BY <3>2
    <3>4. Len(user_pages) = m + n /\ Len(user_pages') = (m + n) + 1
      BY <2>1, <3>1, <3>3
    <3>5. Len(user_pages') = m + (n + 1)
      BY <3>4
    <3>6. (n + 1) * ElfPage = n * ElfPage + ElfPage /\ n * ElfPage \in Nat
      BY <1>6
    <3>7. at'.va = StackBase + (n + 1) * ElfPage
      BY <1>6, <1>9, <3>1, <3>6
    <3>8. QED
      BY <3>3, <3>5, <3>7 DEF ElfCounted
  <2>7. phase' = "stack"
    BY <1>1, <1>16
  <2>8. QED
    BY <1>1, <1>2, <1>3, <2>1, <2>4, <2>5, <2>6, <2>7 DEF ElfInvariant
<1>17. QED
  BY <1>13, <1>14, <1>15, <1>16 DEF Elf!TakePage, ElfWith, ElfNaming

(* The task is complete.                                                   *)
LEMMA ElfPublish ==
  ASSUME Elf!ElfAssumption, Elf!FileAssumption, ElfInvariant, Elf!Publish
  PROVE  ElfInvariant'
<1>1. /\ phase = "stack" /\ at.va = ElfStackEnd /\ phase' = "published"
      /\ UNCHANGED <<file, phdrs, check, capacity, at, user_pages, pml4, free>>
  BY DEF Elf!Publish, ElfStackEnd
<1>2. PICK g : /\ ElfRounds(file, phdrs, g) /\ g[Len(phdrs)] = check
               /\ ElfCounted(phase, phdrs, check, at, user_pages, g)
  BY DEF ElfInvariant
<1>3. /\ ElfFile(phase, file, phdrs) /\ ElfRoom(phase, check, capacity) /\ ElfPlace(phase, phdrs, at)
      /\ ElfTables(phase, file, user_pages, pml4, free)
      /\ ElfMapped(phase, phdrs, at, user_pages, pml4)
  BY DEF ElfInvariant
<1>4. ElfFile(phase', file', phdrs') /\ ElfRoom(phase', check', capacity')
  BY <1>1, <1>3 DEF ElfFile, ElfRoom, ElfBuilt
<1>5. ElfPlace(phase', phdrs', at')
  BY <1>1, <1>3 DEF ElfPlace
<1>6. ElfTables(phase', file', user_pages', pml4', free')
  BY <1>1, <1>3 DEF ElfTables, ElfBuilt
<1>7. ElfMapped(phase', phdrs', at', user_pages', pml4')
  BY <1>1, <1>3 DEF ElfMapped, ElfBuilt, ElfStackHas
<1>8. ElfCounted(phase', phdrs', check', at', user_pages', g)
  BY <1>1, <1>2 DEF ElfCounted
<1>9. QED
  BY <1>1, <1>2, <1>4, <1>5, <1>6, <1>7, <1>8 DEF ElfInvariant

(* Every step.                                                             *)
LEMMA ElfSteps ==
  ASSUME Elf!ElfAssumption, Elf!FileAssumption, ElfInvariant, [Elf!Next]_(Elf!vars)
  PROVE  ElfInvariant'
<1>1. CASE UNCHANGED Elf!vars
  BY <1>1 DEF Elf!vars, ElfInvariant
<1>2. CASE \E h \in FileHeaders : Elf!ReadHeader(h)
  BY <1>2, ElfReadHeader
<1>3. CASE \E p \in Phdrs : Elf!ReadPhdr(p)
  BY <1>3, ElfReadPhdr
<1>4. CASE Elf!NoEntry
  BY <1>4, ElfRefused DEF Elf!NoEntry
<1>5. CASE Elf!Construct \/ Elf!LoadPage \/ Elf!NextSegment
  BY <1>5, ElfConstruct, ElfLoadPage, ElfNextSegment
<1>6. CASE Elf!CheckStack \/ Elf!StackPage \/ Elf!Publish
  BY <1>6, ElfCheckStack, ElfStackPage, ElfPublish
<1>7. QED
  BY <1>1, <1>2, <1>3, <1>4, <1>5, <1>6 DEF Elf!Next

-----------------------------------------------------------------------------
(***************************************************************************)
(* What the invariant says of the finished address space.                  *)
(***************************************************************************)
(* An address is in the page of a segment, or a byte of the segment is.    *)
LEMMA ElfOwners ==
  ASSUME Elf!ElfAssumption, Elf!FileAssumption, NEW h, NEW ps \in Seq(Phdrs), NEW g, ElfRounds(h, ps, g),
         NEW k \in 1 .. Len(ps), Elf!Loads(ps[k]), NEW v \in ElfAligned
  PROVE  (\E x \in 0 .. ElfPage - 1 : Elf!Covers(ps[k], v + x))
           <=> Elf!PageOf(ps[k].vaddr) <= v /\ v < Elf!EndOf(ps[k])
<1>1. /\ ps[k] \in Phdrs /\ Elf!PageOf(ps[k].vaddr) \in ElfAligned /\ Elf!EndOf(ps[k]) \in Nat
      /\ Elf!PageOf(ps[k].vaddr) \in Nat
      /\ v < ps[k].vaddr + ps[k].memsz <=> v < Elf!EndOf(ps[k])
  BY ElfPassed
<1>2. ps[k].vaddr \in Nat /\ ps[k].memsz \in Nat /\ ps[k].type = "load"
  BY <1>1, ElfPhdrIs DEF Elf!Loads
<1>3. /\ Elf!PageOf(ps[k].vaddr) <= ps[k].vaddr /\ ps[k].vaddr < Elf!PageOf(ps[k].vaddr) + ElfPage
  BY <1>2, ElfPageOfIs
<1>4. PICK a \in Nat : a = ps[k].vaddr
  BY <1>2
<1>5. PICK m \in Nat : m = ps[k].memsz /\ m # 0
  BY <1>2 DEF Elf!Loads
<1>6. PICK first \in ElfAligned : first = Elf!PageOf(ps[k].vaddr)
  BY <1>1
<1>7. \A x : Elf!Covers(ps[k], x) <=> x \in a .. a + m - 1
  BY <1>2, <1>4, <1>5 DEF Elf!Covers
<1>8. /\ v \in Nat /\ first \in Nat /\ ElfPage \in Nat \ {0} /\ (v < first => v + ElfPage <= first)
  BY ElfAlignedIs DEF Elf!ElfAssumption
<1>9. first <= a /\ a < first + ElfPage
  BY <1>3, <1>4, <1>6
<1>10. ASSUME NEW x \in 0 .. ElfPage - 1, v + x \in a .. a + m - 1
       PROVE  first <= v /\ v < a + m
  BY <1>8, <1>9, <1>10
<1>11. ASSUME first <= v, v < a + m
       PROVE  \E x \in 0 .. ElfPage - 1 : v + x \in a .. a + m - 1
  <2>1. CASE a <= v
    <3>1. 0 \in 0 .. ElfPage - 1 /\ v + 0 \in a .. a + m - 1
      BY <1>8, <1>11, <2>1
    <3>2. QED
      BY <3>1
  <2>2. CASE ~ (a <= v)
    <3>1. a - v \in 0 .. ElfPage - 1 /\ v + (a - v) \in a .. a + m - 1
      BY <1>5, <1>8, <1>9, <1>11, <2>2
    <3>2. QED
      BY <3>1
  <2>3. QED
    BY <2>1, <2>2
<1>12. QED
  BY <1>1, <1>4, <1>5, <1>6, <1>7, <1>10, <1>11

(* Every address is in a page.                                             *)
LEMMA ElfAddress ==
  ASSUME Elf!ElfAssumption, NEW a \in 0 .. ElfUserEnd - 1
  PROVE  \E v \in ElfAligned : \E b \in 0 .. ElfPage - 1 :
           /\ v = Elf!PageOf(a) /\ b = a % ElfPage /\ v + b = a /\ v \in Elf!PageVas
<1>1. a \in Nat /\ ElfPage \in Nat \ {0} /\ ElfUserEnd \in Nat
  BY DEF Elf!ElfAssumption
<1>2. /\ Elf!PageOf(a) \in ElfAligned /\ Elf!PageOf(a) \in Nat
      /\ Elf!PageOf(a) <= a /\ a < Elf!PageOf(a) + ElfPage
      /\ a % ElfPage = a - Elf!PageOf(a)
  BY <1>1, ElfPageOfIs
<1>3. PICK v \in ElfAligned : v = Elf!PageOf(a) /\ v \in Nat
  BY <1>2
<1>4. v <= a /\ a < v + ElfPage /\ a % ElfPage = a - v /\ v < ElfUserEnd
  BY <1>1, <1>2, <1>3
<1>5. a - v \in 0 .. ElfPage - 1 /\ v + (a - v) = a
  BY <1>1, <1>3, <1>4
<1>6. v \in Elf!PageVas
  BY <1>4, ElfPagesAre
<1>7. QED
  BY <1>3, <1>4, <1>5, <1>6

(* The byte of a segment's page that is at an address.                     *)
LEMMA ElfImageAt ==
  ASSUME Elf!FileAssumption, Elf!ElfAssumption, NEW p \in Phdrs, NEW v \in ElfAligned, NEW b \in 0 .. ElfPage - 1,
         NEW x \in Nat, x = v + b
  PROVE  ElfImage(p, v)[b] = IF x \in p.vaddr .. p.vaddr + p.filesz - 1
                             THEN p.offset + (x - p.vaddr) ELSE Elf!Zero
<1>1. PICK a \in Nat : a = p.vaddr
  BY ElfPhdrIs
<1>2. PICK f \in Nat : f = p.filesz
  BY ElfPhdrIs
<1>3. PICK o \in Nat : o = p.offset
  BY ElfPhdrIs
<1>4. v \in Nat /\ b \in Int
  BY ElfAlignedIs DEF Elf!ElfAssumption
<1>5. ElfImage(p, v)[b] = IF v + b \in a .. a + f - 1 THEN o + (v + b - a) ELSE Elf!Zero
  BY <1>1, <1>2, <1>3 DEF ElfImage
<1>6. o + (v + b - a) = o + (x - a)
  BY <1>4
<1>7. ElfImage(p, v)[b] = IF x \in a .. a + f - 1 THEN o + (x - a) ELSE Elf!Zero
  BY <1>5, <1>6
<1>8. QED
  BY <1>1, <1>2, <1>3, <1>7

(* Once all segments are passed, a page belongs to those it holds bytes of. *)
LEMMA ElfAllPassed ==
  ASSUME Elf!ElfAssumption, Elf!FileAssumption, ElfInvariant, phase \in {"stack", "published"},
         NEW k, NEW v
  PROVE  ElfHas(phdrs, at, k, v)
           <=> /\ k \in 1 .. Len(phdrs) /\ Elf!Loads(phdrs[k])
               /\ Elf!PageOf(phdrs[k].vaddr) <= v /\ v < Elf!EndOf(phdrs[k])
<1>1. phdrs \in Seq(Phdrs) /\ at.seg = Len(phdrs) + 1
  BY DEF ElfInvariant, ElfFile, ElfPlace
<1>2. \A i \in 1 .. Len(phdrs) : i < Len(phdrs) + 1
  BY <1>1
<1>3. QED
  BY <1>1, <1>2 DEF ElfHas

(* Address by address what the headers say.                                *)
LEMMA ElfExact ==
  ASSUME Elf!ElfAssumption, Elf!FileAssumption, ElfInvariant
  PROVE  Elf!ImageExact
<1>1. SUFFICES ASSUME phase = "published", NEW a \in 0 .. ElfUserEnd - 1
               PROVE  LET stack == Elf!PageOf(a) \in {StackBase + i * ElfPage : i \in 0 .. StackPages - 1}
                          owners == {p \in Elf!Nonempty : \E x \in 0 .. ElfPage - 1 :
                                                            Elf!Covers(p, Elf!PageOf(a) + x)}
                      IN  IF stack THEN pml4[Elf!PageOf(a)].perm = {"R", "W"} /\ Elf!ByteAt(a) = Elf!Zero
                                        /\ owners = {}
                          ELSE IF owners = {} THEN pml4[Elf!PageOf(a)] = None
                          ELSE \A p \in owners :
                                 /\ pml4[Elf!PageOf(a)].perm = p.flags
                                 /\ Elf!ByteAt(a) = IF a \in p.vaddr .. p.vaddr + p.filesz - 1
                                                    THEN p.offset + (a - p.vaddr) ELSE Elf!Zero
  BY DEF Elf!ImageExact
<1>2. PICK v \in ElfAligned, b \in 0 .. ElfPage - 1 :
        v = Elf!PageOf(a) /\ b = a % ElfPage /\ v + b = a /\ v \in Elf!PageVas
  BY ElfAddress
<1>3. PICK g : ElfRounds(file, phdrs, g)
  BY DEF ElfInvariant
<1> DEFINE owners == {p \in Elf!Nonempty : \E x \in 0 .. ElfPage - 1 : Elf!Covers(p, v + x)}
           stack == StackBase <= v /\ v < ElfStackEnd
<1>4. phdrs \in Seq(Phdrs) /\ at.va = ElfStackEnd
  BY <1>1 DEF ElfInvariant, ElfFile, ElfPlace
<1>5. /\ pml4[v] # None => (\E k : ElfHas(phdrs, at, k, v)) \/ ElfStackHas(phase, at, v)
      /\ \A k : ElfHas(phdrs, at, k, v) => ElfEntry(user_pages, pml4, v, phdrs[k].flags, ElfImage(phdrs[k], v))
      /\ ElfStackHas(phase, at, v) => ElfEntry(user_pages, pml4, v, {"R", "W"}, ElfZeros)
  BY <1>1, <1>2 DEF ElfInvariant, ElfMapped, ElfBuilt
<1>6. \A p \in owners : \E k : ElfHas(phdrs, at, k, v) /\ p = phdrs[k]
  <2>1. SUFFICES ASSUME NEW p \in owners PROVE \E k : ElfHas(phdrs, at, k, v) /\ p = phdrs[k]
    OBVIOUS
  <2>2. PICK k \in DOMAIN phdrs : p = phdrs[k] /\ Elf!Loads(p)
    BY DEF Elf!Nonempty, Elf!Range
  <2>3. k \in 1 .. Len(phdrs)
    BY <1>4, <2>2
  <2>4. \E x \in 0 .. ElfPage - 1 : Elf!Covers(phdrs[k], v + x)
    BY <2>2
  <2>5. Elf!PageOf(phdrs[k].vaddr) <= v /\ v < Elf!EndOf(phdrs[k])
    BY <1>3, <1>4, <2>2, <2>3, <2>4, ElfOwners
  <2>6. QED
    BY <1>1, <2>2, <2>3, <2>5, ElfAllPassed
<1>7. \A k : ElfHas(phdrs, at, k, v) => phdrs[k] \in owners
  <2>1. SUFFICES ASSUME NEW k, ElfHas(phdrs, at, k, v) PROVE phdrs[k] \in owners
    OBVIOUS
  <2>2. /\ k \in 1 .. Len(phdrs) /\ Elf!Loads(phdrs[k])
        /\ Elf!PageOf(phdrs[k].vaddr) <= v /\ v < Elf!EndOf(phdrs[k])
    BY <2>1 DEF ElfHas
  <2>3. \E x \in 0 .. ElfPage - 1 : Elf!Covers(phdrs[k], v + x)
    BY <1>3, <1>4, <2>2, ElfOwners
  <2>4. phdrs[k] \in Elf!Nonempty
    BY <1>4, <2>2 DEF Elf!Nonempty, Elf!Range
  <2>5. QED
    BY <2>3, <2>4
<1>8. ElfStackHas(phase, at, v) <=> stack
  BY <1>1, <1>4 DEF ElfStackHas
<1>9. ~ stack \/ \A k : ~ ElfHas(phdrs, at, k, v)
  <2>1. ASSUME stack PROVE v \in Elf!StackArea
    <3>1. StackBase - ElfPage <= v /\ v <= ElfStackEnd
      <4>1. StackBase \in Nat /\ ElfPage \in Nat /\ v \in Nat /\ ElfStackEnd \in Nat
        BY ElfAlignedIs, ElfStackIs DEF Elf!ElfAssumption
      <4>2. QED
        BY <2>1, <4>1
    <3>2. QED
      BY <3>1, ElfStackIs
  <2>2. QED
    BY <1>1, <2>1 DEF ElfInvariant, ElfPlace
<1>10. Elf!ByteAt(a) = user_pages[pml4[v].page].bytes[b]
  BY <1>2 DEF Elf!ByteAt
<1>11. stack <=> v \in {StackBase + i * ElfPage : i \in 0 .. StackPages - 1}
  BY ElfStackIs
<1> HIDE DEF owners, stack
<1>12. ASSUME stack PROVE pml4[v].perm = {"R", "W"} /\ Elf!ByteAt(a) = Elf!Zero /\ owners = {}
  <2>1. ElfEntry(user_pages, pml4, v, {"R", "W"}, ElfZeros)
    BY <1>5, <1>8, <1>12
  <2>2. ElfZeros[b] = Elf!Zero
    BY DEF ElfZeros
  <2>3. owners = {}
    BY <1>6, <1>9, <1>12
  <2>4. QED
    BY <1>10, <2>1, <2>2, <2>3 DEF ElfEntry
<1>13. ASSUME ~ stack, owners = {} PROVE pml4[v] = None
  BY <1>5, <1>7, <1>8, <1>13
<1>14. ASSUME NEW p \in owners
       PROVE  /\ pml4[v].perm = p.flags
              /\ Elf!ByteAt(a) = IF a \in p.vaddr .. p.vaddr + p.filesz - 1
                                 THEN p.offset + (a - p.vaddr) ELSE Elf!Zero
  <2>1. PICK k : ElfHas(phdrs, at, k, v) /\ p = phdrs[k]
    BY <1>6
  <2>2. ElfEntry(user_pages, pml4, v, p.flags, ElfImage(p, v))
    BY <1>5, <2>1
  <2>3. ElfImage(p, v)[b] = IF a \in p.vaddr .. p.vaddr + p.filesz - 1
                            THEN p.offset + (a - p.vaddr) ELSE Elf!Zero
    <3>1. k \in 1 .. Len(phdrs) /\ phdrs[k] \in Phdrs
      BY <1>4, <2>1 DEF ElfHas
    <3>2. QED
      BY <1>2, <2>1, <3>1, ElfImageAt
  <2>4. QED
    BY <1>10, <2>2, <2>3 DEF ElfEntry
<1>15. QED
  BY <1>2, <1>11, <1>12, <1>13, <1>14 DEF owners

(* The program starts in its own code, which nobody can write.             *)
LEMMA ElfStartsIn ==
  ASSUME Elf!ElfAssumption, Elf!FileAssumption, ElfInvariant
  PROVE  Elf!StartsSafely
<1>1. SUFFICES ASSUME phase = "published"
               PROVE  /\ "X" \in pml4[Elf!PageOf(file.entry)].perm /\ Elf!ByteAt(file.entry) # Elf!Zero
                      /\ \A v \in Elf!PageVas : pml4[v] # None => ~ ({"W", "X"} \subseteq pml4[v].perm)
  BY DEF Elf!StartsSafely
<1>2. PICK g : ElfRounds(file, phdrs, g) /\ g[Len(phdrs)] = check
  BY DEF ElfInvariant
<1>3. phdrs \in Seq(Phdrs) /\ file \in FileHeaders /\ Elf!HeaderOk(file) /\ check.entry_found
  BY <1>1 DEF ElfInvariant, ElfFile, ElfRoom, ElfBuilt
<1>4. PICK k \in 1 .. Len(phdrs) : Elf!Loads(phdrs[k]) /\ Elf!EntryIn(file, phdrs[k])
  BY <1>2, <1>3 DEF ElfRounds
<1>5. file.entry \in 0 .. ElfUserEnd - 1
  <2>1. file.entry \in Nat /\ file.entry < ElfUserEnd /\ ElfUserEnd \in Nat
    BY <1>3, ElfHeaderIs DEF Elf!HeaderOk, Elf!ElfAssumption
  <2>2. QED
    BY <2>1
<1>6. PICK v \in ElfAligned, b \in 0 .. ElfPage - 1 :
        v = Elf!PageOf(file.entry) /\ b = file.entry % ElfPage /\ v + b = file.entry /\ v \in Elf!PageVas
  BY <1>5, ElfAddress
<1>7. PICK p \in Phdrs : p = phdrs[k] /\ Elf!FlagsOk(p) /\ Elf!Loads(p)
  BY <1>2, <1>3, <1>4, ElfPassed
<1>8. /\ "X" \in p.flags /\ file.entry \in Nat
      /\ file.entry \in p.vaddr .. p.vaddr + p.filesz - 1
      /\ file.entry \in p.vaddr .. p.vaddr + p.memsz - 1
      /\ p.offset + (file.entry - p.vaddr) # Elf!Zero
  <2>1. file.entry \in Nat /\ Elf!Zero = -1
    BY <1>3, ElfHeaderIs DEF Elf!Zero
  <2>2. /\ "X" \in p.flags /\ file.entry >= p.vaddr /\ file.entry - p.vaddr < p.filesz /\ p.filesz <= p.memsz
    BY <1>4, <1>7 DEF Elf!EntryIn, Elf!FlagsOk
  <2>3. PICK e \in Nat : e = file.entry
    BY <2>1
  <2>4. PICK a \in Nat : a = p.vaddr
    BY ElfPhdrIs
  <2>5. PICK f \in Nat : f = p.filesz
    BY ElfPhdrIs
  <2>6. PICK m \in Nat : m = p.memsz
    BY ElfPhdrIs
  <2>7. PICK o \in Nat : o = p.offset
    BY ElfPhdrIs
  <2>8. e >= a /\ e - a < f /\ f <= m
    BY <2>2, <2>3, <2>4, <2>5, <2>6
  <2>9. e \in a .. a + f - 1 /\ e \in a .. a + m - 1 /\ o + (e - a) # -1
    BY <2>8
  <2>10. QED
    BY <2>1, <2>2, <2>3, <2>4, <2>5, <2>6, <2>7, <2>9
<1>9. ElfHas(phdrs, at, k, v)
  <2>1. Elf!Covers(p, v + b)
    BY <1>6, <1>7, <1>8 DEF Elf!Covers, Elf!Loads
  <2>2. Elf!PageOf(phdrs[k].vaddr) <= v /\ v < Elf!EndOf(phdrs[k])
    BY <1>2, <1>3, <1>4, <1>7, <2>1, ElfOwners
  <2>3. QED
    BY <1>1, <1>4, <2>2, ElfAllPassed
<1>10. \A w \in Elf!PageVas :
         /\ pml4[w] # None => (\E i : ElfHas(phdrs, at, i, w)) \/ ElfStackHas(phase, at, w)
         /\ \A i : ElfHas(phdrs, at, i, w) => ElfEntry(user_pages, pml4, w, phdrs[i].flags, ElfImage(phdrs[i], w))
         /\ ElfStackHas(phase, at, w) => ElfEntry(user_pages, pml4, w, {"R", "W"}, ElfZeros)
  BY <1>1 DEF ElfInvariant, ElfMapped, ElfBuilt
<1>11. "X" \in pml4[Elf!PageOf(file.entry)].perm /\ Elf!ByteAt(file.entry) # Elf!Zero
  <2>1. ElfEntry(user_pages, pml4, v, p.flags, ElfImage(p, v))
    BY <1>6, <1>7, <1>9, <1>10
  <2>2. Elf!ByteAt(file.entry) = user_pages[pml4[v].page].bytes[b]
    BY <1>6 DEF Elf!ByteAt
  <2>3. ElfImage(p, v)[b] = p.offset + (file.entry - p.vaddr)
    BY <1>6, <1>8, ElfImageAt
  <2>4. QED
    BY <1>6, <1>8, <2>1, <2>2, <2>3 DEF ElfEntry
<1>12. ASSUME NEW w \in Elf!PageVas, pml4[w] # None PROVE ~ ({"W", "X"} \subseteq pml4[w].perm)
  <2>1. CASE ElfStackHas(phase, at, w)
    <3>1. pml4[w].perm = {"R", "W"}
      BY <1>10, <2>1 DEF ElfEntry
    <3>2. QED
      BY <3>1
  <2>2. CASE \E i : ElfHas(phdrs, at, i, w)
    <3>1. PICK i : ElfHas(phdrs, at, i, w)
      BY <2>2
    <3>2. i \in 1 .. Len(phdrs) /\ Elf!Loads(phdrs[i])
      BY <3>1 DEF ElfHas
    <3>3. Elf!FlagsOk(phdrs[i])
      BY <1>2, <1>3, <3>2, ElfPassed
    <3>4. pml4[w].perm = phdrs[i].flags
      BY <1>10, <3>1 DEF ElfEntry
    <3>5. QED
      BY <3>3, <3>4 DEF Elf!FlagsOk
  <2>3. QED
    BY <1>10, <1>12, <2>1, <2>2
<1>13. QED
  BY <1>11, <1>12

-----------------------------------------------------------------------------
(* The page list holds all that is taken.                                  *)
LEMMA ElfFits ==
  ASSUME Elf!ElfAssumption, Elf!FileAssumption, ElfInvariant
  PROVE  Len(user_pages) <= capacity
<1>1. PICK g : /\ ElfRounds(file, phdrs, g) /\ g[Len(phdrs)] = check
               /\ ElfCounted(phase, phdrs, check, at, user_pages, g)
  BY DEF ElfInvariant
<1>2. /\ ElfRoom(phase, check, capacity) /\ ElfPlace(phase, phdrs, at) /\ phdrs \in Seq(Phdrs)
      /\ ElfTables(phase, file, user_pages, pml4, free)
  BY DEF ElfInvariant, ElfFile
<1>3. /\ capacity \in Nat /\ StackPages \in Nat /\ ElfPage \in Nat \ {0} /\ StackBase \in Nat
      /\ Len(user_pages) \in Nat
  BY <1>2, ElfLimitIs DEF ElfRoom, ElfTables, Elf!ElfAssumption
<1>4. Len(phdrs) \in 0 .. Len(phdrs) /\ Len(phdrs) \in Nat
  BY <1>2
<1>5. check.pages \in Nat
  BY <1>1, <1>4 DEF ElfRounds, ElfRecord
<1>6. PICK c \in Nat : c = check.pages
  BY <1>5
<1>7. CASE phase \notin ElfBuilt
  BY <1>2, <1>3, <1>7 DEF ElfTables
<1>8. CASE phase = "load"
  <2>1. at.seg \in 1 .. Len(phdrs) + 1 /\ c + StackPages <= capacity
    BY <1>2, <1>6, <1>8 DEF ElfPlace, ElfRoom, ElfBuilt
  <2>2. CASE at.seg \in 1 .. Len(phdrs)
    <3>1. PICK s \in 1 .. Len(phdrs) : s = at.seg
      BY <2>2
    <3>2. Len(user_pages) <= g[s].pages
      BY <1>1, <1>8, <3>1, ElfWalked
    <3>3. s \in 0 .. Len(phdrs) /\ s <= Len(phdrs)
      BY <1>4
    <3>4. g[s].pages \in Nat /\ g[s].pages <= c
      BY <1>1, <1>4, <1>6, <3>3 DEF ElfRounds, ElfRecord
    <3>5. QED
      BY <1>3, <2>1, <3>2, <3>4
  <2>3. CASE at.seg = Len(phdrs) + 1
    <3>1. at.va = None
      BY <1>2, <1>4, <1>8, <2>3 DEF ElfPlace
    <3>2. PICK n \in Nat : Len(user_pages) = g[at.seg - 1].pages + n /\ n = 0
      BY <1>1, <1>8, <3>1 DEF ElfCounted
    <3>3. at.seg - 1 = Len(phdrs)
      BY <1>4, <2>3
    <3>4. Len(user_pages) = c
      BY <1>1, <1>6, <3>2, <3>3
    <3>5. QED
      BY <1>3, <2>1, <3>4
  <2>4. QED
    BY <1>4, <2>1, <2>2, <2>3
<1>9. CASE phase \in {"stack", "published"}
  <2>1. at.va <= ElfStackEnd /\ c + StackPages <= capacity
    BY <1>2, <1>6, <1>9 DEF ElfPlace, ElfRoom, ElfBuilt
  <2>2. PICK n \in Nat : Len(user_pages) = c + n /\ at.va = StackBase + n * ElfPage
    BY <1>1, <1>6, <1>9 DEF ElfCounted
  <2>3. n * ElfPage \in Nat /\ StackPages * ElfPage \in Nat
    BY <1>3
  <2>4. n * ElfPage <= StackPages * ElfPage
    BY <1>3, <2>1, <2>2, <2>3 DEF ElfStackEnd
  <2>5. n <= StackPages
    BY <1>3, <2>4, ElfTimes
  <2>6. QED
    BY <1>3, <2>1, <2>2, <2>5
<1>10. QED
  BY <1>7, <1>8, <1>9 DEF ElfBuilt

(* Nothing outside the file is read.                                       *)
LEMMA ElfReads ==
  ASSUME Elf!ElfAssumption, Elf!FileAssumption, ElfInvariant
  PROVE  Elf!ReadsInFile
<1>1. ASSUME phdrs # <<>> PROVE file.phoff + Len(phdrs) * PhdrSize <= file.size
  <2>1. /\ phdrs \in Seq(Phdrs) /\ file \in FileHeaders /\ Elf!HeaderOk(file) /\ Len(phdrs) <= file.phnum
    BY <1>1 DEF ElfInvariant, ElfFile
  <2>2. PICK n \in Nat : n = file.phnum
    BY <2>1, ElfHeaderIs
  <2>3. PICK o \in Nat : o = file.phoff
    BY <2>1, ElfHeaderIs
  <2>4. PICK z \in Nat : z = file.size
    BY <2>1, ElfHeaderIs
  <2>5. n * PhdrSize <= z - o /\ o <= z
    BY <2>1, <2>2, <2>3, <2>4 DEF Elf!HeaderOk, Elf!file_range
  <2>6. PICK m \in Nat : m = Len(phdrs) /\ m <= n
    BY <2>1, <2>2
  <2>7. PhdrSize \in Nat
    BY DEF Elf!FileAssumption
  <2>8. PhdrSize * m <= PhdrSize * n
    BY <2>6, <2>7, Times
  <2>9. m * PhdrSize = PhdrSize * m /\ n * PhdrSize = PhdrSize * n /\ m * PhdrSize \in Nat /\ n * PhdrSize \in Nat
    BY <2>7
  <2>10. o + m * PhdrSize <= z
    BY <2>5, <2>8, <2>9
  <2>11. QED
    BY <2>3, <2>4, <2>6, <2>10
<1>2. \A i \in DOMAIN user_pages : \A b \in 0 .. ElfPage - 1 :
        user_pages[i].bytes[b] = Elf!Zero \/ user_pages[i].bytes[b] < file.size
  BY DEF ElfInvariant, ElfTables
<1>3. QED
  BY <1>1, <1>2 DEF Elf!ReadsInFile

(* The stack keeps its guards.                                             *)
LEMMA ElfGuarded ==
  ASSUME Elf!ElfAssumption, Elf!FileAssumption, ElfInvariant
  PROVE  Elf!StackGuarded
<1>1. SUFFICES ASSUME phase \in {"stack", "published"}
               PROVE  pml4[StackBase - ElfPage] = None /\ pml4[ElfStackEnd] = None
  BY DEF Elf!StackGuarded, ElfStackEnd
<1>2. /\ at.va \in ElfAligned /\ at.va <= ElfStackEnd
      /\ \A v \in Elf!StackArea : \A k : ~ ElfHas(phdrs, at, k, v)
      /\ \A v \in Elf!PageVas :
            pml4[v] # None => (\E k : ElfHas(phdrs, at, k, v)) \/ ElfStackHas(phase, at, v)
  BY <1>1 DEF ElfInvariant, ElfPlace, ElfMapped, ElfBuilt
<1>3. /\ StackBase \in Nat /\ ElfPage \in Nat \ {0} /\ ElfStackEnd \in Nat /\ StackBase <= ElfStackEnd
      /\ StackBase - ElfPage \in ElfAligned /\ ElfStackEnd \in ElfAligned /\ at.va \in Nat
  BY <1>2, ElfAlignedIs, ElfStackIs, ElfPagesAre DEF Elf!ElfAssumption
<1>4. /\ StackBase - ElfPage \in Elf!StackArea /\ ElfStackEnd \in Elf!StackArea
      /\ Elf!StackArea \subseteq Elf!PageVas
  <2>1. StackBase - ElfPage <= StackBase - ElfPage /\ StackBase - ElfPage <= ElfStackEnd
        /\ ElfStackEnd <= ElfStackEnd
    BY <1>3
  <2>2. QED
    BY <1>3, <2>1, ElfStackIs
<1>5. ~ ElfStackHas(phase, at, StackBase - ElfPage) /\ ~ ElfStackHas(phase, at, ElfStackEnd)
  BY <1>2, <1>3 DEF ElfStackHas
<1>6. QED
  BY <1>2, <1>4, <1>5

(* An accepted file is accepted again, and finds its pages free.           *)
LEMMA ElfLoadsOn ==
  ASSUME Elf!ElfAssumption, Elf!FileAssumption, ElfInvariant
  PROVE  Elf!ValidatedLoads
<1>1. ASSUME phase = "validate", check.entry_found
      PROVE  Elf!elf_validate(file, phdrs, Elf!ReservedPages(check.pages + StackPages) - StackPages)
  <2>1. PICK g : ElfRounds(file, phdrs, g) /\ g[Len(phdrs)] = check
    BY DEF ElfInvariant
  <2>2. phdrs \in Seq(Phdrs) /\ Elf!HeaderOk(file)
    BY <1>1 DEF ElfInvariant, ElfFile
  <2>3. Len(phdrs) \in 0 .. Len(phdrs)
    BY <2>2
  <2>4. check \in ElfRecord /\ check.pages <= ElfLimit
    BY <2>1, <2>3 DEF ElfRounds
  <2>5. /\ check.pages \in Nat /\ StackPages \in Nat /\ check.pages + StackPages \in Nat
        /\ check.pages + StackPages <= ElfPages
    BY <2>4, ElfLimitIs DEF ElfRecord
  <2>6. PICK n \in Nat : n = Elf!ReservedPages(check.pages + StackPages) /\ check.pages + StackPages <= n
    <3>1. InlinePages \in Nat
      BY DEF Elf!ElfAssumption
    <3>2. /\ Elf!ReservedPages(check.pages + StackPages) \in InlinePages .. ElfPages
          /\ check.pages + StackPages <= Elf!ReservedPages(check.pages + StackPages)
      BY <2>5, ElfReserved
    <3>3. QED
      BY <3>1, <3>2, ElfLimitIs
  <2>7. n - StackPages \in Nat /\ check.pages <= n - StackPages
    BY <2>5, <2>6
  <2>8. Elf!elf_validate(file, phdrs, n - StackPages)
    BY <1>1, <2>1, <2>2, <2>7, ElfAgain
  <2>9. QED
    BY <2>6, <2>8
<1>2. ASSUME phase = "load", at.seg <= Len(phdrs), Elf!Loads(Elf!Segment),
             Elf!Page < Elf!Segment.vaddr + Elf!Segment.memsz
      PROVE  pml4[Elf!Page] = None
  BY <1>2, ElfUnmapped
<1>3. QED
  BY <1>1, <1>2 DEF Elf!ValidatedLoads

(* The invariant is what is promised.                                      *)
LEMMA ElfMeans ==
  ASSUME Elf!ElfAssumption, Elf!FileAssumption, ElfInvariant
  PROVE  Elf!Safety
<1>1. ElfTables(phase, file, user_pages, pml4, free)
  BY DEF ElfInvariant
<1>2. /\ user_pages \in Seq(ElfFrame) /\ free \in Nat /\ free + Len(user_pages) = ElfFrames
      /\ \A i \in DOMAIN user_pages : user_pages[i].va \in Elf!PageVas
  <2>1. user_pages \in Seq(ElfFrame) /\ free \in Nat /\ free + Len(user_pages) = ElfFrames
    BY <1>1 DEF ElfTables
  <2>2. \A i \in DOMAIN user_pages : user_pages[i] \in ElfFrame
    BY <2>1
  <2>3. \A f \in ElfFrame : f.va \in Elf!PageVas
    BY DEF ElfFrame
  <2>4. QED
    BY <2>1, <2>2, <2>3
<1>3. Len(user_pages) \in Nat /\ ElfFrames \in Nat
  BY <1>2 DEF Elf!FileAssumption
<1>4. free \in 0 .. ElfFrames
  BY <1>2, <1>3
<1>5. Elf!TypeOK
  BY <1>1, <1>2, <1>4, ElfFits DEF Elf!TypeOK, ElfInvariant, ElfFile, ElfRoom, ElfTables
<1>6. Elf!NothingLeaks
  <2>1. ASSUME phase \in {"refused", "failed"} PROVE free = ElfFrames
    <3>1. user_pages = <<>>
      BY <1>1, <2>1 DEF ElfTables, ElfBuilt
    <3>2. QED
      BY <1>2, <3>1
  <2>2. QED
    BY <1>2, <2>1 DEF Elf!NothingLeaks
<1>7. QED
  BY <1>5, <1>6, ElfReads, ElfExact, ElfStartsIn, ElfGuarded, ElfLoadsOn DEF Elf!Safety

(* elf_validate.c, elf.c, task.c, for any file, size of a page and number  *)
(* of frames: nothing outside the file is read, an accepted file loads     *)
(* byte by byte as its headers say unless memory runs out, it starts in    *)
(* its own code above a guarded stack, a failure gives everything back.    *)
THEOREM ImageAlwaysSafe == Elf!Spec => []ImageSafe
<1>1. Elf!ElfAssumption /\ Elf!FileAssumption
  BY ImageAssumption
<1>2. Elf!Init => ElfInvariant
  BY <1>1, ElfStarts
<1>3. ElfInvariant /\ [Elf!Next]_(Elf!vars) => ElfInvariant'
  BY <1>1, ElfSteps
<1>4. ElfInvariant => ImageSafe
  BY <1>1, ElfMeans DEF ImageSafe
<1>. QED
  BY <1>2, <1>3, <1>4, PTL DEF Elf!Spec
=============================================================================
