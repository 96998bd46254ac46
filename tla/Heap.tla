-------------------------------- MODULE Heap --------------------------------
(***************************************************************************)
(* The kernel heap, mm/heap.c.  Every call holds the mutation lock, so a   *)
(* call is a step.  The linked list of headers is the sequence blocks; mem *)
(* is the memory itself, byte by byte, where a byte holds a header, what   *)
(* an owner wrote, or nothing of interest.  Frames come from the physical  *)
(* allocator, which may have none left at any time.                        *)
(***************************************************************************)
EXTENDS Integers, Sequences

CONSTANTS
  Owners,         \* callers, each with at most one allocation
  Sizes,          \* the sizes they ask for
  Align,          \* 16
  HeaderSize,     \* sizeof(struct heap_block)
  InitialSize,    \* HEAP_INITIAL_SIZE
  GrowSize,       \* HEAP_GROW_SIZE
  MaxGrows        \* bound: the heap grows this often

SizesAssumption == Sizes \subseteq Nat
LayoutAssumption ==
  /\ Align \in Nat \ {0} /\ HeaderSize \in Nat \ {0} /\ MaxGrows \in Nat
  /\ \A n \in {HeaderSize, InitialSize, GrowSize} : n \in Nat /\ n % Align = 0
  /\ InitialSize > HeaderSize /\ GrowSize > HeaderSize
ASSUME HeapAssumption == SizesAssumption /\ LayoutAssumption

VARIABLES
  blocks, heap_end,
  mem,
  hold      \* per owner: its pointer and the size it may use, or Nothing

vars == <<blocks, heap_end, mem, hold>>

MaxEnd == InitialSize + MaxGrows * GrowSize
Nothing == [ptr |-> 0, n |-> 0]
Header == "header"

(* heap_init; addresses count from HEAP_START_VIRTUAL                      *)
Init ==
  /\ blocks = <<[at |-> 0, size |-> InitialSize - HeaderSize, free |-> TRUE]>>
  /\ heap_end = InitialSize
  /\ mem = [a \in 0 .. MaxEnd - 1 |-> IF a < HeaderSize THEN Header ELSE "any"]
  /\ hold = [o \in Owners |-> Nothing]

-----------------------------------------------------------------------------
Rounded(n) == ((n + Align - 1) \div Align) * Align

(* heap_grow, k times: the new pages join a free last block or become one. *)
Grown(bs, k) ==
  LET last == bs[Len(bs)] IN
    CASE k = 0 -> bs
      [] k > 0 /\ last.free -> [bs EXCEPT ![Len(bs)].size = @ + k * GrowSize]
      [] OTHER -> Append(bs, [at |-> heap_end, size |-> k * GrowSize - HeaderSize, free |-> TRUE])

Fits(bs, n) == {i \in DOMAIN bs : bs[i].free /\ bs[i].size >= n}

First(s) == CHOOSE i \in s : \A j \in s : i <= j

Splits(b, n) == b.size > n + HeaderSize

(* The search of kmalloc, with the split                                   *)
\* Mutant: the rest is longer by its header.
Taken_Overlong(bs, i, n) ==
  LET b == bs[i] IN
    IF Splits(b, n)
      THEN SubSeq(bs, 1, i - 1)
             \o << [b EXCEPT !.size = n, !.free = FALSE],
                   [at |-> b.at + HeaderSize + n, size |-> b.size - n, free |-> TRUE] >>
             \o SubSeq(bs, i + 1, Len(bs))
      ELSE [bs EXCEPT ![i].free = FALSE]

Taken(bs, i, n) ==
  LET b == bs[i] IN
    IF Splits(b, n)
      THEN SubSeq(bs, 1, i - 1)
             \o << [b EXCEPT !.size = n, !.free = FALSE],
                   [at |-> b.at + HeaderSize + n, size |-> b.size - n - HeaderSize, free |-> TRUE] >>
             \o SubSeq(bs, i + 1, Len(bs))
      ELSE [bs EXCEPT ![i].free = FALSE]

Joined(bs, i) ==
  SubSeq(bs, 1, i - 1)
    \o << [bs[i] EXCEPT !.size = @ + HeaderSize + bs[i + 1].size] >>
    \o SubSeq(bs, i + 2, Len(bs))

JoinNext(bs, i) == IF i < Len(bs) /\ bs[i + 1].free THEN Joined(bs, i) ELSE bs

\* Mutant: only the block before is joined.
Freed_NoNext(bs, i) ==
  LET f == [bs EXCEPT ![i].free = TRUE] IN
    IF i > 1 /\ f[i - 1].free THEN Joined(f, i - 1) ELSE f

(* kfree: joined with the block before, then with the one after            *)
Freed(bs, i) ==
  LET f == [bs EXCEPT ![i].free = TRUE] IN
    IF i > 1 /\ f[i - 1].free THEN JoinNext(Joined(f, i - 1), i - 1) ELSE JoinNext(f, i)

BlockOf(bs, ptr) == CHOOSE i \in DOMAIN bs : bs[i].at + HeaderSize = ptr

HeaderBytes(bs) == UNION {b.at .. b.at + HeaderSize - 1 : b \in {bs[i] : i \in DOMAIN bs}}

Bytes(h) == UNION {h[o].ptr .. h[o].ptr + h[o].n - 1 : o \in Owners}

(* The memory m after the headers that the list bs has and blocks has not  *)
(* were written and an owner wrote its bytes from .. to; bytes of no       *)
(* header and no owner are of no interest.                                 *)
Written(m, bs, h, o, from, to) ==
  [a \in DOMAIN m |-> IF a \in from .. to THEN o
                      ELSE IF a \in HeaderBytes(bs) \ HeaderBytes(blocks) THEN Header
                      ELSE IF a \notin HeaderBytes(bs) \cup Bytes(h) THEN "any"
                      ELSE m[a]]

(***************************************************************************)
(* What kmalloc does for a rounded size: k growths before it fits, or k    *)
(* until the frames run out.                                               *)
(***************************************************************************)
Grows == 0 .. (MaxEnd - heap_end) \div GrowSize

Enough(n, k) == Fits(Grown(blocks, k), n) # {} /\ (k > 0 => Fits(Grown(blocks, k - 1), n) = {})

Allocated(n, k) == Taken(Grown(blocks, k), First(Fits(Grown(blocks, k), n)), n)
Address(n, k) == Grown(blocks, k)[First(Fits(Grown(blocks, k), n))].at + HeaderSize

kmalloc(o, n) ==
  /\ hold[o] = Nothing /\ n > 0
  /\ \E k \in Grows :
       /\ Enough(Rounded(n), k)
       /\ blocks' = Allocated(Rounded(n), k)
       /\ heap_end' = heap_end + k * GrowSize
       /\ LET p == Address(Rounded(n), k) IN
            /\ hold' = [hold EXCEPT ![o] = [ptr |-> p, n |-> n]]
            /\ mem' = Written(mem, blocks', hold', o, p, p + n - 1)

(* The heap keeps what it has grown by before the frames ran out.          *)
OutOfMemory(n) ==
  /\ \E k \in Grows :
       /\ Fits(Grown(blocks, k), Rounded(n)) = {}
       /\ blocks' = Grown(blocks, k) /\ heap_end' = heap_end + k * GrowSize
       /\ mem' = Written(mem, blocks', hold, "any", 1, 0)
  /\ UNCHANGED hold

kmalloc_fails(o, n) == hold[o] = Nothing /\ n > 0 /\ OutOfMemory(n)

kfree(o) ==
  /\ hold[o] # Nothing
  /\ blocks' = Freed(blocks, BlockOf(blocks, hold[o].ptr))
  /\ hold' = [hold EXCEPT ![o] = Nothing]
  /\ mem' = Written(mem, blocks', hold', o, 1, 0)
  /\ UNCHANGED heap_end

OldSize(o) == blocks[BlockOf(blocks, hold[o].ptr)].size

(* The block is large enough: the pointer stays.                           *)
krealloc_stays(o, n) ==
  /\ hold[o] # Nothing /\ n > 0 /\ OldSize(o) >= n
  /\ hold' = [hold EXCEPT ![o].n = n]
  /\ mem' = Written(mem, blocks, hold', o, hold[o].ptr + hold[o].n, hold[o].ptr + n - 1)
  /\ UNCHANGED <<blocks, heap_end>>

\* Mutant: the last byte is not copied.
Copied_Short(o, p) ==
  [a \in DOMAIN mem |-> IF a \in p .. p + hold[o].n - 2 THEN mem[a - p + hold[o].ptr] ELSE mem[a]]

Copied(o, p) ==
  [a \in DOMAIN mem |-> IF a \in p .. p + OldSize(o) - 1 THEN mem[a - p + hold[o].ptr] ELSE mem[a]]

\* Mutant: the old block is not freed.
Replaced_Keeps(bs, o) == bs

Replaced(bs, o) == Freed(bs, BlockOf(bs, hold[o].ptr))

(* A new block, the old bytes, then the old block is freed.                *)
krealloc_moves(o, n) ==
  /\ hold[o] # Nothing /\ OldSize(o) < n
  /\ \E k \in Grows :
       LET p == Address(Rounded(n), k)
           taken == Allocated(Rounded(n), k)
       IN  /\ Enough(Rounded(n), k)
           /\ blocks' = Replaced(taken, o)
           /\ heap_end' = heap_end + k * GrowSize
           /\ hold' = [hold EXCEPT ![o] = [ptr |-> p, n |-> n]]
           /\ mem' = Written(Written(Copied(o, p), taken, hold', o, p + hold[o].n, p + n - 1),
                             blocks', hold', o, 1, 0)

krealloc_fails(o, n) == hold[o] # Nothing /\ OldSize(o) < n /\ OutOfMemory(n)

Next ==
  \E o \in Owners :
    \/ kfree(o)
    \/ \E n \in Sizes :
         \/ kmalloc(o, n) \/ kmalloc_fails(o, n)
         \/ krealloc_stays(o, n) \/ krealloc_moves(o, n) \/ krealloc_fails(o, n)

Spec == Init /\ [][Next]_vars

-----------------------------------------------------------------------------
(* Blocks and pointers are inside the heap.                                *)
TypeOK ==
  /\ heap_end \in InitialSize .. MaxEnd
  /\ \A i \in DOMAIN blocks : /\ blocks[i].at \in 0 .. heap_end - 1
                              /\ blocks[i].size \in 0 .. heap_end
                              /\ blocks[i].free \in BOOLEAN
  /\ mem \in [0 .. MaxEnd - 1 -> Owners \cup {Header, "any"}]
  /\ \A o \in Owners : hold[o].ptr \in 0 .. heap_end - 1 /\ hold[o].n \in Sizes \cup {0}

(* The list describes the whole heap: each block begins where the one      *)
(* before ends, the last ends at heap_end, none is empty, and no two free  *)
(* blocks are neighbours, so no space is unreachable for being in pieces.  *)
Tiled ==
  /\ blocks[1].at = 0
  /\ \A i \in DOMAIN blocks :
       /\ blocks[i].size > 0 /\ blocks[i].size % Align = 0
       /\ blocks[i].at + HeaderSize + blocks[i].size
            = IF i < Len(blocks) THEN blocks[i + 1].at ELSE heap_end
       /\ blocks[i].free /\ i < Len(blocks) => ~blocks[i + 1].free

(* What an owner wrote stays as it is, through the calls of others and     *)
(* through its own krealloc, and no header is overwritten by an owner.     *)
Intact ==
  /\ \A o \in Owners : \A a \in hold[o].ptr .. hold[o].ptr + hold[o].n - 1 : mem[a] = o
  /\ \A a \in HeaderBytes(blocks) : mem[a] = Header

(* The blocks in use are exactly those somebody holds: a failing call      *)
(* loses none and a moving krealloc frees the old one.                     *)
NothingLost ==
  {blocks[i].at + HeaderSize : i \in {j \in DOMAIN blocks : ~blocks[j].free}}
    = {hold[o].ptr : o \in {q \in Owners : hold[q] # Nothing}}

(* heap.c: the list describes the whole heap, without free neighbours;     *)
(* contents survive split, merge, growth and move; nothing is lost.        *)
HeapSafe ==
  /\ TypeOK
  /\ Tiled
  /\ Intact
  /\ NothingLost
=============================================================================
