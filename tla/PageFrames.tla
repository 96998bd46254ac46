----------------------------- MODULE PageFrames -----------------------------
(***************************************************************************)
(* The physical memory manager, mm/pmm.c: a bitmap and a reference count   *)
(* per frame, laid out in the memory they describe.                        *)
(*                                                                         *)
(* pmm_init is the initial state, computed from the firmware's map; the    *)
(* calls hold the mutation lock from beginning to end and are one action   *)
(* each.  Callers give back and share frames they hold, and make calls the *)
(* manager must ignore: for frame zero, for reserved or free frames, for   *)
(* addresses beyond its memory.  held is what callers hold.                *)
(***************************************************************************)
EXTENDS Integers, Sequences, FiniteSets, FiniteSetsExt

CONSTANTS
  Maps,         \* firmware maps: sequences of [type, base, length], in bytes
  PageSize,
  Reserved,     \* UINT32_MAX, the count of a frame that is never released
  Counts,       \* bound: sizes asked of pmm_alloc_contiguous_pages
  None

Areas == [type : {"usable", "reclaimable", "kernel", "reserved"}, base : Nat, length : Nat]

PageAssumption ==
  /\ Maps \subseteq Seq(Areas)
  /\ PageSize \in Nat \ {0}
  /\ Reserved \in Nat /\ Reserved > 2
  /\ Counts \subseteq Nat
  /\ None \notin Nat

VARIABLES
  map,                  \* memmap_request.response
  total_pages,
  metadata,             \* first frame and number of frames of bitmap and refcounts
  bitmap,               \* frames whose bit is set
  refcounts,
  free_pages,
  last_alloc_index,
  held,                 \* per frame, references callers own
  last                  \* the call before: how many frames were asked for, and the first or None

vars == <<map, total_pages, metadata, bitmap, refcounts, free_pages, last_alloc_index, held, last>>

Pages == 0 .. total_pages - 1
NoCall == [count |-> 0, at |-> None]

(***************************************************************************)
(* pmm_init                                                                *)
(***************************************************************************)
Up(n, unit) == (n + unit - 1) \div unit

HighestAddress(mm) ==
  Max({0} \cup {mm[k].base + mm[k].length : k \in {j \in DOMAIN mm :
                  mm[j].type \in {"usable", "reclaimable", "kernel"}}})

TotalPages(mm) == Up(HighestAddress(mm), PageSize)

(* The bitmap, then 32-bit counts at the next multiple of four. *)
MetadataPages(mm) == Up(4 * Up(Up(TotalPages(mm), 8), 4) + 4 * TotalPages(mm), PageSize)

\* Mutant: a frame that the range only touches is taken too.
FirstPage_Down(e) == Max({e.base \div PageSize, 1})

FirstPage(e) == Max({Up(e.base, PageSize), 1})

EndPage(e) == (e.base + e.length) \div PageSize

Usable(mm) == {k \in DOMAIN mm : mm[k].type = "usable"}

(* The first usable range that is large enough; none stops the boot. *)
MetadataStart(mm) ==
  LET big == {k \in Usable(mm) : EndPage(mm[k]) - FirstPage(mm[k]) >= MetadataPages(mm)}
  IN  IF big = {} THEN None ELSE FirstPage(mm[Min(big)])

Metadata(mm) == MetadataStart(mm) .. MetadataStart(mm) + MetadataPages(mm) - 1

FreeAtStart(mm) ==
  (UNION {FirstPage(mm[k]) .. EndPage(mm[k]) - 1 : k \in Usable(mm)}) \ Metadata(mm)

Init ==
  /\ map \in {mm \in Maps : MetadataStart(mm) # None}
  /\ total_pages = TotalPages(map)
  /\ metadata = Metadata(map)
  /\ bitmap = Pages \ FreeAtStart(map)
  /\ refcounts = [p \in Pages |-> IF p \in FreeAtStart(map) THEN 0 ELSE Reserved]
  /\ free_pages = Cardinality(FreeAtStart(map))
  /\ last_alloc_index = 0
  /\ held = [p \in Pages |-> 0]
  /\ last = NoCall

(***************************************************************************)
(* Allocation                                                              *)
(***************************************************************************)
Take(frames, count) ==
  /\ bitmap' = bitmap \cup frames
  /\ refcounts' = [p \in Pages |-> IF p \in frames THEN 1 ELSE refcounts[p]]
  /\ free_pages' = free_pages - count
  /\ held' = [p \in Pages |-> IF p \in frames THEN held[p] + 1 ELSE held[p]]
  /\ last' = [count |-> count, at |-> Min(frames)]
  /\ UNCHANGED <<map, total_pages, metadata>>

NoMemory(count) ==
  /\ last' = [count |-> count, at |-> None]
  /\ UNCHANGED <<map, total_pages, metadata, bitmap, refcounts, free_pages,
                 last_alloc_index, held>>

\* Mutant: the search ends at the last frame.
Rounds_NoWrap == {i \in Pages : last_alloc_index + i < total_pages
                                /\ (last_alloc_index + i) \notin bitmap}

(* Rounds of pmm_alloc_page's loop that meet a clear bit. *)
Rounds == {i \in Pages : ((last_alloc_index + i) % total_pages) \notin bitmap}

pmm_alloc_page ==
  \/ /\ Rounds # {}
     /\ LET idx == (last_alloc_index + Min(Rounds)) % total_pages
        IN  /\ Take({idx}, 1)
            /\ last_alloc_index' = idx + 1
  \/ Rounds = {} /\ NoMemory(1)

(* The scan for count clear bits in a row: run and start_idx after the     *)
(* first n frames, until run is count.                                     *)
\* Mutant: a set bit does not end the run.
Scan_KeepsRun(count) ==
  LET scan[n \in 0 .. total_pages] ==
        IF n = 0 THEN [run |-> 0, start |-> 0]
        ELSE LET s == scan[n - 1]
             IN  IF s.run = count \/ n - 1 \in bitmap THEN s
                 ELSE [run |-> s.run + 1, start |-> IF s.run = 0 THEN n - 1 ELSE s.start]
  IN  scan[total_pages]

Scan(count) ==
  LET scan[n \in 0 .. total_pages] ==
        IF n = 0 THEN [run |-> 0, start |-> 0]
        ELSE LET s == scan[n - 1]
             IN  IF s.run = count THEN s
                 ELSE IF n - 1 \in bitmap THEN [s EXCEPT !.run = 0]
                 ELSE [run |-> s.run + 1, start |-> IF s.run = 0 THEN n - 1 ELSE s.start]
  IN  scan[total_pages]

pmm_alloc_contiguous_pages(count) ==
  \/ /\ count = 0 \/ count > free_pages
     /\ NoMemory(count)
  \/ /\ count = 1 /\ count <= free_pages
     /\ pmm_alloc_page
  \/ /\ count > 1 /\ count <= free_pages
     /\ \/ /\ Scan(count).run = count
           /\ Take(Scan(count).start .. Scan(count).start + count - 1, count)
           /\ UNCHANGED last_alloc_index
        \/ /\ Scan(count).run # count
           /\ NoMemory(count)

(***************************************************************************)
(* References.  p is the number of the frame of the address.               *)
(***************************************************************************)
\* Mutant: a reserved frame counts as allocated.
allocated_frame_Reserved(p) == p # 0 /\ p < total_pages /\ p \in bitmap /\ refcounts[p] # 0

allocated_frame(p) ==
  p # 0 /\ p < total_pages /\ p \in bitmap /\ refcounts[p] \notin {0, Reserved}

\* Mutant: the last reference leaves the bit set.
Release_KeepsBit(p) ==
  /\ refcounts' = [refcounts EXCEPT ![p] = @ - 1]
  /\ free_pages' = IF refcounts[p] = 1 THEN free_pages + 1 ELSE free_pages
  /\ UNCHANGED bitmap

Release(p) ==
  /\ refcounts' = [refcounts EXCEPT ![p] = @ - 1]
  /\ \/ /\ refcounts[p] = 1
        /\ bitmap' = bitmap \ {p}
        /\ free_pages' = free_pages + 1
     \/ refcounts[p] # 1 /\ UNCHANGED <<bitmap, free_pages>>

(* A caller gives back what it holds, or makes a call for a frame nobody   *)
(* holds, reserved, free or beyond the memory, which must do nothing.      *)
pmm_free_page(p) ==
  /\ \/ allocated_frame(p) /\ Release(p)
     \/ ~allocated_frame(p) /\ UNCHANGED <<bitmap, refcounts, free_pages>>
  /\ held' = [q \in Pages |-> IF q = p /\ held[q] > 0 THEN held[q] - 1 ELSE held[q]]
  /\ last' = NoCall
  /\ UNCHANGED <<map, total_pages, metadata, last_alloc_index>>

pmm_ref_page(p) ==
  /\ p \in Pages
  /\ \/ /\ allocated_frame(p) /\ refcounts[p] # Reserved - 1
        /\ refcounts' = [refcounts EXCEPT ![p] = @ + 1]
        /\ held' = [held EXCEPT ![p] = @ + 1]
     \/ /\ ~allocated_frame(p) \/ refcounts[p] = Reserved - 1
        /\ UNCHANGED <<refcounts, held>>
  /\ last' = NoCall
  /\ UNCHANGED <<map, total_pages, metadata, bitmap, free_pages, last_alloc_index>>

Next ==
  \/ pmm_alloc_page
  \/ \E n \in Counts : pmm_alloc_contiguous_pages(n)
  \/ \E p \in 0 .. total_pages : pmm_free_page(p) \/ pmm_ref_page(p)

Spec == Init /\ [][Next]_vars

(***************************************************************************)
(* Properties                                                              *)
(***************************************************************************)
(* Type invariant.                                                         *)
TypeOK ==
  /\ map \in Maps
  /\ total_pages \in Nat
  /\ metadata \subseteq Pages
  /\ bitmap \subseteq Pages
  /\ refcounts \in [Pages -> 0 .. Reserved]
  /\ free_pages \in 0 .. total_pages
  /\ last_alloc_index \in 0 .. total_pages
  /\ held \in [Pages -> Nat]
  /\ last.count \in Nat /\ last.at \in Pages \cup {None}

(* Bitmap, counts and the number of free frames tell the same story: a bit *)
(* is clear exactly when the count is zero, and free_pages counts them     *)
(* (pmm_alloc_contiguous_pages trusts it before it searches).              *)
CountsAgree ==
  /\ \A p \in Pages : p \in bitmap <=> refcounts[p] # 0
  /\ free_pages = Cardinality(Pages \ bitmap)

(* A frame's count is what callers hold of it; stray calls change nothing, *)
(* and a frame that was reserved at the start stays reserved.              *)
RefsAreHeld ==
  \A p \in Pages :
     IF p \in FreeAtStart(map) THEN refcounts[p] = held[p]
     ELSE refcounts[p] = Reserved /\ held[p] = 0

ByteRange(p) == p * PageSize .. (p + 1) * PageSize - 1

(* Nothing is handed out, and nothing taken for the manager's own bitmap   *)
(* and counts, that the firmware did not call usable or that lies in frame *)
(* zero (its address is NULL); what is handed out does not hold those      *)
(* tables, and they fit in the frames set aside for them.                  *)
OnlyUsable ==
  /\ \A p \in metadata \cup {q \in Pages : held[q] > 0} :
       /\ p # 0
       /\ \E k \in DOMAIN map : map[k].type = "usable" /\
            ByteRange(p) \subseteq map[k].base .. map[k].base + map[k].length - 1
  /\ \A p \in metadata : held[p] = 0
  /\ Cardinality(metadata) * PageSize >= Up(total_pages, 8) + 4 * total_pages

(* An allocation fails only if there really is no run of that many free    *)
(* frames, and one that succeeds has taken such a run.                     *)
OutOfMemoryIsReal ==
  last.count > 0 =>
    /\ last.at = None =>
         ~\E s \in Pages : \A p \in s .. s + last.count - 1 : p \in Pages \ bitmap
    /\ last.at # None => last.at + last.count <= total_pages

(* An allocation never takes a frame that somebody still holds.            *)
NeverTakenTwice ==
  [][last'.count > 0 => \A p \in Pages : held[p] > 0 => held'[p] = held[p]]_vars

(* The safety invariants together: bitmap, counts and holders agree, and   *)
(* a refusal is justified.                                                 *)
Safety ==
  /\ TypeOK
  /\ CountsAgree
  /\ RefsAreHeld
  /\ OnlyUsable
  /\ OutOfMemoryIsReal
=============================================================================
