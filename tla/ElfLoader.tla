----------------------------- MODULE ElfLoader ------------------------------
(***************************************************************************)
(* From the bytes of an executable to an address space:                    *)
(*   fs/elf_validate.c  file_range, section_table_valid, elf_validate      *)
(*   fs/elf.c           elf_load                                           *)
(*   kernel/task.c      create_user_task around them, task_discard         *)
(*                                                                         *)
(* The file is whatever the archive holds.  It is chosen as the validator  *)
(* reads it: the header first, then one program header per round of its    *)
(* loop.  elf_load validates the same bytes again and takes one page at a  *)
(* time; every page and every mapping may fail.  A byte of the file is     *)
(* named by its offset, so a copied byte tells where it came from.  64-bit *)
(* values are numbers below Word and sums of them wrap.                    *)
(***************************************************************************)
EXTENDS Integers, Sequences, SequencesExt

CONSTANTS
  Headers,      \* bound: headers tried, with the size of their file
  Phdrs,        \* bound: program headers tried
  PageSize, UserEnd, Word,      \* ELF_PAGE_SIZE, ELF_USER_END, 2^64
  HeaderSize, PhdrSize, SectionSize,
  MaxPhdrs, MaxSections,        \* ELF_MAX_PROGRAM_HEADERS, 0xff00
  StackBase, StackPages,        \* USER_STACK_BASE, USER_STACK_PAGES
  MaxPages, InlinePages,        \* USER_MAX_PAGES, the page list inside a task
  Frames,       \* bound: frames free at the start
  None

Values == 0 .. Word - 1

(* The sizes a page list can have: it doubles.                             *)
Capacities == {c \in InlinePages .. MaxPages : \E k \in 0 .. MaxPages : c = InlinePages * 2 ^ k}

ElfAssumption ==
  /\ PageSize \in Nat \ {0} /\ UserEnd % PageSize = 0 /\ StackBase % PageSize = 0
  /\ UserEnd \in Nat /\ StackBase \in Nat /\ StackPages \in Nat /\ Word \in Nat
  /\ UserEnd + PageSize < Word
  /\ StackBase >= PageSize /\ StackBase + (StackPages + 1) * PageSize <= UserEnd
  /\ InlinePages \in Nat \ {0} /\ MaxPages \in Capacities /\ StackPages < MaxPages
FileAssumption ==
  /\ Headers \subseteq [ident : BOOLEAN, size : Values, entry : Values,
                        phoff : Values, phnum : Values, shoff : Values, shnum : Values,
                        shentsize : Values, shstrndx : Values]
  /\ Phdrs \subseteq [type : STRING, flags : SUBSET STRING, align : Values,
                      offset : Values, vaddr : Values, filesz : Values, memsz : Values]
  /\ PhdrSize \in Nat /\ MaxPhdrs \in Nat /\ Frames \in Nat
  /\ None \notin Headers /\ None \notin Int /\ None \notin [page : Nat, perm : SUBSET {"R", "W", "X"}]

Zero == -1      \* a byte that is zero, whatever the file holds

PageVas == {p * PageSize : p \in 0 .. (UserEnd \div PageSize) - 1}

VARIABLES
  phase,        \* where create_user_task is
  file,         \* elf_header_t and the size of the file
  phdrs,        \* the program headers read so far
  check,        \* elf_validate's locals
  capacity,     \* user_page_capacity
  at,           \* elf_load's loops: segment and page_va
  user_pages,   \* user_pages and user_vaddrs: the frames recorded, with their bytes
  pml4,         \* page -> frame, as an index of user_pages, and permissions
  free          \* frames the allocator has left

vars == <<phase, file, phdrs, check, capacity, at, user_pages, pml4, free>>

Unchecked == [ok |-> TRUE, pages |-> 0, previous_end |-> 0, entry_found |-> FALSE]

Init ==
  /\ phase = "header"
  /\ file = None
  /\ phdrs = <<>> /\ check = Unchecked
  /\ capacity = InlinePages
  /\ at = [seg |-> 1, va |-> None]
  /\ user_pages = <<>> /\ pml4 = [v \in PageVas |-> None] /\ free = Frames

Plus(a, b) == (a + b) % Word
PageOf(a) == a - (a % PageSize)

(***************************************************************************)
(* elf_validate                                                            *)
(***************************************************************************)
\* Mutant: the end of the range is computed, and wraps.
file_range_Wraps(size, offset, length) == Plus(offset, length) <= size

file_range(size, offset, length) == offset <= size /\ length <= size - offset

section_table_valid(h) ==
  IF h.shoff = 0
  THEN h.shnum = 0 /\ h.shstrndx = 0 /\ h.shentsize \in {0, SectionSize}
  ELSE /\ h.shoff >= HeaderSize /\ h.shnum \in 1 .. MaxSections - 1
       /\ h.shentsize = SectionSize /\ h.shstrndx < h.shnum
       /\ file_range(h.size, h.shoff, h.shnum * SectionSize)

(* ident stands for the fields that have one acceptable value. *)
HeaderOk(h) ==
  /\ h.size >= HeaderSize
  /\ h.ident
  /\ h.phnum \in 1 .. MaxPhdrs /\ h.phoff >= HeaderSize
  /\ file_range(h.size, h.phoff, h.phnum * PhdrSize)
  /\ section_table_valid(h)
  /\ h.entry >= PageSize /\ h.entry < UserEnd

PowerOfTwo(n) == \E k \in 0 .. n : 2 ^ k = n

EndOf(p) == PageOf(Plus(Plus(p.vaddr, p.memsz), PageSize - 1))

(* What a PT_LOAD must satisfy by itself. *)
LoadOk(p) ==
  /\ p.vaddr >= PageSize /\ p.vaddr < UserEnd /\ p.memsz <= UserEnd - p.vaddr
  /\ "R" \in p.flags
  /\ p.vaddr % PageSize = p.offset % PageSize
  /\ p.align > 1 => PowerOfTwo(p.align) /\ p.vaddr % p.align = p.offset % p.align

TypeSupported(p) ==
  \/ p.type \in {"load", "note"}
  \/ p.type = "stack" /\ "X" \notin p.flags

FlagsOk(p) ==
  /\ p.filesz <= p.memsz
  /\ p.flags \subseteq {"R", "W", "X"}
  /\ ~({"W", "X"} \subseteq p.flags)

\* Mutant: any byte of an executable segment may be the entry.
EntryIn_Bss(h, p) == "X" \in p.flags /\ h.entry >= p.vaddr /\ h.entry - p.vaddr < p.memsz

EntryIn(h, p) == "X" \in p.flags /\ h.entry >= p.vaddr /\ h.entry - p.vaddr < p.filesz

\* Mutant: a segment may begin in the last page of the one before.
Apart_Bytes(c, p) == p.vaddr >= c.previous_end \/ PageOf(p.vaddr) + PageSize = c.previous_end

Apart(c, p) == PageOf(p.vaddr) >= c.previous_end

(* One round of the loop over the program headers. *)
Checked(h, c, p, max_pages) ==
  LET count == (EndOf(p) - PageOf(p.vaddr)) \div PageSize
  IN  IF p.type = "null" THEN c
      ELSE IF ~TypeSupported(p) \/ ~file_range(h.size, p.offset, p.filesz)
      THEN [c EXCEPT !.ok = FALSE]
      ELSE IF p.type # "load" THEN c
      ELSE IF ~FlagsOk(p) THEN [c EXCEPT !.ok = FALSE]
      ELSE IF p.memsz = 0 THEN c
      ELSE IF ~LoadOk(p) \/ ~Apart(c, p) \/ count > max_pages - c.pages
      THEN [c EXCEPT !.ok = FALSE]
      ELSE [ok |-> TRUE, pages |-> c.pages + count, previous_end |-> EndOf(p),
            entry_found |-> c.entry_found \/ EntryIn(h, p)]

elf_validate(h, ps, max_pages) ==
  LET round[i \in 0 .. Len(ps)] ==
        IF i = 0 THEN Unchecked
        ELSE IF round[i - 1].ok THEN Checked(h, round[i - 1], ps[i], max_pages) ELSE round[i - 1]
  IN  HeaderOk(h) /\ round[Len(ps)].ok /\ round[Len(ps)].entry_found

(***************************************************************************)
(* create_user_task: validation before anything is allocated               *)
(***************************************************************************)
Refuse ==
  /\ phase' = "refused"
  /\ UNCHANGED <<file, phdrs, check, capacity, at, user_pages, pml4, free>>

ReadHeader(h) ==
  /\ phase = "header"
  /\ \/ /\ HeaderOk(h)
        /\ file' = h /\ phase' = "validate"
        /\ UNCHANGED <<phdrs, check, capacity, at, user_pages, pml4, free>>
     \/ ~HeaderOk(h) /\ Refuse

ReadPhdr(p) ==
  /\ phase = "validate" /\ Len(phdrs) < file.phnum
  /\ LET c == Checked(file, check, p, MaxPages - StackPages)
     IN  \/ /\ c.ok
            /\ check' = c /\ phdrs' = Append(phdrs, p)
            /\ UNCHANGED <<phase, file, capacity, at, user_pages, pml4, free>>
         \/ ~c.ok /\ Refuse

NoEntry ==
  /\ phase = "validate" /\ Len(phdrs) = file.phnum
  /\ ~check.entry_found
  /\ Refuse

(* fail: task_discard gives back every recorded frame and the tables. *)
Fail(pages, left) ==
  /\ phase' = "failed"
  /\ free' = left + Len(pages)
  /\ user_pages' = <<>> /\ pml4' = [v \in PageVas |-> None]

(* user_pages_reserve: the capacity doubles until it is enough. *)
ReservedPages(count) ==
  IF count <= InlinePages THEN InlinePages ELSE Min({c \in Capacities : c >= count})

(* Task, kernel stack, address space and page list; then elf_load with a   *)
(* second look at the file, for the capacity there is.                     *)
Construct ==
  /\ phase = "validate" /\ Len(phdrs) = file.phnum
  /\ check.entry_found
  /\ capacity' = ReservedPages(check.pages + StackPages)
  /\ \/ /\ phase' = IF elf_validate(file, phdrs, capacity' - StackPages)
                    THEN "load" ELSE "failed"
        /\ UNCHANGED <<user_pages, pml4, free>>
     \/ Fail(user_pages, free)
  /\ UNCHANGED <<file, phdrs, check, at>>

(***************************************************************************)
(* elf_load                                                                *)
(***************************************************************************)
Segment == phdrs[at.seg]
Loads(p) == p.type = "load" /\ p.memsz # 0
Page == IF at.va = None THEN PageOf(Segment.vaddr) ELSE at.va

\* Mutant: the file's bytes run on into the BSS.
Bytes_Overrun(p, va) ==
  LET copy_start == IF va < p.vaddr THEN p.vaddr ELSE va
      copy_end == Min({va + PageSize, p.vaddr + p.memsz})
  IN  [b \in 0 .. PageSize - 1 |->
         IF va + b \in copy_start .. copy_end - 1
         THEN p.offset + (copy_start - p.vaddr) + (va + b - copy_start) ELSE Zero]

(* The page at va of segment p: its part of the file, zero around it. *)
Bytes(p, va) ==
  LET copy_start == IF va < p.vaddr THEN p.vaddr ELSE va
      copy_end == Min({va + PageSize, p.vaddr + p.filesz})
  IN  [b \in 0 .. PageSize - 1 |->
         IF va + b \in copy_start .. copy_end - 1
         THEN p.offset + (copy_start - p.vaddr) + (va + b - copy_start) ELSE Zero]

\* Mutant: the frame is recorded once it is mapped.
TakePage_Late(va, bytes, perm) ==
  \/ /\ free > 0 /\ pml4[va] = None
     /\ user_pages' = Append(user_pages, [va |-> va, bytes |-> bytes])
     /\ pml4' = [pml4 EXCEPT ![va] = [page |-> Len(user_pages) + 1, perm |-> perm]]
     /\ free' = free - 1
     /\ UNCHANGED phase
  \/ /\ free > 0
     /\ Fail(user_pages, free - 1)
  \/ Fail(user_pages, free)

(* A frame, its record, its contents, its mapping: no frame, or no mapping *)
(* (the entry is taken or a table cannot be allocated), fails the task.    *)
TakePage(va, bytes, perm) ==
  \/ /\ free > 0 /\ pml4[va] = None
     /\ user_pages' = Append(user_pages, [va |-> va, bytes |-> bytes])
     /\ pml4' = [pml4 EXCEPT ![va] = [page |-> Len(user_pages) + 1, perm |-> perm]]
     /\ free' = free - 1
     /\ UNCHANGED phase
  \/ /\ free > 0
     /\ Fail(Append(user_pages, [va |-> va, bytes |-> bytes]), free - 1)
  \/ Fail(user_pages, free)

LoadPage ==
  /\ phase = "load" /\ at.seg <= Len(phdrs) /\ Loads(Segment)
  /\ Page < Segment.vaddr + Segment.memsz
  /\ TakePage(Page, Bytes(Segment, Page), Segment.flags)
  /\ at' = [at EXCEPT !.va = Page + PageSize]
  /\ UNCHANGED <<file, phdrs, check, capacity>>

NextSegment ==
  /\ phase = "load" /\ at.seg <= Len(phdrs)
  /\ ~Loads(Segment) \/ Page >= Segment.vaddr + Segment.memsz
  /\ at' = [seg |-> at.seg + 1, va |-> None]
  /\ UNCHANGED <<phase, file, phdrs, check, capacity, user_pages, pml4, free>>

(***************************************************************************)
(* create_user_task: the stack between its guards, then the task           *)
(***************************************************************************)
\* Mutant: the page below the stack is not looked at.
StackArea_NoGuard == {StackBase + i * PageSize : i \in 0 .. StackPages}

StackArea == {StackBase + i * PageSize : i \in -1 .. StackPages}

CheckStack ==
  /\ phase = "load" /\ at.seg > Len(phdrs)
  /\ \/ /\ \A v \in StackArea : pml4[v] = None
        /\ phase' = "stack" /\ at' = [at EXCEPT !.va = StackBase]
        /\ UNCHANGED <<user_pages, pml4, free>>
     \/ /\ \E v \in StackArea : pml4[v] # None
        /\ Fail(user_pages, free)
        /\ UNCHANGED at
  /\ UNCHANGED <<file, phdrs, check, capacity>>

StackPage ==
  /\ phase = "stack" /\ at.va < StackBase + StackPages * PageSize
  /\ TakePage(at.va, [b \in 0 .. PageSize - 1 |-> Zero], {"R", "W"})
  /\ at' = [at EXCEPT !.va = @ + PageSize]
  /\ UNCHANGED <<file, phdrs, check, capacity>>

Publish ==
  /\ phase = "stack" /\ at.va = StackBase + StackPages * PageSize
  /\ phase' = "published"
  /\ UNCHANGED <<file, phdrs, check, capacity, at, user_pages, pml4, free>>

Next ==
  \/ \E h \in Headers : ReadHeader(h)
  \/ \E p \in Phdrs : ReadPhdr(p)
  \/ NoEntry \/ Construct \/ LoadPage \/ NextSegment
  \/ CheckStack \/ StackPage \/ Publish

Spec == Init /\ [][Next]_vars

(***************************************************************************)
(* Properties                                                              *)
(***************************************************************************)
(* Type invariant; the page list stays within its capacity, so that the    *)
(* validator's count of pages and the loader's walk agree.                 *)
TypeOK ==
  /\ phase \in {"header", "validate", "refused", "load", "stack", "published", "failed"}
  /\ file \in Headers \cup {None}
  /\ phdrs \in Seq(Phdrs)
  /\ capacity \in InlinePages .. MaxPages
  /\ Len(user_pages) <= capacity
  /\ \A k \in DOMAIN user_pages : user_pages[k].va \in PageVas
  /\ \A v \in PageVas : pml4[v] # None => pml4[v].page \in DOMAIN user_pages
  /\ free \in 0 .. Frames

(* Neither the validator nor the loader reads outside the file: the        *)
(* program headers and every copied byte lie below its size, also for      *)
(* offsets near 2^64.                                                      *)
ReadsInFile ==
  /\ phdrs # <<>> => file.phoff + Len(phdrs) * PhdrSize <= file.size
  /\ \A k \in DOMAIN user_pages : \A b \in 0 .. PageSize - 1 :
        user_pages[k].bytes[b] = Zero \/ user_pages[k].bytes[b] < file.size

Covers(p, a) == p.type = "load" /\ a \in p.vaddr .. p.vaddr + p.memsz - 1
Nonempty == {p \in Range(phdrs) : Loads(p)}

(* What a program finds at address a of a finished address space. *)
ByteAt(a) == user_pages[pml4[PageOf(a)].page].bytes[a % PageSize]

(* A finished address space is what the program headers say, address by    *)
(* address: the file's bytes where a segment has them, zero in the rest of *)
(* its pages, that segment's permissions, the stack, and nothing else.     *)
ImageExact ==
  phase = "published" =>
    \A a \in 0 .. UserEnd - 1 :
      LET stack == PageOf(a) \in {StackBase + i * PageSize : i \in 0 .. StackPages - 1}
          owners == {p \in Nonempty : \E x \in 0 .. PageSize - 1 : Covers(p, PageOf(a) + x)}
      IN  IF stack THEN pml4[PageOf(a)].perm = {"R", "W"} /\ ByteAt(a) = Zero /\ owners = {}
          ELSE IF owners = {} THEN pml4[PageOf(a)] = None
          ELSE \A p \in owners :
                 /\ pml4[PageOf(a)].perm = p.flags
                 /\ ByteAt(a) = IF a \in p.vaddr .. p.vaddr + p.filesz - 1
                            THEN p.offset + (a - p.vaddr) ELSE Zero

(* The program starts in a byte of the file that it can execute, nothing   *)
(* it can execute can be written, and the pages around its stack are not   *)
(* mapped.                                                                 *)
StartsSafely ==
  phase = "published" =>
    /\ "X" \in pml4[PageOf(file.entry)].perm /\ ByteAt(file.entry) # Zero
    /\ \A v \in PageVas : pml4[v] # None => ~({"W", "X"} \subseteq pml4[v].perm)

(* The stack keeps an unmapped page below and above it.                    *)
StackGuarded ==
  phase \in {"stack", "published"} =>
    pml4[StackBase - PageSize] = None /\ pml4[StackBase + StackPages * PageSize] = None

(* Only memory can stop the loading of an accepted file: the second        *)
(* validation, for the capacity there is, agrees with the first, and no    *)
(* page that is taken is mapped already.                                   *)
ValidatedLoads ==
  /\ (phase = "load" /\ at.seg <= Len(phdrs) /\ Loads(Segment)
        /\ Page < Segment.vaddr + Segment.memsz) => pml4[Page] = None
  /\ (phase = "validate" /\ Len(phdrs) = file.phnum /\ check.entry_found)
       => elf_validate(file, phdrs, ReservedPages(check.pages + StackPages) - StackPages)

(* A task that could not be built leaves nothing behind: every frame taken *)
(* for it is free again, and a refused file never takes one.               *)
NothingLeaks ==
  /\ phase \in {"refused", "failed"} => free = Frames
  /\ free + Len(user_pages) = Frames

(* The safety invariants together: what is accepted loads as its headers   *)
(* say, what fails leaves nothing.                                         *)
Safety ==
  /\ TypeOK
  /\ ReadsInFile
  /\ ImageExact
  /\ StartsSafely
  /\ StackGuarded
  /\ ValidatedLoads
  /\ NothingLeaks
=============================================================================
