----------------------------- MODULE MemoryCore -----------------------------
(***************************************************************************)
(* The memory that the kernel manages for itself, its heap and the page    *)
(* frames, and the memory it builds from an executable, on variables of    *)
(* their own; part says which of them moves.                               *)
(***************************************************************************)
EXTENDS Heap

CONSTANTS
  Maps, IdleMap, FramePage, Reserved, Counts, None,                  \* PageFrames
  FileHeaders, Phdrs, ElfPage, ElfUserEnd, ElfWord,                  \* ElfLoader
  EhdrSize, PhdrSize, SectionSize, MaxPhdrs, MaxSections,
  StackBase, StackPages, ElfPages, InlinePages, ElfFrames

VARIABLES
  part,
  map, total_pages, metadata, bitmap, refcounts, free_pages,         \* PageFrames
  last_alloc_index, held, last,
  phase, file, phdrs, check, capacity, at, user_pages, pml4, free    \* ElfLoader

frameVars == <<map, total_pages, metadata, bitmap, refcounts, free_pages, last_alloc_index, held, last>>
elfVars == <<phase, file, phdrs, check, capacity, at, user_pages, pml4, free>>

Physical == INSTANCE PageFrames WITH PageSize <- FramePage

Elf == INSTANCE ElfLoader WITH
  Headers <- FileHeaders, HeaderSize <- EhdrSize, PageSize <- ElfPage, MaxPages <- ElfPages,
  Frames <- ElfFrames, UserEnd <- ElfUserEnd, Word <- ElfWord

ASSUME FramesAssumption == Physical!PageAssumption /\ IdleMap \in Maps
ASSUME ImageAssumption == Elf!ElfAssumption /\ Elf!FileAssumption

(* pmm.c: bitmap, counts and holders agree, an allocation takes only what  *)
(* nobody holds, and a refusal means that there is no such run.            *)
FramesSafe == [](part = "frames" => Physical!Safety) /\ Physical!NeverTakenTwice

(* elf_validate.c, elf.c, task.c: nothing is read outside the file, an     *)
(* accepted file is loaded byte by byte as its headers say, starts in its  *)
(* own code with a guarded stack, and a failure gives everything back.     *)
ImageSafe == part = "elf" => Elf!Safety
=============================================================================
