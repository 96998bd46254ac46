------------------------------ MODULE MCMemory ------------------------------
(***************************************************************************)
(* The kernel's memory with small constants (Memory.cfg).                  *)
(*                                                                         *)
(* The heap has units of two bytes; three owners fill it and grow it.      *)
(* Copies go between two pages of two bytes each, with three frames, one   *)
(* too few for a process and its copy to have two private pages each.      *)
(***************************************************************************)
EXTENDS Memory, TLC

CONSTANTS f1, f2, f3, f4       \* the frames of processes

(***************************************************************************)
(* Page frames: pages of sixteen bytes, up to ten of them, with ranges     *)
(* that begin or end inside a page, begin at zero, overlap, or are not     *)
(* memory.                                                                 *)
(***************************************************************************)
Area(type, base, length) == [type |-> type, base |-> base, length |-> length]

SmallMap == <<Area("reserved", 0, 16), Area("usable", 16, 24)>>
MCMaps ==
  {<<Area("usable", 0, 150), Area("reserved", 150, 60)>>,
   <<Area("usable", 8, 20), Area("kernel", 28, 4), Area("usable", 40, 120)>>,
   <<Area("usable", 0, 64), Area("usable", 48, 48), Area("reclaimable", 96, 8)>>,
   SmallMap}

(***************************************************************************)
(* Page tables of three levels: a root of four entries, two of them the    *)
(* kernel's, and tables of two.  The bootloader has left a table in the    *)
(* kernel half that holds a huge page, behind an entry without all the     *)
(* rights asked for.                                                       *)
(***************************************************************************)
Entry(kind, to) == [kind |-> kind, to |-> to]
Table(i, e) == [j \in 0 .. 3 |-> IF j = i THEN e ELSE Entry("none", 0)]
MCBootTables == (1 :> Table(2, Entry("closed", 2))) @@ (2 :> Table(0, Entry("large", 0)))

MCRanges == {<<3, 2>>, <<2, 1>>, <<24, 1>>, <<28, 1>>}

(***************************************************************************)
(* ELF files with pages of two bytes, addresses of five bits, five bytes   *)
(* long.  The first set of program headers is dense where two segments     *)
(* meet, share a page or straddle one; the others break one rule each,     *)
(* with offsets and sizes at the end of the word.                          *)
(***************************************************************************)
R == {"R"}
RX == {"R", "X"}
RW == {"R", "W"}

Phdr(type, offset, vaddr, filesz, memsz, flags, align) ==
  [type |-> type, offset |-> offset, vaddr |-> vaddr, filesz |-> filesz,
   memsz |-> memsz, flags |-> flags, align |-> align]

Dense == {Phdr("load", o, v, f, m, fl, 0) :
            o \in {1, 2}, v \in {3, 4, 6}, f \in 0 .. 2, m \in {1, 3}, fl \in {RX, RW}}

Code == Phdr("load", 2, 4, 2, 2, RX, 0)

Odd == {[Code EXCEPT !.type = t] : t \in {"null", "note", "stack", "dynamic"}}
       \cup {[Code EXCEPT !.flags = fl] : fl \in {R, {"X"}, {"R", "W", "X"}, {"R", "?"}}}
       \cup {[Code EXCEPT !.align = n] : n \in {1, 2, 3, 4}}
       \cup {[Code EXCEPT !.vaddr = v] : v \in {0, 8, 12, 14, 16, 30}}
       \cup {[Code EXCEPT !.offset = o] : o \in {4, 30}}
       \cup {[Code EXCEPT !.memsz = m] : m \in {0, 4, 5, 12, 28}}
       \cup {[Code EXCEPT !.filesz = n, !.memsz = n] : n \in {30}}
       \cup {Phdr("stack", 0, 0, 0, 0, RW, 0), Phdr("load", 31, 3, 1, 1, RX, 0),
             Phdr("load", 30, 4, 2, 2, RX, 0)}

Good == [ident |-> TRUE, size |-> 5, entry |-> 4, phoff |-> 1, phnum |-> 2,
         shoff |-> 0, shnum |-> 0, shentsize |-> 0, shstrndx |-> 0]

MCHeaders ==
  {Good, [Good EXCEPT !.phnum = 3], [Good EXCEPT !.entry = 5, !.phnum = 1],
   [Good EXCEPT !.shoff = 3, !.shnum = 2, !.shentsize = 1, !.shstrndx = 1, !.phnum = 1]}
  \cup {[Good EXCEPT !.ident = FALSE], [Good EXCEPT !.size = 0], [Good EXCEPT !.phnum = 0],
        [Good EXCEPT !.phnum = 4], [Good EXCEPT !.phoff = 0], [Good EXCEPT !.phoff = 31],
        [Good EXCEPT !.entry = 1], [Good EXCEPT !.entry = 16], [Good EXCEPT !.shnum = 1],
        [Good EXCEPT !.shoff = 31, !.shnum = 1, !.shentsize = 1],
        [Good EXCEPT !.shoff = 2, !.shnum = 1, !.shentsize = 1, !.shstrndx = 1]}

MCPhdrs == Dense \cup Odd

(***************************************************************************)
(* The memory of processes.  Page 1 is code, page 5 data inside the heap's *)
(* area, as an ELF image may place it.  Two processes with frames for      *)
(* allocations of two sizes beside the image, and three generations of     *)
(* processes that share two segments and are short of frames.              *)
(***************************************************************************)
MCImage == (1 :> "ro") @@ (5 :> "rw")

(* No operation tells one free frame from another.                         *)
Symmetric == Permutations({f1, f2, f3})
=============================================================================
