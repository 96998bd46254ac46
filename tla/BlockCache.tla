----------------------------- MODULE BlockCache -----------------------------
(***************************************************************************)
(* The block cache between descriptors and the archive (fs/cache.c): a     *)
(* pool of entries, each valid one on one hash chain and on the LRU list.  *)
(*                                                                         *)
(* A call holds the mutation lock; one iteration of cache_read's loop is a *)
(* step, so that the structure is looked at between two blocks too.  The   *)
(* linked lists are sequences of pool indices.  A cell is the smallest     *)
(* piece a caller reads; the archive's cell i of file n is <<n, i>>.  The  *)
(* counters of hits, misses and evictions are left out.  Nothing in the    *)
(* kernel calls cache_invalidate and cache_flush_all yet.                  *)
(***************************************************************************)
EXTENDS Integers, Sequences, FiniteSets, SequencesExt

CONSTANTS
  Names,        \* file names
  Tag(_),       \* a name cut to CACHE_NAME_MAX - 1 characters
  Size(_),      \* file sizes in cells
  Hash(_, _),   \* cache_hash: name and block to a bucket
  Buckets,      \* CACHE_HASH_BUCKETS
  MaxBlocks,    \* CACHE_MAX_BLOCKS
  BlockSize,    \* CACHE_BLOCK_SIZE
  Counts,       \* bound: lengths asked for
  None

Pool == 0 .. MaxBlocks - 1

VARIABLES
  pool,         \* None or [name, block, data]; bytes_valid is the length of data
  hash_table,   \* bucket to chain
  lru,          \* lru_head first, lru_tail last
  free_hint,
  used_blocks,  \* stats.used_blocks
  rd            \* the cache_read under way: name, offset, count, what it has
                \* copied; want is history: the count it began with

vars == <<pool, hash_table, lru, free_hint, used_blocks, rd>>
cache == <<pool, hash_table, lru, free_hint, used_blocks>>

Init ==
  /\ pool = [i \in Pool |-> None]
  /\ hash_table = [b \in Buckets |-> <<>>]
  /\ lru = <<>> /\ free_hint = 0 /\ used_blocks = 0
  /\ rd = None

Smaller(a, b) == IF a < b THEN a ELSE b

(* A list without its node i, and without all nodes of a set. *)
Without(s, i) ==
  IF i \in Range(s) THEN RemoveAt(s, CHOOSE k \in DOMAIN s : s[k] = i) ELSE s

Kept(s, drop) ==
  LET kept[k \in 0 .. Len(s)] ==
        IF k = 0 THEN <<>>
        ELSE IF s[k] \in drop THEN kept[k - 1] ELSE Append(kept[k - 1], s[k])
  IN  kept[Len(s)]

\* Mutant: only the head of the chain is compared.
hash_lookup_Head(n, b) ==
  {i \in Range(hash_table[Hash(n, b)]) :
     i = hash_table[Hash(n, b)][1] /\ pool[i].name = n /\ pool[i].block = b}

\* Mutant: the name is taken to be what the bucket stands for.
hash_lookup_AnyName(n, b) ==
  LET found == {i \in Range(hash_table[Hash(n, b)]) : pool[i].block = b}
  IN  IF found = {} THEN {} ELSE {CHOOSE i \in found : TRUE}

hash_lookup(n, b) ==
  {i \in Range(hash_table[Hash(n, b)]) : pool[i].name = n /\ pool[i].block = b}

\* Mutant: the victim stays on its old chain.
hash_remove_Not(i) == hash_table

hash_remove(i) ==
  LET h == Hash(pool[i].name, pool[i].block)
  IN  [hash_table EXCEPT ![h] = Without(@, i)]

(* The block of the archive that fills an entry: at most a block, less at  *)
(* the end of the file.  The entry keeps what its tag has room for.        *)
Filled(n, b) ==
  [i \in 1 .. Smaller(BlockSize, Size(n) - b * BlockSize) |-> <<n, b * BlockSize + i - 1>>]

Entry(n, b) == [name |-> Tag(n), block |-> b, data |-> Filled(n, b)]

CacheAssumption ==
  /\ MaxBlocks \in Nat \ {0} /\ BlockSize \in Nat \ {0} /\ Counts \subseteq Nat
  /\ \A n \in Names :
       /\ Tag(n) \in Names /\ Size(n) \in Nat
       /\ \A b \in 0 .. Size(n) :
            /\ Entry(n, b) # None
            /\ \A m \in Names : Hash(m, b) \in Buckets

Invalid == {i \in Pool : pool[i] = None}

(* The first free slot from the hint on.                                   *)
Allocated ==
  LET k == CHOOSE k \in Pool :
             /\ (free_hint + k) % MaxBlocks \in Invalid
             /\ \A j \in Pool : j < k => (free_hint + j) % MaxBlocks \notin Invalid
  IN  (free_hint + k) % MaxBlocks

(* A missing block takes slot i, empty in the given chains and list.       *)
Insert(i, n, b, chains, list) ==
  /\ pool' = [pool EXCEPT ![i] = Entry(n, b)]
  /\ hash_table' = [chains EXCEPT ![Hash(Tag(n), b)] = <<i>> \o @]
  /\ lru' = <<i>> \o list

\* Mutant: a recycled slot counts as one more.
Recycled_Counts == used_blocks + 1

Recycled == used_blocks

cache_get_block(n, b) ==
  \/ \E i \in hash_lookup(n, b) :
       /\ lru' = <<i>> \o Without(lru, i)
       /\ UNCHANGED <<pool, hash_table, free_hint, used_blocks>>
  \/ /\ hash_lookup(n, b) = {} /\ Invalid # {}
     /\ Insert(Allocated, n, b, hash_table, lru)
     /\ free_hint' = (Allocated + 1) % MaxBlocks
     /\ used_blocks' = used_blocks + 1
  \/ /\ hash_lookup(n, b) = {} /\ Invalid = {}
     /\ Insert(Last(lru), n, b, hash_remove(Last(lru)), Front(lru))
     /\ used_blocks' = Recycled
     /\ UNCHANGED free_hint

cache_read(n, offset, count) ==
  /\ rd = None /\ offset < Size(n)
  /\ rd' = [name |-> n, offset |-> offset, count |-> Smaller(count, Size(n) - offset),
            want |-> Smaller(count, Size(n) - offset), out |-> <<>>]
  /\ UNCHANGED cache

(* One turn of the loop: the block, then the part of it that is asked for  *)
(* and valid; none valid ends the call early.                              *)
ReadBlock ==
  /\ rd # None /\ Len(rd.out) < rd.count
  /\ LET at == rd.offset + Len(rd.out)
         b == at \div BlockSize
         off == at % BlockSize
     IN  /\ cache_get_block(rd.name, b)
         /\ LET data == pool'[lru'[1]].data
                chunk == Smaller(Smaller(BlockSize - off, rd.count - Len(rd.out)),
                                 Len(data) - off)
            IN  rd' = IF off >= Len(data) THEN [rd EXCEPT !.count = Len(rd.out)]
                      ELSE [rd EXCEPT !.out = @ \o SubSeq(data, off + 1, off + chunk)]

ReadDone == rd # None /\ Len(rd.out) = rd.count /\ rd' = None /\ UNCHANGED cache

cache_invalidate(n) ==
  LET drop == {i \in Pool : pool[i] # None /\ pool[i].name = n}
  IN  /\ rd = None /\ drop # {}
      /\ pool' = [i \in Pool |-> IF i \in drop THEN None ELSE pool[i]]
      /\ hash_table' = [b \in Buckets |-> Kept(hash_table[b], drop)]
      /\ lru' = Kept(lru, drop)
      /\ used_blocks' = used_blocks - Cardinality(drop)
      /\ UNCHANGED <<free_hint, rd>>

cache_flush_all ==
  /\ rd = None
  /\ pool' = [i \in Pool |-> None]
  /\ hash_table' = [b \in Buckets |-> <<>>]
  /\ lru' = <<>> /\ free_hint' = 0 /\ used_blocks' = 0
  /\ UNCHANGED rd

Next ==
  \/ ReadBlock \/ ReadDone \/ cache_flush_all
  \/ \E n \in Names :
       \/ cache_invalidate(n)
       \/ \E o \in 0 .. Size(n) - 1 : \E k \in Counts : cache_read(n, o, k)

Spec == Init /\ [][Next]_vars

-----------------------------------------------------------------------------
(* Entries name files and blocks, the hint points into the pool, and a     *)
(* read never copies more than it was asked for.                           *)
TypeOK ==
  /\ \A i \in Pool : pool[i] # None => pool[i].name \in Names /\ Len(pool[i].data) <= BlockSize
  /\ free_hint \in Pool /\ used_blocks \in 0 .. MaxBlocks
  /\ rd # None => Len(rd.out) <= rd.count

(* The three structures agree in every state: a valid entry is on the LRU  *)
(* list once and on the chain of its key once, nothing else is on either,  *)
(* and used_blocks counts them.  So eviction always finds a victim.        *)
Linked ==
  LET valid == Pool \ Invalid IN
  /\ Range(lru) = valid /\ Len(lru) = Cardinality(valid) /\ used_blocks = Len(lru)
  /\ \A b \in Buckets :
       /\ Range(hash_table[b]) = {i \in valid : Hash(pool[i].name, pool[i].block) = b}
       /\ Len(hash_table[b]) = Cardinality(Range(hash_table[b]))

(* No block of a file is cached twice.                                     *)
KeysUnique ==
  \A i, j \in Pool : pool[i] # None /\ pool[j] # None
    /\ pool[i].name = pool[j].name /\ pool[i].block = pool[j].block => i = j

(* A read returns the file's own bytes, all of those asked for: hits,      *)
(* evictions and invalidations never show another file or an old block.    *)
ReadsTheFile ==
  rd # None =>
    /\ \A k \in 1 .. Len(rd.out) : rd.out[k] = <<rd.name, rd.offset + k - 1>>
    /\ Len(rd.out) = rd.count => rd.count = rd.want

(* The safety invariants together: pool, chains and list agree and reads   *)
(* return the file.                                                        *)
Safety ==
  /\ TypeOK
  /\ Linked
  /\ KeysUnique
  /\ ReadsTheFile
=============================================================================
