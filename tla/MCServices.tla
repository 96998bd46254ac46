----------------------------- MODULE MCServices -----------------------------
(***************************************************************************)
(* Services with small constants (Services.cfg): a ring of four slots;     *)
(* three blocks for two files that share buckets and need four; two slots  *)
(* of the key store for three names.                                       *)
(***************************************************************************)
EXTENDS Services, TLC

CONSTANTS p1, p2

(* An archive of a directory and one file "t".  For contents there is one  *)
(* more name, with buffers that grow and a chunk of one cell; for listings *)
(* two more names and three slots, on the same variables.                  *)
MCArchive == <<[name |-> "dir/", size |-> 0, dir |-> TRUE],
               [name |-> "t", size |-> 2, dir |-> FALSE]>>

(* Two files that share buckets, in a pool that is too small for both. *)
MCTag(n) == n
MCSize(n) == IF n = "f" THEN 3 ELSE 4
MCHash(n, b) == b % 2

(* Values of one block less a byte, of a whole block (which needs a second *)
(* one) and one that is too long.                                          *)
MCValues == {[id |-> 1, len |-> 3], [id |-> 2, len |-> 4], [id |-> 1, len |-> 8]}

(***************************************************************************)
(* A letter, a shift and the caps key, the prefixed shift and cursor codes *)
(* and Pause; mouse data with and without the bit that marks the first     *)
(* byte of a packet, both signs and an overflow.  With noise, reports of   *)
(* one byte: a lost prefix leaves the key behind it to be read as another  *)
(* key; no data byte looks like a first byte.                              *)
(***************************************************************************)
Plain(k) == {<<k>>, <<k + 128>>}
Prefixed(k) == {<<224, k>>, <<224, k + 128>>}

MCKeyReports == UNION {Plain(30), Plain(42), Plain(58), Prefixed(42), Prefixed(72),
                       {<<225, 29, 69, 225, 157, 197>>}}
MCPackets == {<<8, 255, 8>>, <<57, 1, 200>>, <<72, 8, 0>>}
MCNoisyReports == Plain(30) \cup Plain(54)
MCNoisyPackets == {<<8, 1, 2>>, <<57, 3, 247>>, <<200, 5, 0>>}

(* Processes are only compared. *)
Symmetric == Permutations({p1, p2})
=============================================================================
