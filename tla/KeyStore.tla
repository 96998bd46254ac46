------------------------------ MODULE KeyStore ------------------------------
(***************************************************************************)
(* The encrypted key store, security/keystore.c, as the system call uses   *)
(* it (sys_user_keystore in cpu/syscall_crypto.c).                         *)
(*                                                                         *)
(* The call copies its parameters first and then holds the mutation lock,  *)
(* so each call is one action.  Encryption is modelled by what decryption  *)
(* gives back: the value under the key it was stored with, garbage under   *)
(* another one.  A value is its length and an identity; the ciphertext is  *)
(* padded to whole blocks with at least one byte.  Names reach the store   *)
(* through copy_user_string, which refuses longer ones.                    *)
(***************************************************************************)
EXTENDS Integers, FiniteSetsExt

CONSTANTS
  Names, Passphrases, None,
  Values,       \* bound: [id, len] records
  Capacities,   \* bound: buffer sizes of callers
  MaxEntries,   \* KEYSTORE_MAX_ENTRIES
  MaxValue,     \* KEYSTORE_VAL_MAX
  Block,        \* AES_BLOCK_SIZE
  Garbage

KeyAssumption ==
  /\ Block \in Nat \ {0} /\ MaxEntries \in Nat \ {0}
  /\ MaxValue \in Nat /\ MaxValue % Block = 0 /\ MaxValue >= Block
  /\ None \notin Names /\ None \notin Values /\ \A v \in Values : v.len \in Nat

Slots == 1 .. MaxEntries
Code(c) == [code |-> c, value |-> None]

VARIABLES
  entries,      \* per slot: name, value, the key it was encrypted with, active
  master_key,
  initialized,
  result        \* what the last call returned, and the value of a successful get

vars == <<entries, master_key, initialized, result>>

Init ==
  /\ entries = [i \in Slots |-> [name |-> None, value |-> None, key |-> None, active |-> FALSE]]
  /\ master_key = None
  /\ initialized = FALSE
  /\ result = Code(0)

Returns(c) == result' = Code(c)

Padded(v) == ((v.len \div Block) + 1) * Block

Acceptable(v) == v.len <= MaxValue - Block

(* aes256_cbc_decrypt wants room for the padding too. *)
Fits(v, capacity) == Padded(v) <= Min({capacity, MaxValue})

Decrypted(e) == IF e.key = master_key THEN e.value ELSE Garbage

Named(n) == {i \in Slots : entries[i].active /\ entries[i].name = n}
FreeSlots == {i \in Slots : ~entries[i].active}

keystore_init(pass) ==
  /\ entries' = [i \in Slots |-> [entries[i] EXCEPT !.active = FALSE]]
  /\ master_key' = pass
  /\ initialized' = TRUE
  /\ Returns(0)

\* Mutant: the first slot that is free or has the name.
SlotFor_First(n) == Named(n) \cup FreeSlots

SlotFor(n) == IF Named(n) # {} THEN Named(n) ELSE FreeSlots

keystore_set(n, v) ==
  \/ /\ initialized /\ Acceptable(v) /\ SlotFor(n) # {}
     /\ entries' = [entries EXCEPT ![Min(SlotFor(n))] =
                      [name |-> n, value |-> v, key |-> master_key, active |-> TRUE]]
     /\ Returns(0)
     /\ UNCHANGED <<master_key, initialized>>
  \/ /\ ~initialized \/ ~Acceptable(v) \/ SlotFor(n) = {}
     /\ Returns(-1)
     /\ UNCHANGED <<entries, master_key, initialized>>

(* A value whose padding does not come out right is an error as well: what *)
(* was encrypted under another key.                                        *)
keystore_get(n, capacity) ==
  /\ result' = IF initialized /\ Named(n) # {} /\ Fits(entries[Min(Named(n))].value, capacity)
               THEN [code |-> 0, value |-> Decrypted(entries[Min(Named(n))])] ELSE Code(-1)
  /\ UNCHANGED <<entries, master_key, initialized>>

keystore_delete(n) ==
  \/ /\ initialized /\ Named(n) # {}
     /\ entries' = [entries EXCEPT ![Min(Named(n))].value = None,
                                   ![Min(Named(n))].active = FALSE]
     /\ Returns(0)
     /\ UNCHANGED <<master_key, initialized>>
  \/ /\ ~initialized \/ Named(n) = {}
     /\ Returns(-1)
     /\ UNCHANGED <<entries, master_key, initialized>>

keystore_count ==
  /\ Returns(Cardinality(Slots \ FreeSlots))
  /\ UNCHANGED <<entries, master_key, initialized>>

(* sys_user_keystore. *)
Next ==
  \/ \E p \in Passphrases : keystore_init(p)
  \/ \E n \in Names, v \in Values : keystore_set(n, v)
  \/ \E n \in Names, c \in Capacities : keystore_get(n, c)
  \/ \E n \in Names : keystore_delete(n)
  \/ keystore_count

Spec == Init /\ [][Next]_vars

(***************************************************************************)
(* Properties                                                              *)
(***************************************************************************)
(* Type invariant; an entry in use has a value that fits its buffer.       *)
TypeOK ==
  /\ entries \in [Slots -> [name : Names \cup {None}, value : Values \cup {None},
                            key : Passphrases \cup {None}, active : BOOLEAN]]
  /\ \A i \in Slots : entries[i].active => Padded(entries[i].value) <= MaxValue
  /\ master_key \in Passphrases \cup {None}
  /\ initialized \in BOOLEAN
  /\ result.code \in -1 .. MaxEntries

(* What the store holds for each name.                                     *)
Held == [n \in Names |-> IF Named(n) = {} THEN None ELSE Decrypted(entries[Min(Named(n))])]

Map == INSTANCE KeyMap WITH ready <- initialized, store <- Held, reply <- result

(* The slots, the linear searches and the encryption together are a map: a *)
(* name has one value, the last one set; a full store still takes a new    *)
(* value for a name it has; a new passphrase leaves nothing that decrypts  *)
(* to garbage.                                                             *)
ImplementsMap == Map!Spec

(* keystore.c: the entries keep their form, and the store is a map.        *)
KeysSafe == []TypeOK /\ ImplementsMap

=============================================================================
