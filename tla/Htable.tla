------------------------------- MODULE Htable -------------------------------
(***************************************************************************)
(* ccan's hash table of pointers (src/src/ccan/ccan/htable/htable.c), as   *)
(* the request table uses it: open addressing with linear probing, deleted *)
(* markers, growth by doubling.  A bucket is one machine word.  Bits that  *)
(* are the same in all pointers of the table need not be stored; their     *)
(* places in the word (common_mask) hold bits of the hash value, and one   *)
(* of them (perfect_bit) tells that the entry sits in its home bucket.     *)
(*                                                                         *)
(* A word is the set of the positions of its one bits, so that & is        *)
(* intersection, | union and & ~ difference.  The loops over the table are *)
(* folds, in the order of the code.                                        *)
(***************************************************************************)
EXTENDS Integers, Sequences, FiniteSets, FiniteSetsExt, SequencesExt

CONSTANTS
  Width,         \* bits of a word
  Ptrs,          \* addresses of entries
  Hashes,        \* hash values of their keys
  AllocOutcomes  \* may calloc succeed (TRUE), fail (FALSE)?

Bits == 0..(Width - 1)
Word == SUBSET Bits

Zero == {}
HTABLE_DELETED == {0}

ASSUME HtableAssumption ==
  /\ Width \in Nat \ {0}
  /\ Ptrs \subseteq Word \ {Zero, HTABLE_DELETED}
  /\ Hashes \subseteq Word
  /\ AllocOutcomes \subseteq BOOLEAN

VARIABLES
  ht,     \* struct htable
  hash,   \* entry -> hash value of its key: any function, chosen once
  added   \* history: entries added, and not deleted since

-----------------------------------------------------------------------------
get_extra_ptr_bits(t, e) == e \cap t.common_mask

get_raw_ptr(t, e) == (e \ t.common_mask) \cup t.common_bits

make_hval(t, p, bits) == (p \ t.common_mask) \cup bits

entry_is_valid(e) == e # Zero /\ e # HTABLE_DELETED

ShiftRight(w, n) == {i - n : i \in {j \in w : j >= n}}

Xor(u, w) == (u \ w) \cup (w \ u)

(* The hash bits an entry carries in the places of common_mask. *)
get_hash_ptr_bits(t, h) ==
  (Xor(h, ShiftRight(h, t.bits)) \cap t.common_mask) \ t.perfect_bit

Size(t) == 2 ^ t.bits

Value == [w \in Word |-> SumSet({2 ^ i : i \in w})]

hash_bucket(t, h) == Value[h \cap 0..(t.bits - 1)]

(* The initial table is the word perfect_bit, which is zero. *)
htable_init ==
  [bits |-> 0, elems |-> 0, deleted |-> 0, max |-> 0, max_with_deleted |-> 0,
   common_mask |-> Bits, common_bits |-> Zero, perfect_bit |-> Zero,
   table |-> [i \in {0} |-> Zero]]

-----------------------------------------------------------------------------
(* The buckets at which htable_firstval and htable_nextval stop for h:     *)
(* entries with the hash bits of h, and in the home bucket the perfect     *)
(* bit, that are reached before the first empty bucket.                    *)
Candidates(t, h) ==
  LET home == hash_bucket(t, h)
      h2 == get_hash_ptr_bits(t, h)
      dist(i) == (i - home) % Size(t)
  IN  {i \in DOMAIN t.table :
         /\ entry_is_valid(t.table[i])
         /\ get_extra_ptr_bits(t, t.table[i]) =
              IF i = home THEN h2 \cup t.perfect_bit ELSE h2
         /\ \A j \in DOMAIN t.table :
              dist(j) < dist(i) => t.table[j] # Zero}

(* The candidates that are the entry p. *)
Places(t, p) == {i \in Candidates(t, hash[p]) : get_raw_ptr(t, t.table[i]) = p}

htable_get(t, p) == Places(t, p) # {}

(* This does not expand the hash table, that is up to the caller. *)
ht_add(t, p) ==
  LET home == hash_bucket(t, hash[p])
      steps == Min({k \in DOMAIN t.table :
                      ~entry_is_valid(t.table[(home + k) % Size(t)])})
      perfect == IF steps = 0 THEN t.perfect_bit ELSE Zero
  IN  [t EXCEPT !.table[(home + steps) % Size(t)] =
         make_hval(t, p, get_hash_ptr_bits(t, hash[p]) \cup perfect)]

(* The loops over the buckets of a table. *)
Buckets(t) == [i \in 1..Size(t) |-> i - 1]

(* The next table of a table that is doubled: empty.  A table that has     *)
(* lost its perfect bit gets one back.                                     *)
Doubled(t) ==
  LET bits == t.bits + 1
  IN  [t EXCEPT
        !.bits = bits,
        !.max = (3 * 2 ^ bits) \div 4,
        !.max_with_deleted = (9 * 2 ^ bits) \div 10,
        !.perfect_bit = IF t.perfect_bit = Zero /\ t.common_mask # Zero
                        THEN {Min(t.common_mask)} ELSE t.perfect_bit,
        !.deleted = 0,
        !.table = [i \in 0..(2 ^ bits - 1) |-> Zero]]

Carry(t, u, i) ==
  IF entry_is_valid(t.table[i]) THEN ht_add(u, get_raw_ptr(u, t.table[i])) ELSE u

(* All entries are added to the new table.  The first allocation comes     *)
(* here as well.                                                           *)
double_table(t) == FoldLeft(LAMBDA u, i : Carry(t, u, i), Doubled(t), Buckets(t))

(* MUTANT: the scan starts at bucket 0. *)
FirstEmpty_0(t) == 0

FirstEmpty(t) == Min({i \in DOMAIN t.table : t.table[i] = Zero})

(* A deleted marker goes, and an entry that is not at home is added again. *)
Resettle(u, b) ==
  LET e == u.table[b]
      cleared == [u EXCEPT !.table[b] = Zero]
  IN  IF e = HTABLE_DELETED THEN cleared
      ELSE IF entry_is_valid(e) /\ e \cap u.perfect_bit = Zero
      THEN ht_add(cleared, get_raw_ptr(u, e))
      ELSE u

(* From the first empty bucket on and round the end of the table. *)
Sweep(t) ==
  LET start == FirstEmpty(t)
  IN  FoldLeft(LAMBDA u, i : Resettle(u, (i + start) % Size(t)), t, Buckets(t))

(* MUTANT: the count of the markers is not reset. *)
rehash_table_keeps_count(t) == Sweep(t)

rehash_table(t) == [Sweep(t) EXCEPT !.deleted = 0]

(* A pointer that differs from the common bits takes the places where it   *)
(* does away from the hash bits, in every entry.                           *)
Unshare(t, p) ==
  LET maskdiff == Xor(t.common_bits, p \cap t.common_mask)
  IN  [t EXCEPT
         !.table = [i \in DOMAIN t.table |->
            IF entry_is_valid(t.table[i])
            THEN (t.table[i] \ maskdiff) \cup (t.common_bits \cap maskdiff)
            ELSE t.table[i]],
         !.common_mask = @ \ maskdiff,
         !.common_bits = @ \ maskdiff,
         !.perfect_bit = @ \ maskdiff]

(* MUTANT: no bit of the first pointer is revealed. *)
Revealed_none(p) == {}

(* The first pointer reveals its highest one bit. *)
Revealed(p) == {Max(p)}

update_common(t, p) ==
  LET mask == Bits \ Revealed(p)
  IN  IF t.elems = 0
      THEN [t EXCEPT !.common_mask = mask, !.common_bits = p \cap mask,
                     !.perfect_bit = {0}]
      ELSE Unshare(t, p)

(* MUTANT: the markers are not counted. *)
Crowded_by_entries(t) == t.elems + 1 > t.max_with_deleted

Crowded(t) == t.elems + 1 + t.deleted > t.max_with_deleted

(* Fails, without an effect, when the table must grow and cannot. *)
htable_add(t, p, allocated) ==
  LET full == t.elems + 1 > t.max
      grown == IF full THEN double_table(t) ELSE t
      swept == IF Crowded(grown) THEN rehash_table(grown) ELSE grown
      ready == IF p \cap swept.common_mask # swept.common_bits
               THEN update_common(swept, p) ELSE swept
  IN  IF full /\ ~allocated THEN t
      ELSE [ht_add(ready, p) EXCEPT !.elems = @ + 1]

htable_del(t, p) ==
  \E i \in Places(t, p) :
    ht' = [t EXCEPT !.table[i] = HTABLE_DELETED, !.elems = @ - 1,
                    !.deleted = @ + 1]

-----------------------------------------------------------------------------
(* add_request adds an entry it did not find; nobody looks whether         *)
(* htable_add failed.  An address that was deleted may come again: entries *)
(* are not freed, so it stands for a later entry, alike in these bits.     *)
Add(p) ==
  /\ ~htable_get(ht, p)
  /\ \E allocated \in AllocOutcomes : ht' = htable_add(ht, p, allocated)
  /\ added' = IF ht' = ht THEN added ELSE added \cup {p}
  /\ UNCHANGED hash

(* del_request deletes an entry its caller has found. *)
Delete(p) ==
  /\ htable_del(ht, p)
  /\ added' = added \ {p}
  /\ UNCHANGED hash

(* MPI_Finalize calls htable_clear. *)
htable_clear == ht' = htable_init /\ added' = {} /\ UNCHANGED hash

Init == ht = htable_init /\ hash \in [Ptrs -> Hashes] /\ added = {}

Next == htable_clear \/ \E p \in Ptrs : Add(p) \/ Delete(p)

Spec == Init /\ [][Next]_<<ht, hash, added>>

-----------------------------------------------------------------------------
(* All addresses have the same highest bit, as in one heap.  The theorems  *)
(* about the table need it: one bit of the first pointer is stored, and    *)
(* the others must have it for not looking like zero or a marker.          *)
TopBit(r) == r \in Bits \ {0} /\ \A p \in Ptrs : r \in p /\ \A i \in p : i <= r

SameTopBit == \E r \in Bits : TopBit(r)

Entries == {i \in DOMAIN ht.table : entry_is_valid(ht.table[i])}

(* Types of the fields; the table never holds more than it may. *)
TypeOK ==
  /\ ht.bits \in 0..Width
  /\ ht.elems \in 0..ht.max
  /\ ht.deleted \in 0..ht.max_with_deleted
  /\ ht.common_mask \in Word /\ ht.common_bits \in Word
  /\ ht.perfect_bit \in Word
  /\ ht.table \in [0..(Size(ht) - 1) -> Word]
  /\ added \subseteq Ptrs

(* An entry never looks like an empty bucket or a deleted marker, whatever *)
(* its hash bits: the table shows as many entries as it counts.            *)
(* htable.c:200-203: "Always reveal one bit of the pointer in the bucket,  *)
(* so it's not zero or HTABLE_DELETED (1), even if hash happens to be 0."  *)
EntriesShow == Cardinality(Entries) = ht.elems

(* One bucket at least is empty, so that every search ends: entries and    *)
(* markers, of which no more exist than are counted, leave room.           *)
BucketLeft ==
  /\ \E i \in DOMAIN ht.table : ht.table[i] = Zero
  /\ Cardinality({i \in DOMAIN ht.table : ht.table[i] = HTABLE_DELETED}) <=
       ht.deleted

(* Lookups find exactly the entries that were added and not deleted since: *)
(* growth, rehashing, hash bits that are lost and buckets that are used     *)
(* again hide no other entry and bring none back.  With it the table is the *)
(* function of module Requests.                                             *)
LookupsExact == \A p \in Ptrs : htable_get(ht, p) <=> p \in added
=============================================================================
