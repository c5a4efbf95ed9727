---------------------------- MODULE HtableProofs ----------------------------
(***************************************************************************)
(* Theorems about Htable, for every width of a word, every set of entries  *)
(* of one heap and every hash function: lookups find exactly the entries   *)
(* that were added, and every search ends.                                 *)
(***************************************************************************)
EXTENDS HtableLemmas

-----------------------------------------------------------------------------
(* A table that stands for the set A of entries, f being their hash        *)
(* values: each valid bucket holds an entry of A with the hash bits that   *)
(* are due there, each entry of A is in one bucket, and a search for it    *)
(* passes no empty bucket on the way.                                      *)

Fields ==
  [bits : Nat, elems : Nat, deleted : Nat, max : Nat, max_with_deleted : Nat,
   common_mask : Word, common_bits : Word, perfect_bit : Word,
   table : UNION {[0..(n - 1) -> Word] : n \in Nat}]

IsTable(t) == t \in Fields /\ DOMAIN t.table = 0..(Size(t) - 1)

Valid(t) == {i \in DOMAIN t.table : entry_is_valid(t.table[i])}

Owner(t, i) == get_raw_ptr(t, t.table[i])

(* What bucket i holds when p is in it. *)
HomeBit(t, f, i, p) == IF i = hash_bucket(t, f[p]) THEN t.perfect_bit ELSE Zero

Held(t, f, i, p) ==
  make_hval(t, p, get_hash_ptr_bits(t, f[p]) \cup HomeBit(t, f, i, p))

(* The buckets a search for p passes before it comes to bucket i. *)
Before(t, f, i, p) ==
  {j \in DOMAIN t.table : Gap(Size(t), j, hash_bucket(t, f[p]))
                            < Gap(Size(t), i, hash_bucket(t, f[p]))}

Content(t, f, A) ==
  /\ \A i \in Valid(t) : /\ Owner(t, i) \in A
                         /\ t.table[i] = Held(t, f, i, Owner(t, i))
  /\ \A p \in A : \E i \in Valid(t) : Owner(t, i) = p
  /\ \A i, j \in Valid(t) : Owner(t, i) = Owner(t, j) => i = j

Reached(t, f) ==
  \A i \in Valid(t) : \A j \in Before(t, f, i, Owner(t, i)) : t.table[j] # Zero

(* The entries agree in the bits that are not stored, and the bit r, which *)
(* all have, is stored.                                                    *)
Masks(t, A, r) ==
  /\ t.common_bits \subseteq t.common_mask /\ t.perfect_bit \subseteq t.common_mask
  /\ r \notin t.common_mask
  /\ \A p \in A : p \cap t.common_mask = t.common_bits

Hashed(f) == f \in [Ptrs -> Hashes]

LEMMA TableParts ==
  ASSUME NEW t, IsTable(t)
  PROVE  /\ t.bits \in Nat /\ t.elems \in Nat /\ t.deleted \in Nat /\ t.max \in Nat
         /\ t.max_with_deleted \in Nat /\ t.common_mask \in Word
         /\ t.common_bits \in Word /\ t.perfect_bit \in Word
         /\ Size(t) \in Nat \ {0} /\ t.table \in [0..(Size(t) - 1) -> Word]
<1>1. t.bits \in Nat /\ t.table \in UNION {[0..(n - 1) -> Word] : n \in Nat}
  BY DEF IsTable, Fields
<1>2. PICK n \in Nat : t.table \in [0..(n - 1) -> Word]
  BY <1>1
<1>3. t.table \in [0..(Size(t) - 1) -> Word]
  BY <1>2 DEF IsTable
<1>4. Size(t) \in Nat \ {0}
  BY <1>1, Powers DEF Size
<1> QED BY <1>3, <1>4 DEF IsTable, Fields

(* A table of any size is one of the tables of Fields. *)
LEMMA AnyTable ==
  ASSUME NEW k \in Nat, NEW f \in [0..(k - 1) -> Word]
  PROVE  f \in UNION {[0..(n - 1) -> Word] : n \in Nat}
<1>1. [0..(k - 1) -> Word] \in {[0..(n - 1) -> Word] : n \in Nat}
  OBVIOUS
<1> QED BY <1>1, Zenon

LEMMA HashParts ==
  ASSUME NEW f, Hashed(f), NEW p \in Ptrs, NEW t, IsTable(t)
  PROVE  f[p] \in Word /\ hash_bucket(t, f[p]) \in 0..(Size(t) - 1)
<1>1. f[p] \in Word
  BY HtableAssumption DEF HtableAssumption, Hashed
<1> QED BY <1>1, TableParts, BucketRange

LEMMA HeldShows ==
  ASSUME NEW t, NEW f, NEW i, NEW p \in Ptrs, NEW r, TopBit(r),
         p \cap t.common_mask = t.common_bits, r \notin t.common_mask,
         t.perfect_bit \subseteq t.common_mask
  PROVE  /\ entry_is_valid(Held(t, f, i, p))
         /\ (Held(t, f, i, p) \ t.common_mask) \cup t.common_bits = p
         /\ Held(t, f, i, p) \cap t.common_mask
              = get_hash_ptr_bits(t, f[p]) \cup HomeBit(t, f, i, p)
         /\ Held(t, f, i, p) \subseteq p \cup t.common_mask
<1> DEFINE x == get_hash_ptr_bits(t, f[p]) \cup HomeBit(t, f, i, p)
<1>1. x \subseteq t.common_mask
  BY DEF get_hash_ptr_bits, HomeBit, Zero
<1>2. Held(t, f, i, p) = (p \ t.common_mask) \cup x
  BY DEF Held, make_hval
<1> HIDE DEF x
<1>3. r \in Held(t, f, i, p) /\ r # 0
  BY <1>2 DEF TopBit
<1>4. entry_is_valid(Held(t, f, i, p))
  BY <1>3 DEF entry_is_valid, Zero, HTABLE_DELETED
<1> QED BY <1>1, <1>2, <1>4 DEF x

(* Gap and Further undo each other. *)
LEMMA GapBack ==
  ASSUME NEW n \in Nat \ {0}, NEW a \in 0..(n - 1), NEW b \in 0..(n - 1)
  PROVE  /\ Gap(n, a, b) \in 0..(n - 1) /\ Further(n, b, Gap(n, a, b)) = a
         /\ Gap(n, Further(n, b, a), b) = a
<1>1. Gap(n, a, b) \in 0..(n - 1) /\ Further(n, b, Gap(n, a, b)) = a
  <2>1. CASE a >= b
    BY <2>1 DEF Gap, Further
  <2>2. CASE ~(a >= b)
    BY <2>2 DEF Gap, Further
  <2> QED BY <2>1, <2>2
<1>2. Gap(n, Further(n, b, a), b) = a
  BY DEF Gap, Further
<1> QED BY <1>1, <1>2

(* ht_add puts the entry in the first bucket of its search that is free.   *)
LEMMA AddPlace ==
  ASSUME Hashed(hash), NEW t, IsTable(t), NEW p \in Ptrs,
         NEW free \in DOMAIN t.table \ Valid(t)
  PROVE  \E b \in DOMAIN t.table \ Valid(t) :
           /\ ht_add(t, p) = [t EXCEPT !.table = [@ EXCEPT ![b] = Held(t, hash, b, p)]]
           /\ Before(t, hash, b, p) \subseteq Valid(t)
<1> DEFINE n == Size(t)
           home == hash_bucket(t, hash[p])
           K == {k \in DOMAIN t.table : ~entry_is_valid(t.table[(home + k) % n])}
           steps == Min(K)
           b == (home + steps) % n
<1>1. n \in Nat \ {0} /\ DOMAIN t.table = 0..(n - 1) /\ home \in 0..(n - 1)
  BY TableParts, HashParts DEF IsTable
<1> HIDE DEF home
<1>2. \A k \in 0..(n - 1) : (home + k) % n = Further(n, home, k)
  BY <1>1, RoundTable
<1>3. K \subseteq Nat /\ K # {}
  <2> DEFINE k == Gap(n, free, home)
  <2>1. k \in 0..(n - 1) /\ Further(n, home, k) = free
    <3> HIDE DEF n
    <3> QED BY <1>1, GapBack
  <2>2. k \in K
    <3> HIDE DEF k
    <3> QED BY <1>1, <1>2, <2>1 DEF Valid
  <2>3. K \subseteq Nat
    BY <1>1
  <2> QED BY <2>2, <2>3
<1>4. steps \in K /\ \A k \in K : steps <= k
  <2> HIDE DEF K
  <2> QED BY <1>3, LeastOf
<1> HIDE DEF steps
<1>5. steps \in 0..(n - 1) /\ b = Further(n, home, steps)
  BY <1>1, <1>2, <1>4
<1>6. b \in 0..(n - 1) /\ b \notin Valid(t) /\ (b = home <=> steps = 0)
  <2>1. b \in 0..(n - 1) /\ (b = home <=> steps = 0)
    BY <1>1, <1>5 DEF Further
  <2> QED BY <1>4, <2>1 DEF Valid
<1>7. Before(t, hash, b, p) \subseteq Valid(t)
  <2> SUFFICES ASSUME NEW j \in 0..(n - 1), Gap(n, j, home) < Gap(n, b, home)
               PROVE  j \in Valid(t)
    BY <1>1 DEF Before, home
  <2>1. Gap(n, j, home) \in 0..(n - 1) /\ Gap(n, j, home) < steps
        /\ Further(n, home, Gap(n, j, home)) = j
    <3> HIDE DEF n
    <3>1. Gap(n, j, home) \in 0..(n - 1) /\ Further(n, home, Gap(n, j, home)) = j
      BY <1>1, GapBack
    <3>2. Gap(n, b, home) = steps
      BY <1>1, <1>5, GapBack
    <3> QED BY <3>1, <3>2
  <2>2. Gap(n, j, home) \notin K
    <3> DEFINE g == Gap(n, j, home)
    <3>1. g \in Nat /\ steps \in Nat /\ g < steps
      BY <1>1, <1>5, <2>1
    <3> HIDE DEF g, K
    <3>2. g \in K => steps <= g
      BY <1>4
    <3> QED BY <3>1, <3>2 DEF g
  <2> QED BY <1>1, <1>2, <2>1, <2>2 DEF Valid
<1>8. ht_add(t, p) = [t EXCEPT !.table = [@ EXCEPT ![b] = Held(t, hash, b, p)]]
  <2>1. IF steps = 0 THEN HomeBit(t, hash, b, p) = t.perfect_bit
        ELSE HomeBit(t, hash, b, p) = Zero
    BY <1>6 DEF HomeBit, home
  <2>2. HomeBit(t, hash, b, p) = IF steps = 0 THEN t.perfect_bit ELSE Zero
    BY <2>1
  <2> DEFINE v == make_hval(t, p, get_hash_ptr_bits(t, hash[p])
                                   \cup IF steps = 0 THEN t.perfect_bit ELSE Zero)
  <2>3. ht_add(t, p) = [t EXCEPT !.table[b] = v]
    BY DEF ht_add, home, steps
  <2>4. v = Held(t, hash, b, p)
    BY <2>2 DEF Held
  <2> QED BY <2>3, <2>4
<1> QED BY <1>1, <1>6, <1>7, <1>8

(* The table t with p in bucket b. *)
Placed(t, f, b, p) == [t EXCEPT !.table = [@ EXCEPT ![b] = Held(t, f, b, p)]]

(* Two tables of one shape: they differ in their buckets. *)
SameShape(t, u) ==
  /\ IsTable(u) /\ u.bits = t.bits
  /\ u.elems = t.elems /\ u.deleted = t.deleted /\ u.max = t.max
  /\ u.max_with_deleted = t.max_with_deleted
  /\ u.common_mask = t.common_mask /\ u.common_bits = t.common_bits
  /\ u.perfect_bit = t.perfect_bit

LEMMA Writing ==
  ASSUME NEW t, IsTable(t), NEW b \in DOMAIN t.table, NEW w \in Word, NEW u,
         u = [t EXCEPT !.table = [@ EXCEPT ![b] = w]]
  PROVE  /\ SameShape(t, u) /\ DOMAIN u.table = DOMAIN t.table
         /\ u.table[b] = w
         /\ \A i \in DOMAIN t.table : i # b => u.table[i] = t.table[i]
<1>1. u.bits = t.bits /\ u.table = [t.table EXCEPT ![b] = w]
  BY DEF IsTable, Fields
<1>2. Size(u) = Size(t) /\ Size(t) \in Nat /\ t.table \in [0..(Size(t) - 1) -> Word]
  BY <1>1, TableParts DEF Size
<1>3. u.table \in [0..(Size(t) - 1) -> Word]
  BY <1>1, <1>2
<1>4. u.table \in UNION {[0..(n - 1) -> Word] : n \in Nat}
  BY <1>2, <1>3
<1>5. u \in Fields
  BY <1>4 DEF IsTable, Fields
<1>6. IsTable(u)
  BY <1>2, <1>3, <1>5 DEF IsTable
<1> QED BY <1>1, <1>2, <1>6 DEF SameShape, IsTable, Fields

LEMMA Shaped ==
  ASSUME NEW t, NEW u, SameShape(t, u), IsTable(t), NEW f
  PROVE  /\ Size(u) = Size(t) /\ DOMAIN u.table = DOMAIN t.table
         /\ \A i, p : /\ Held(u, f, i, p) = Held(t, f, i, p)
                      /\ HomeBit(u, f, i, p) = HomeBit(t, f, i, p)
                      /\ Before(u, f, i, p) = Before(t, f, i, p)
         /\ \A h : /\ hash_bucket(u, h) = hash_bucket(t, h)
                   /\ get_hash_ptr_bits(u, h) = get_hash_ptr_bits(t, h)
         /\ \A e : get_raw_ptr(u, e) = get_raw_ptr(t, e)
<1>1. Size(u) = Size(t)
  BY DEF SameShape, Size
<1>2. DOMAIN u.table = DOMAIN t.table
  BY <1>1 DEF SameShape, IsTable
<1>3. \A h : /\ hash_bucket(u, h) = hash_bucket(t, h)
             /\ get_hash_ptr_bits(u, h) = get_hash_ptr_bits(t, h)
  BY DEF SameShape, hash_bucket, get_hash_ptr_bits
<1>4. \A i, p : HomeBit(u, f, i, p) = HomeBit(t, f, i, p)
  BY <1>3 DEF SameShape, HomeBit
<1>5. \A i, p : Held(u, f, i, p) = Held(t, f, i, p)
  BY <1>3, <1>4 DEF SameShape, Held, make_hval
<1>6. \A i, p : Before(u, f, i, p) = Before(t, f, i, p)
  BY <1>1, <1>2, <1>3 DEF Before
<1>7. \A e : get_raw_ptr(u, e) = get_raw_ptr(t, e)
  BY DEF SameShape, get_raw_ptr
<1> QED BY <1>1, <1>2, <1>3, <1>4, <1>5, <1>6, <1>7

LEMMA HeldWord ==
  ASSUME NEW t, IsTable(t), NEW f, NEW i, NEW p \in Ptrs
  PROVE  Held(t, f, i, p) \in Word
<1>1. p \in Word
  BY HtableAssumption DEF HtableAssumption
<1>2. t.common_mask \in Word /\ t.perfect_bit \in Word
  BY TableParts
<1> QED BY <1>1, <1>2 DEF Held, make_hval, get_hash_ptr_bits, HomeBit, Zero, Word

(* The table u is t with the entry p in bucket b, and stands for it too.   *)
Gains(t, u, f, A, b, p) ==
  /\ SameShape(t, u) /\ Valid(u) = Valid(t) \cup {b}
  /\ Owner(u, b) = p /\ \A i \in Valid(t) : Owner(u, i) = Owner(t, i)
  /\ \A i \in DOMAIN t.table : i # b => u.table[i] = t.table[i]
  /\ Content(u, f, A \cup {p})

(* What an entry in a free bucket does to a table. *)
LEMMA Placing ==
  ASSUME NEW f, NEW t, IsTable(t), NEW r, TopBit(r), NEW A, A \subseteq Ptrs,
         NEW p \in Ptrs \ A, Masks(t, A \cup {p}, r), Content(t, f, A),
         NEW b \in DOMAIN t.table \ Valid(t), NEW u, u = Placed(t, f, b, p)
  PROVE  Gains(t, u, f, A, b, p)
<1> DEFINE w == Held(t, f, b, p)
<1>1. w \in Word
  BY HeldWord
<1>2. /\ SameShape(t, u) /\ DOMAIN u.table = DOMAIN t.table /\ u.table[b] = w
      /\ \A i \in DOMAIN t.table : i # b => u.table[i] = t.table[i]
  <2> HIDE DEF w
  <2>1. u = [t EXCEPT !.table = [@ EXCEPT ![b] = w]]
    BY DEF Placed, w
  <2> QED BY <1>1, <2>1, Writing
<1>3. entry_is_valid(w) /\ (w \ t.common_mask) \cup t.common_bits = p
  BY HeldShows DEF Masks
<1> HIDE DEF w
<1>4. Valid(u) = Valid(t) \cup {b}
  BY <1>2, <1>3 DEF Valid
<1>5. get_raw_ptr(u, w) = p
  BY <1>2, <1>3 DEF get_raw_ptr, SameShape
<1>6. Owner(u, b) = p
  BY <1>2, <1>5 DEF Owner
<1>7. ASSUME NEW i \in Valid(t)
      PROVE  i # b /\ u.table[i] = t.table[i] /\ Owner(u, i) = Owner(t, i)
  <2>1. i \in DOMAIN t.table /\ i # b
    BY DEF Valid
  <2> QED BY <1>2, <2>1, Shaped DEF Owner
<1>8. \A i, q : Held(u, f, i, q) = Held(t, f, i, q)
  BY <1>2, Shaped
<1>9. ASSUME NEW i \in Valid(u)
      PROVE  Owner(u, i) \in A \cup {p} /\ u.table[i] = Held(u, f, i, Owner(u, i))
  <2>1. CASE i = b
    BY <1>2, <1>6, <1>8, <2>1 DEF w
  <2>2. CASE i \in Valid(t)
    BY <1>7, <1>8, <2>2 DEF Content
  <2> QED BY <1>4, <2>1, <2>2
<1>10. ASSUME NEW q \in A \cup {p} PROVE \E i \in Valid(u) : Owner(u, i) = q
  <2>1. CASE q = p
    BY <1>4, <1>6, <2>1
  <2>2. CASE q \in A
    BY <1>4, <1>7, <2>2 DEF Content
  <2> QED BY <2>1, <2>2
<1>11. ASSUME NEW i \in Valid(u), NEW j \in Valid(u), Owner(u, i) = Owner(u, j)
       PROVE  i = j
  <2>1. \A k \in Valid(t) : Owner(u, k) \in A
    BY <1>7 DEF Content
  <2>2. CASE i = b \/ j = b
    BY <1>4, <1>6, <1>11, <2>1, <2>2
  <2>3. CASE i \in Valid(t) /\ j \in Valid(t)
    BY <1>7, <1>11, <2>3 DEF Content
  <2> QED BY <1>4, <2>2, <2>3
<1>12. Content(u, f, A \cup {p})
  BY <1>9, <1>10, <1>11 DEF Content
<1> QED BY <1>2, <1>4, <1>6, <1>7, <1>12 DEF Gains

Markers(t) == {i \in DOMAIN t.table : t.table[i] = HTABLE_DELETED}

(* ht_add adds one entry to a table that has a free bucket. *)
LEMMA Adding ==
  ASSUME Hashed(hash), NEW t, IsTable(t), NEW r, TopBit(r), NEW A, A \subseteq Ptrs,
         NEW p \in Ptrs \ A, Masks(t, A \cup {p}, r), Content(t, hash, A),
         Reached(t, hash), NEW free \in DOMAIN t.table \ Valid(t)
  PROVE  LET u == ht_add(t, p)
         IN  /\ SameShape(t, u) /\ Content(u, hash, A \cup {p}) /\ Reached(u, hash)
             /\ Markers(u) \subseteq Markers(t)
<1>1. PICK b \in DOMAIN t.table \ Valid(t) :
        /\ ht_add(t, p) = Placed(t, hash, b, p)
        /\ Before(t, hash, b, p) \subseteq Valid(t)
  BY AddPlace DEF Placed
<1> DEFINE u == ht_add(t, p)
<1>2. /\ SameShape(t, u) /\ Valid(u) = Valid(t) \cup {b}
      /\ Owner(u, b) = p /\ \A i \in Valid(t) : Owner(u, i) = Owner(t, i)
      /\ \A i \in DOMAIN t.table : i # b => u.table[i] = t.table[i]
      /\ Content(u, hash, A \cup {p})
  <2>1. u = Placed(t, hash, b, p)
    BY <1>1
  <2> HIDE DEF u
  <2>2. Gains(t, u, hash, A, b, p)
    BY <1>1, <2>1, Placing
  <2> QED BY <2>2 DEF Gains
<1> HIDE DEF u
<1>3. DOMAIN u.table = DOMAIN t.table
      /\ \A i, q : Before(u, hash, i, q) = Before(t, hash, i, q)
  BY <1>2, Shaped
<1>4. \A i \in Valid(u) : u.table[i] # Zero /\ u.table[i] # HTABLE_DELETED
  BY DEF Valid, entry_is_valid
<1>5. \A i \in DOMAIN t.table : t.table[i] # Zero => u.table[i] # Zero
  BY <1>2, <1>4
<1>6. Reached(u, hash)
  <2> SUFFICES ASSUME NEW i \in Valid(u), NEW j \in Before(u, hash, i, Owner(u, i))
               PROVE  u.table[j] # Zero
    BY DEF Reached
  <2>1. CASE i = b
    BY <1>1, <1>2, <1>3, <1>4, <2>1
  <2>2. CASE i \in Valid(t)
    <3>1. j \in Before(t, hash, i, Owner(t, i)) /\ j \in DOMAIN t.table
      BY <1>2, <1>3, <2>2 DEF Before
    <3> QED BY <1>5, <2>2, <3>1 DEF Reached
  <2> QED BY <1>2, <2>1, <2>2
<1>7. Markers(u) \subseteq Markers(t)
  <2> SUFFICES ASSUME NEW i \in Markers(u) PROVE i \in Markers(t)
    OBVIOUS
  <2>1. i \in DOMAIN t.table /\ u.table[i] = HTABLE_DELETED
    BY <1>3 DEF Markers
  <2>2. i # b
    BY <1>2, <1>4, <2>1
  <2> QED BY <1>2, <2>1, <2>2 DEF Markers
<1> QED BY <1>2, <1>6, <1>7 DEF u

-----------------------------------------------------------------------------
(* Counting: a table has one valid bucket for each entry it stands for.    *)

LEMMA Domains ==
  ASSUME NEW t, IsTable(t)
  PROVE  IsFiniteSet(DOMAIN t.table) /\ Cardinality(DOMAIN t.table) = Size(t)
<1>1. Size(t) \in Nat \ {0} /\ DOMAIN t.table = 0..(Size(t) - 1)
  BY TableParts DEF IsTable
<1> DEFINE n == Size(t)
<1> HIDE DEF n
<1>2. IsFiniteSet(0..(n - 1)) /\ Cardinality(0..(n - 1)) = n
  BY <1>1, FS_Interval DEF n
<1> QED BY <1>1, <1>2 DEF n

LEMMA Counted ==
  ASSUME NEW t, IsTable(t), NEW f, NEW A, Content(t, f, A)
  PROVE  /\ IsFiniteSet(Valid(t)) /\ IsFiniteSet(A)
         /\ Cardinality(Valid(t)) = Cardinality(A) /\ Cardinality(A) \in Nat
         /\ Cardinality(A) <= Size(t)
<1> DEFINE g == [i \in Valid(t) |-> Owner(t, i)]
<1>1. Valid(t) \subseteq DOMAIN t.table
  BY DEF Valid
<1>2. IsFiniteSet(Valid(t)) /\ Cardinality(Valid(t)) <= Size(t)
  BY <1>1, Domains, FS_Subset
<1>3. g \in Bijection(Valid(t), A)
  <2>1. g \in [Valid(t) -> A]
    BY DEF Content
  <2>2. \A i, j \in Valid(t) : g[i] = g[j] => i = j
    BY DEF Content
  <2>3. \A p \in A : \E i \in Valid(t) : g[i] = p
    BY DEF Content
  <2> HIDE DEF g
  <2> QED BY <2>1, <2>2, <2>3 DEF Bijection, Injection, Surjection, IsInjective
<1> HIDE DEF g
<1>4. IsFiniteSet(A) /\ Cardinality(A) = Cardinality(Valid(t))
  BY <1>2, <1>3, FS_Bijection DEF ExistsBijection
<1> QED BY <1>2, <1>4, FS_CardinalityType

LEMMA Room ==
  ASSUME NEW t, IsTable(t), NEW f, NEW A, Content(t, f, A),
         Cardinality(A) < Size(t)
  PROVE  \E i \in DOMAIN t.table : i \notin Valid(t)
<1> SUFFICES ASSUME DOMAIN t.table \subseteq Valid(t) PROVE FALSE
  OBVIOUS
<1>1. DOMAIN t.table = Valid(t)
  BY DEF Valid
<1>2. Cardinality(Valid(t)) = Size(t) /\ Size(t) \in Nat
  BY <1>1, Domains, TableParts
<1> QED BY <1>2, Counted

-----------------------------------------------------------------------------
(* double_table: all entries come into the new table, no marker does. *)

Shared(t, A, r) == A = {} \/ Masks(t, A, r)

LEMMA Doubling ==
  ASSUME NEW t, IsTable(t), NEW d, d = Doubled(t)
  PROVE  /\ IsTable(d) /\ Valid(d) = {} /\ Markers(d) = {}
         /\ Size(d) = 2 * Size(t)
         /\ d.bits = t.bits + 1 /\ d.elems = t.elems /\ d.deleted = 0
         /\ d.max = (3 * Size(d)) \div 4
         /\ d.max_with_deleted = (9 * Size(d)) \div 10
         /\ d.common_mask = t.common_mask /\ d.common_bits = t.common_bits
         /\ \A A, r : Masks(t, A, r) => Masks(d, A, r)
<1> DEFINE n == Size(t)
           m == Size(d)
           perfect == IF t.perfect_bit = Zero /\ t.common_mask # Zero
                      THEN {Min(t.common_mask)} ELSE t.perfect_bit
<1>1. t \in Fields /\ t.bits \in Nat /\ n \in Nat \ {0}
      /\ t.common_mask \in Word /\ t.perfect_bit \in Word
  BY TableParts DEF IsTable
<1>2. t.bits + 1 \in Nat /\ 2 ^ (t.bits + 1) = 2 * n
  BY <1>1, Powers DEF Size
<1>3. t.common_mask # Zero => Min(t.common_mask) \in t.common_mask
  <2>1. t.common_mask \subseteq Nat
    BY <1>1, HtableAssumption DEF HtableAssumption, Word, Bits
  <2> QED BY <2>1, LeastOf DEF Zero
<1>4. perfect \in Word
      /\ (t.perfect_bit \subseteq t.common_mask => perfect \subseteq t.common_mask)
  <2>1. CASE t.perfect_bit = Zero /\ t.common_mask # Zero
    BY <1>1, <1>3, <2>1 DEF Word
  <2>2. CASE ~(t.perfect_bit = Zero /\ t.common_mask # Zero)
    BY <1>1, <2>2
  <2> QED BY <2>1, <2>2
<1> HIDE DEF perfect
<1>5. /\ d.bits = t.bits + 1 /\ d.elems = t.elems /\ d.deleted = 0
      /\ d.max = (3 * 2 ^ (t.bits + 1)) \div 4
      /\ d.max_with_deleted = (9 * 2 ^ (t.bits + 1)) \div 10
      /\ d.common_mask = t.common_mask /\ d.common_bits = t.common_bits
      /\ d.perfect_bit = perfect
      /\ d.table = [i \in 0..(2 ^ (t.bits + 1) - 1) |-> Zero]
  BY <1>1 DEF Doubled, Fields, perfect
<1>6. m = 2 * n /\ m \in Nat \ {0}
  <2>1. m = 2 * n
    BY <1>2, <1>5 DEF Size
  <2> HIDE DEF n, m
  <2> QED BY <1>1, <2>1
<1>7. d.max = (3 * m) \div 4 /\ d.max_with_deleted = (9 * m) \div 10
      /\ d.table = [i \in 0..(m - 1) |-> Zero]
  BY <1>2, <1>5, <1>6
<1>8. d.table \in [0..(m - 1) -> Word] /\ DOMAIN d.table = 0..(m - 1)
      /\ \A i \in 0..(m - 1) : d.table[i] = Zero
  <2>1. Zero \in Word
    BY DEF Zero, Word
  <2> QED BY <1>7, <2>1
<1>9. d \in Fields
  <2>1. d = [bits |-> d.bits, elems |-> d.elems, deleted |-> d.deleted,
             max |-> d.max, max_with_deleted |-> d.max_with_deleted,
             common_mask |-> d.common_mask, common_bits |-> d.common_bits,
             perfect_bit |-> d.perfect_bit, table |-> d.table]
    BY <1>1 DEF Doubled, Fields
  <2>2. d.max \in Nat /\ d.max_with_deleted \in Nat
    <3> HIDE DEF m
    <3>1. (3 * m) \div 4 \in Nat /\ (9 * m) \div 10 \in Nat
      BY <1>6
    <3> QED BY <1>7, <3>1
  <2>3. d.table \in UNION {[0..(k - 1) -> Word] : k \in Nat}
    <3> HIDE DEF m
    <3>1. m \in Nat /\ d.table \in [0..(m - 1) -> Word]
      BY <1>6, <1>8
    <3> QED BY <3>1, AnyTable, Zenon
  <2>4. /\ d.bits \in Nat /\ d.elems \in Nat /\ d.deleted \in Nat
        /\ d.common_mask \in Word /\ d.common_bits \in Word /\ d.perfect_bit \in Word
    <3>1. t.elems \in Nat /\ t.common_bits \in Word
      BY TableParts
    <3>2. 0 \in Nat
      OBVIOUS
    <3> QED BY <1>1, <1>2, <1>4, <1>5, <3>1, <3>2
  <2> DEFINE Tables == UNION {[0..(k - 1) -> Word] : k \in Nat}
  <2>5. d.table \in Tables
    BY <2>3
  <2> HIDE DEF Tables
  <2>6. d \in [bits : Nat, elems : Nat, deleted : Nat, max : Nat,
              max_with_deleted : Nat, common_mask : Word, common_bits : Word,
              perfect_bit : Word, table : Tables]
    BY <2>1, <2>2, <2>4, <2>5
  <2> QED BY <2>6 DEF Fields, Tables
<1>10. Valid(d) = {} /\ Markers(d) = {}
  BY <1>8 DEF Valid, Markers, entry_is_valid, Zero, HTABLE_DELETED
<1>11. \A A, r : Masks(t, A, r) => Masks(d, A, r)
  BY <1>4, <1>5 DEF Masks
<1> QED BY <1>5, <1>6, <1>7, <1>8, <1>9, <1>10, <1>11 DEF IsTable

LEMMA DoubleTable ==
  ASSUME Hashed(hash), NEW t, IsTable(t), NEW r, TopBit(r),
         NEW A, A \subseteq Ptrs, Shared(t, A, r), Content(t, hash, A)
  PROVE  LET u == double_table(t)
         IN  /\ SameShape(Doubled(t), u) /\ Content(u, hash, A)
             /\ Reached(u, hash) /\ Markers(u) = {}
<1> DEFINE n == Size(t)
           d == Doubled(t)
           Sofar(i) == {Owner(t, j) : j \in {k \in Valid(t) : k < i}}
           J(u, i) == /\ SameShape(d, u) /\ Content(u, hash, Sofar(i))
                      /\ Reached(u, hash) /\ Markers(u) = {}
<1>1. PICK h : /\ h[0] = d /\ h[n] = double_table(t)
               /\ \A i \in 0..(n - 1) : h[i + 1] = Carry(t, h[i], i)
  <2>1. n \in Nat
    BY TableParts
  <2> HIDE DEF d
  <2> QED BY <2>1, TablesOfLoops DEF d
<1>2. n \in Nat \ {0} /\ DOMAIN t.table = 0..(n - 1) /\ Valid(t) \subseteq 0..(n - 1)
  BY TableParts DEF IsTable, Valid
<1>3. /\ IsTable(d) /\ Valid(d) = {} /\ Markers(d) = {} /\ Size(d) = 2 * n
      /\ d.common_mask = t.common_mask /\ d.common_bits = t.common_bits
      /\ \A B : Masks(t, B, r) => Masks(d, B, r)
  <2> HIDE DEF d
  <2> QED BY Doubling DEF d
<1> HIDE DEF d
<1>4. Sofar(0) = {} /\ Sofar(n) = A
  <2>1. Sofar(n) = A
    BY <1>2 DEF Content
  <2>2. \A k \in Valid(t) : ~(k < 0)
    BY <1>2
  <2> QED BY <2>1, <2>2
<1>5. \A i : Sofar(i) \subseteq A
  BY DEF Content
<1>6. J(h[0], 0)
  <2>1. SameShape(d, d)
    BY <1>3 DEF SameShape
  <2>2. Content(d, hash, {})
    BY <1>3 DEF Content
  <2>3. Reached(d, hash)
    BY <1>3 DEF Reached
  <2> QED BY <1>1, <1>3, <1>4, <2>1, <2>2, <2>3
<1>7. ASSUME NEW i \in 0..(n - 1), J(h[i], i) PROVE J(h[i + 1], i + 1)
  <2> DEFINE u == h[i]
             p == Owner(t, i)
             B == Sofar(i)
  <2>1. h[i + 1] = IF entry_is_valid(t.table[i])
                   THEN ht_add(u, get_raw_ptr(u, t.table[i])) ELSE u
    BY <1>1 DEF Carry
  <2>2. CASE i \notin Valid(t)
    <3>1. h[i + 1] = u
      BY <1>2, <2>1, <2>2 DEF Valid
    <3>2. \A k \in Valid(t) : k < i + 1 <=> k < i
      BY <1>2, <2>2
    <3>3. Sofar(i + 1) = Sofar(i)
      BY <3>2
    <3> HIDE DEF Sofar
    <3> QED BY <1>7, <3>1, <3>3
  <2>3. CASE i \in Valid(t)
    <3>1. p \in A /\ p \in Ptrs /\ A # {}
      BY <2>3 DEF Content
    <3>2. p \notin B
      <4>1. \A j \in Valid(t) : j < i => Owner(t, j) # p
        BY <1>2, <2>3 DEF Content
      <4> QED BY <4>1
    <3>3. Sofar(i + 1) = B \cup {p}
      <4>1. \A k \in Valid(t) : k < i + 1 <=> k < i \/ k = i
        BY <1>2
      <4> QED BY <2>3, <4>1
    <3>4. /\ SameShape(d, u) /\ Content(u, hash, B) /\ Reached(u, hash)
          /\ Markers(u) = {}
      BY <1>7
    <3>5. B \subseteq Ptrs /\ B \subseteq A
      BY <1>5
    <3> HIDE DEF Sofar, B, J
    <3>6. get_raw_ptr(u, t.table[i]) = p
      BY <1>3, <3>4 DEF get_raw_ptr, Owner, SameShape
    <3>7. h[i + 1] = ht_add(u, p)
      BY <2>1, <2>3, <3>6 DEF Valid
    <3> HIDE DEF u, p
    <3>8. Masks(u, B \cup {p}, r)
      <4>1. Masks(d, A, r)
        BY <1>3, <3>1 DEF Shared
      <4> QED BY <3>1, <3>4, <3>5, <4>1 DEF Masks, SameShape
    <3>9. PICK free \in DOMAIN u.table : free \notin Valid(u)
      <4>1. IsTable(u) /\ Size(u) = 2 * n
        BY <1>3, <3>4, Shaped DEF SameShape
      <4>2. Cardinality(A) <= n /\ Cardinality(A) \in Nat /\ IsFiniteSet(A)
        BY Counted
      <4>3. Cardinality(B) <= Cardinality(A) /\ Cardinality(B) \in Nat
        BY <3>5, <4>2, FS_Subset, FS_CardinalityType
      <4>4. Cardinality(B) < Size(u)
        <5> HIDE DEF n
        <5> QED BY <1>2, <4>1, <4>2, <4>3
      <4> QED BY <3>4, <4>1, <4>4, Room
    <3>10. IsTable(u) /\ p \in Ptrs \ B
      BY <3>1, <3>2, <3>4 DEF SameShape
    <3>11. LET v == ht_add(u, p)
           IN  /\ SameShape(u, v) /\ Content(v, hash, B \cup {p})
               /\ Reached(v, hash) /\ Markers(v) \subseteq Markers(u)
      BY <3>4, <3>5, <3>8, <3>9, <3>10, Adding
    <3>12. SameShape(d, ht_add(u, p))
      BY <3>4, <3>11 DEF SameShape
    <3>13. Markers(ht_add(u, p)) = {}
      BY <3>4, <3>11
    <3> QED BY <3>3, <3>7, <3>11, <3>12, <3>13 DEF J
  <2> QED BY <2>2, <2>3
<1> HIDE DEF J, Sofar
<1> DEFINE S == {i \in 0..n : J(h[i], i)}
<1>8. \A i \in 0..n : i \in S
  <2>1. 0 \in S
    BY <1>2, <1>6
  <2>2. \A i \in 0..(n - 1) : i \in S => i + 1 \in S
    BY <1>2, <1>7
  <2>3. n \in Nat
    BY <1>2
  <2> HIDE DEF S, n
  <2> QED BY <2>1, <2>2, <2>3, Upto
<1>9. J(double_table(t), n)
  <2>1. n \in 0..n
    BY <1>2
  <2> QED BY <1>1, <1>8, <2>1
<1> QED BY <1>4, <1>9 DEF J, d

-----------------------------------------------------------------------------
(* A bucket that gives its entry up, or has none. *)

Emptied(t, b, w) == [t EXCEPT !.table = [@ EXCEPT ![b] = w]]

Loses(t, u, f, A, b) ==
  /\ SameShape(t, u) /\ Valid(u) = Valid(t) \ {b}
  /\ \A i \in Valid(u) : Owner(u, i) = Owner(t, i)
  /\ \A i \in DOMAIN t.table : i # b => u.table[i] = t.table[i]
  /\ b \in Valid(t) => Content(u, f, A \ {Owner(t, b)})
  /\ b \notin Valid(t) => Content(u, f, A)

LEMMA Losing ==
  ASSUME NEW f, NEW t, IsTable(t), NEW A, Content(t, f, A),
         NEW b \in DOMAIN t.table, NEW w \in {Zero, HTABLE_DELETED},
         NEW u, u = Emptied(t, b, w)
  PROVE  Loses(t, u, f, A, b) /\ u.table[b] = w
<1>1. w \in Word
  BY HtableAssumption DEF HtableAssumption, Zero, HTABLE_DELETED, Word, Bits
<1>2. /\ SameShape(t, u) /\ DOMAIN u.table = DOMAIN t.table /\ u.table[b] = w
      /\ \A i \in DOMAIN t.table : i # b => u.table[i] = t.table[i]
  BY <1>1, Writing DEF Emptied
<1>3. Valid(u) = Valid(t) \ {b}
  BY <1>2 DEF Valid, entry_is_valid
<1>4. ASSUME NEW i \in Valid(u)
      PROVE  i \in Valid(t) /\ i # b /\ u.table[i] = t.table[i]
             /\ Owner(u, i) = Owner(t, i)
  <2>1. i \in DOMAIN t.table /\ i # b /\ i \in Valid(t)
    BY <1>3 DEF Valid
  <2> QED BY <1>2, <2>1, Shaped DEF Owner
<1>5. \A i, q : Held(u, f, i, q) = Held(t, f, i, q)
  BY <1>2, Shaped
<1>6. ASSUME b \in Valid(t) PROVE Content(u, f, A \ {Owner(t, b)})
  <2>1. ASSUME NEW i \in Valid(u)
        PROVE  /\ Owner(u, i) \in A \ {Owner(t, b)}
               /\ u.table[i] = Held(u, f, i, Owner(u, i))
    BY <1>4, <1>5, <1>6 DEF Content
  <2>2. ASSUME NEW q \in A \ {Owner(t, b)} PROVE \E i \in Valid(u) : Owner(u, i) = q
    <3>1. PICK i \in Valid(t) : Owner(t, i) = q
      BY DEF Content
    <3>2. i \in Valid(u)
      BY <1>3, <3>1
    <3> QED BY <1>4, <3>1, <3>2
  <2>3. \A i, j \in Valid(u) : Owner(u, i) = Owner(u, j) => i = j
    BY <1>4 DEF Content
  <2> QED BY <2>1, <2>2, <2>3 DEF Content
<1>7. ASSUME b \notin Valid(t) PROVE Content(u, f, A)
  <2>1. Valid(u) = Valid(t)
    BY <1>3, <1>7
  <2> QED BY <1>4, <1>5, <2>1 DEF Content
<1> QED BY <1>2, <1>3, <1>4, <1>6, <1>7 DEF Loses

LEMMA LosingTo ==
  ASSUME NEW f, NEW t, IsTable(t), NEW A, Content(t, f, A),
         NEW b \in DOMAIN t.table
  PROVE  /\ Loses(t, Emptied(t, b, Zero), f, A, b)
         /\ Emptied(t, b, Zero).table[b] = Zero
         /\ Loses(t, Emptied(t, b, HTABLE_DELETED), f, A, b)
         /\ Emptied(t, b, HTABLE_DELETED).table[b] = HTABLE_DELETED
<1>1. ASSUME NEW w \in {Zero, HTABLE_DELETED}
      PROVE  Loses(t, Emptied(t, b, w), f, A, b) /\ Emptied(t, b, w).table[b] = w
  BY Losing
<1> QED BY <1>1

-----------------------------------------------------------------------------
(* rehash_table: seen from the first empty bucket s, no search goes round  *)
(* the table, so that the buckets behind the sweep are in order for good.  *)

LEMMA Arc ==
  ASSUME NEW n \in Nat \ {0}, NEW s \in 0..(n - 1), NEW x \in 0..(n - 1),
         NEW j \in 0..(n - 1), NEW k \in 0..(n - 1)
  PROVE  /\ Gap(n, x, s) <= Gap(n, j, s) =>
              (Gap(n, k, x) < Gap(n, j, x)
                 <=> Gap(n, x, s) <= Gap(n, k, s) /\ Gap(n, k, s) < Gap(n, j, s))
         /\ Gap(n, j, s) < Gap(n, x, s) =>
              (Gap(n, k, x) < Gap(n, j, x)
                 <=> Gap(n, x, s) <= Gap(n, k, s) \/ Gap(n, k, s) < Gap(n, j, s))
         /\ Gap(n, j, s) \in 0..(n - 1) /\ Gap(n, s, s) = 0
         /\ Gap(n, j, s) = Gap(n, k, s) => j = k
BY DEF Gap

(* Two buckets as far from s are one. *)
LEMMA ArcPlace ==
  ASSUME NEW n \in Nat \ {0}, NEW s \in 0..(n - 1),
         NEW j \in 0..(n - 1), NEW k \in 0..(n - 1)
  PROVE  /\ Gap(n, j, s) \in 0..(n - 1)
         /\ Gap(n, j, s) = Gap(n, k, s) => j = k
BY DEF Gap

(* What a search from x does not meet before d lies between them.          *)
LEMMA ArcBack ==
  ASSUME NEW n \in Nat \ {0}, NEW s \in 0..(n - 1), NEW x \in 0..(n - 1),
         NEW b \in 0..(n - 1), NEW d \in 0..(n - 1),
         Gap(n, x, s) <= Gap(n, b, s), ~(Gap(n, b, x) < Gap(n, d, x))
  PROVE  Gap(n, x, s) <= Gap(n, d, s) /\ Gap(n, d, s) <= Gap(n, b, s)
BY DEF Gap

Home(t, f, j) == hash_bucket(t, f[Owner(t, j)])

(* The sweep from s has done i buckets. *)
Swept(t, u, f, A, s, i) ==
  LET n == Size(t)
  IN  /\ SameShape(t, u) /\ Content(u, f, A) /\ u.table[s] = Zero
      /\ \A j \in Valid(u) : /\ 1 <= Gap(n, Home(u, f, j), s)
                             /\ Gap(n, Home(u, f, j), s) <= Gap(n, j, s)
      /\ \A j \in DOMAIN u.table : Gap(n, j, s) < i =>
           /\ u.table[j] # HTABLE_DELETED
           /\ j \in Valid(u) => Before(u, f, j, Owner(u, j)) \subseteq Valid(u)

LEMMA SweepStarts ==
  ASSUME NEW f, Hashed(f), NEW t, IsTable(t), NEW A, A \subseteq Ptrs,
         Content(t, f, A), Reached(t, f), NEW s \in DOMAIN t.table,
         t.table[s] = Zero
  PROVE  Swept(t, t, f, A, s, 0)
<1> DEFINE n == Size(t)
<1>1. n \in Nat \ {0} /\ DOMAIN t.table = 0..(n - 1)
  BY TableParts DEF IsTable
<1>2. SameShape(t, t)
  BY DEF SameShape
<1>3. ASSUME NEW j \in Valid(t)
      PROVE  1 <= Gap(n, Home(t, f, j), s) /\ Gap(n, Home(t, f, j), s) <= Gap(n, j, s)
  <2> DEFINE x == Home(t, f, j)
  <2>1. j \in 0..(n - 1) /\ j # s
    BY <1>1 DEF Valid, entry_is_valid
  <2>2. Owner(t, j) \in Ptrs
    BY DEF Content
  <2>3. x \in 0..(n - 1)
    BY <2>2, HashParts DEF Home
  <2>4. s \notin Before(t, f, j, Owner(t, j))
    BY DEF Reached
  <2>5. ~(Gap(n, s, x) < Gap(n, j, x))
    BY <2>4 DEF Before, Home
  <2> HIDE DEF x, n
  <2>6. Gap(n, s, x) \in Int /\ Gap(n, j, x) \in Int /\ s \in 0..(n - 1)
    BY <1>1, <2>1, <2>3 DEF Gap
  <2>7. 1 <= Gap(n, x, s) /\ Gap(n, x, s) <= Gap(n, j, s)
    <3>1. CASE x > s
      BY <1>1, <2>1, <2>3, <2>5, <3>1 DEF Gap
    <3>2. CASE x = s
      BY <1>1, <2>1, <2>3, <2>5, <3>2 DEF Gap
    <3>3. CASE x < s
      BY <1>1, <2>1, <2>3, <2>5, <3>3 DEF Gap
    <3> QED BY <2>3, <2>6, <3>1, <3>2, <3>3
  <2> QED BY <2>7 DEF x
<1>4. \A j \in DOMAIN t.table : ~(Gap(n, j, s) < 0)
  <2> HIDE DEF n
  <2> QED BY <1>1 DEF Gap
<1> QED BY <1>2, <1>3, <1>4 DEF Swept

LEMMA SweepEnds ==
  ASSUME NEW f, NEW t, IsTable(t), NEW A, NEW s \in DOMAIN t.table, NEW u,
         Swept(t, u, f, A, s, Size(t))
  PROVE  /\ SameShape(t, u) /\ Content(u, f, A) /\ Reached(u, f)
         /\ Markers(u) = {} /\ u.table[s] = Zero
<1> DEFINE n == Size(t)
<1>1. n \in Nat \ {0} /\ DOMAIN t.table = 0..(n - 1)
  BY TableParts DEF IsTable
<1>2. SameShape(t, u) /\ DOMAIN u.table = 0..(n - 1)
  BY <1>1, Shaped DEF Swept
<1>3. \A j \in DOMAIN u.table : Gap(n, j, s) < n
  <2> HIDE DEF n
  <2> QED BY <1>1, <1>2 DEF Gap
<1>4. Markers(u) = {}
  BY <1>3 DEF Swept, Markers
<1>5. \A j \in Valid(u) : Before(u, f, j, Owner(u, j)) \subseteq Valid(u)
  <2>1. Valid(u) \subseteq DOMAIN u.table
    BY DEF Valid
  <2> QED BY <1>3, <2>1 DEF Swept
<1>6. Reached(u, f)
  <2>1. \A j \in Valid(u) : u.table[j] # Zero
    BY DEF Valid, entry_is_valid
  <2> QED BY <1>5, <2>1 DEF Reached
<1> QED BY <1>4, <1>6 DEF Swept

(* Where an entry of bucket b goes when it is added again. *)
LEMMA Resettled ==
  ASSUME Hashed(hash), NEW t, IsTable(t), NEW r, TopBit(r), NEW A, A \subseteq Ptrs,
         Shared(t, A, r), NEW s \in DOMAIN t.table, NEW u,
         NEW i \in 0..(Size(t) - 1), Swept(t, u, hash, A, s, i),
         NEW b \in Valid(u), Gap(Size(t), b, s) = i,
         NEW c, c = Emptied(u, b, Zero),
         NEW v, v = ht_add(c, Owner(u, b))
  PROVE  Swept(t, v, hash, A, s, i + 1)
<1> DEFINE n == Size(t)
           p == Owner(u, b)
           x == hash_bucket(t, hash[p])
           off(k) == Gap(n, k, s)
<1>1. n \in Nat \ {0} /\ DOMAIN t.table = 0..(n - 1)
  BY TableParts DEF IsTable
<1>2. /\ SameShape(t, u) /\ Content(u, hash, A) /\ u.table[s] = Zero
      /\ \A j \in Valid(u) : /\ 1 <= off(Home(u, hash, j))
                             /\ off(Home(u, hash, j)) <= off(j)
      /\ \A j \in DOMAIN u.table : off(j) < i =>
           /\ u.table[j] # HTABLE_DELETED
           /\ j \in Valid(u) => Before(u, hash, j, Owner(u, j)) \subseteq Valid(u)
  BY DEF Swept
<1>3. /\ IsTable(u) /\ DOMAIN u.table = 0..(n - 1) /\ b \in 0..(n - 1)
      /\ Valid(u) \subseteq 0..(n - 1) /\ s # b
  BY <1>1, <1>2, Shaped DEF SameShape, Valid, entry_is_valid
<1>4. Loses(u, c, hash, A, b) /\ c.table[b] = Zero
  <2>1. b \in DOMAIN u.table /\ Zero \in {Zero, HTABLE_DELETED}
    BY <1>3
  <2>2. IsTable(u) /\ Content(u, hash, A)
    BY <1>2, <1>3
  <2> HIDE DEF p, x, n, off
  <2>3. Loses(u, c, hash, A, b)
    BY <2>1, <2>2, Losing
  <2>4. c.table[b] = Zero
    BY <2>1, <2>2, <2>3, Losing
  <2> QED BY <2>3, <2>4
<1>5. /\ SameShape(u, c) /\ Valid(c) = Valid(u) \ {b}
      /\ \A j \in Valid(c) : Owner(c, j) = Owner(u, j)
      /\ \A j \in 0..(n - 1) : j # b => c.table[j] = u.table[j]
      /\ Content(c, hash, A \ {p})
  BY <1>3, <1>4 DEF Loses
<1>6. p \in A /\ p \in Ptrs
  BY <1>2 DEF Content
<1> HIDE DEF p
<1>7. IsTable(c) /\ SameShape(t, c) /\ DOMAIN c.table = 0..(n - 1)
  BY <1>1, <1>2, <1>5, Shaped DEF SameShape
<1>8. x = Home(u, hash, b) /\ x = hash_bucket(c, hash[p]) /\ x \in 0..(n - 1)
      /\ 1 <= off(x) /\ off(x) <= i
  <2>1. x = Home(u, hash, b) /\ x = hash_bucket(c, hash[p])
    BY <1>2, <1>7, Shaped DEF Home, p
  <2>2. x \in 0..(n - 1)
    BY <1>6, HashParts
  <2> QED BY <1>2, <2>1, <2>2
<1> HIDE DEF x
<1>9. PICK d \in DOMAIN c.table \ Valid(c) :
        /\ ht_add(c, p) = Placed(c, hash, d, p)
        /\ Before(c, hash, d, p) \subseteq Valid(c)
  <2>1. b \in DOMAIN c.table \ Valid(c)
    BY <1>3, <1>5, <1>7
  <2> QED BY <1>6, <1>7, <2>1, AddPlace DEF Placed
<1>10. v = Placed(c, hash, d, p)
  BY <1>9 DEF p
<1>11. Gains(c, v, hash, A \ {p}, d, p)
  <2>1. Masks(c, A, r)
    BY <1>6, <1>7 DEF Shared, Masks, SameShape
  <2> DEFINE B == A \ {p}
  <2>2. B \cup {p} = A /\ B \subseteq Ptrs /\ p \in Ptrs \ B
    BY <1>6
  <2>3. Masks(c, B \cup {p}, r) /\ Content(c, hash, B)
    BY <1>5, <2>1, <2>2
  <2> HIDE DEF B
  <2>4. Gains(c, v, hash, B, d, p)
    BY <1>7, <1>9, <1>10, <2>2, <2>3, Placing
  <2> QED BY <2>4 DEF B
<1>12. /\ SameShape(c, v) /\ Valid(v) = Valid(c) \cup {d}
       /\ Owner(v, d) = p /\ \A j \in Valid(c) : Owner(v, j) = Owner(c, j)
       /\ \A j \in 0..(n - 1) : j # d => v.table[j] = c.table[j]
       /\ Content(v, hash, A)
  <2>1. (A \ {p}) \cup {p} = A
    BY <1>6
  <2> QED BY <1>7, <1>11, <2>1 DEF Gains
<1>13. /\ SameShape(t, v) /\ DOMAIN v.table = 0..(n - 1)
       /\ \A j, q : Before(v, hash, j, q) = Before(t, hash, j, q)
       /\ \A j, q : Before(u, hash, j, q) = Before(t, hash, j, q)
       /\ \A j, q : Before(c, hash, j, q) = Before(t, hash, j, q)
       /\ \A h : hash_bucket(v, h) = hash_bucket(t, h)
       /\ \A h : hash_bucket(u, h) = hash_bucket(t, h)
  <2>1. SameShape(t, v)
    BY <1>7, <1>12 DEF SameShape
  <2>2. ASSUME NEW w, SameShape(t, w)
        PROVE  /\ DOMAIN w.table = DOMAIN t.table
               /\ \A j, q : Before(w, hash, j, q) = Before(t, hash, j, q)
               /\ \A h : hash_bucket(w, h) = hash_bucket(t, h)
    BY <2>2, Shaped
  <2> QED BY <1>1, <1>2, <1>7, <2>1, <2>2
<1>14. d \in 0..(n - 1) /\ off(d) \in Nat /\ off(x) <= off(d) /\ off(d) <= i
  <2>1. b \notin Before(t, hash, d, p)
    BY <1>5, <1>9, <1>13
  <2>2. ~(Gap(n, b, x) < Gap(n, d, x))
    BY <1>1, <1>3, <2>1 DEF Before, x
  <2>3. d \in 0..(n - 1) /\ off(b) = i /\ s \in 0..(n - 1)
    BY <1>1, <1>7, <1>9
  <2> HIDE DEF n
  <2>4. off(d) \in 0..(n - 1)
    BY <1>1, <2>3, Arc
  <2>5. off(x) <= off(d) /\ off(d) <= off(b)
    BY <1>1, <1>3, <1>8, <2>2, <2>3, ArcBack
  <2> QED BY <1>1, <2>3, <2>4, <2>5
<1>15. d # s /\ v.table[s] = Zero
  <2>1. off(s) = 0
    <3> HIDE DEF n
    <3> QED BY <1>1 DEF Gap
  <2>2. d # s
    <3>1. off(x) \in Int
      <4> HIDE DEF n
      <4> QED BY <1>1, <1>8 DEF Gap
    <3> HIDE DEF off
    <3> QED BY <1>8, <1>14, <2>1, <3>1
  <2> QED BY <1>1, <1>2, <1>3, <1>5, <1>12, <2>2
<1>16. ASSUME NEW j \in Valid(v)
       PROVE  1 <= off(Home(v, hash, j)) /\ off(Home(v, hash, j)) <= off(j)
  <2>1. CASE j = d
    <3>1. Home(v, hash, j) = x
      BY <1>12, <1>13, <2>1 DEF Home, x
    <3> QED BY <1>8, <1>14, <2>1, <3>1
  <2>2. CASE j \in Valid(c)
    <3>1. Home(v, hash, j) = Home(u, hash, j) /\ j \in Valid(u)
      BY <1>5, <1>12, <1>13, <2>2 DEF Home
    <3> QED BY <1>2, <3>1
  <2> QED BY <1>12, <2>1, <2>2
<1>17. ASSUME NEW j \in DOMAIN v.table, off(j) < i + 1 PROVE v.table[j] # HTABLE_DELETED
  <2>0. j \in 0..(n - 1)
    BY <1>13
  <2>1. CASE j = d
    BY <1>12, <2>1 DEF Valid, entry_is_valid
  <2>2. CASE j # d /\ j = b
    BY <1>3, <1>4, <1>12, <2>2 DEF Zero, HTABLE_DELETED
  <2>3. CASE j # d /\ j # b
    <3>1. off(j) # i
      <4>1. Gap(n, j, s) = Gap(n, b, s) => j = b
        BY <1>1, <1>3, <2>0, ArcPlace
      <4> QED BY <2>3, <4>1
    <3>2. off(j) < i
      <4>1. off(j) \in 0..(n - 1)
        BY <1>1, <2>0, ArcPlace
      <4> QED BY <1>1, <1>17, <3>1, <4>1
    <3> QED BY <1>2, <1>3, <1>5, <1>12, <2>0, <2>3, <3>2
  <2> QED BY <2>1, <2>2, <2>3
<1>18. ASSUME NEW j \in Valid(v), off(j) < i + 1
       PROVE  Before(v, hash, j, Owner(v, j)) \subseteq Valid(v)
  <2>1. CASE j = d
    BY <1>9, <1>12, <1>13, <2>1
  <2>2. CASE j \in Valid(c)
    <3>1. j \in Valid(u) /\ j # b /\ j \in 0..(n - 1) /\ Owner(v, j) = Owner(u, j)
      BY <1>3, <1>5, <1>12, <2>2
    <3>2. off(j) < i
      <4>1. Gap(n, j, s) = Gap(n, b, s) => j = b
        BY <1>1, <1>3, <3>1, ArcPlace
      <4>2. off(j) \in 0..(n - 1)
        BY <1>1, <3>1, ArcPlace
      <4> QED BY <1>1, <1>18, <3>1, <4>1, <4>2
    <3>3. Before(u, hash, j, Owner(u, j)) \subseteq Valid(u)
      BY <1>2, <1>3, <3>1, <3>2
    <3>4. b \notin Before(u, hash, j, Owner(u, j))
      <4> DEFINE y == Home(u, hash, j)
      <4>1. off(y) <= off(j) /\ y \in 0..(n - 1)
        <5>1. Owner(u, j) \in Ptrs
          BY <1>2, <3>1 DEF Content
        <5>2. y \in 0..(n - 1)
          BY <1>13, <5>1, HashParts DEF Home
        <5> QED BY <1>2, <3>1, <5>2
      <4> HIDE DEF y
      <4>2. ~(Gap(n, b, y) < Gap(n, j, y))
        <5>1. /\ n \in Nat \ {0} /\ s \in 0..(n - 1) /\ y \in 0..(n - 1)
              /\ b \in 0..(n - 1) /\ j \in 0..(n - 1)
              /\ Gap(n, y, s) <= Gap(n, j, s) /\ ~(Gap(n, b, s) < Gap(n, j, s))
          <6>1. off(b) = i /\ off(b) \in Int /\ off(j) \in Int
            BY <1>1, <1>3, <3>1, ArcPlace
          <6>2. ~(off(b) < off(j))
            <7> HIDE DEF off
            <7> QED BY <3>2, <6>1
          <6> QED BY <1>1, <1>3, <3>1, <4>1, <6>2
        <5> HIDE DEF n, off
        <5> QED BY <5>1, Arc
      <4>3. Size(u) = n
        BY <1>2, Shaped
      <4> QED BY <4>2, <4>3 DEF Before, Home, y
    <3> QED BY <1>5, <1>12, <1>13, <3>1, <3>3, <3>4
  <2> QED BY <1>12, <2>1, <2>2
<1> QED BY <1>12, <1>13, <1>15, <1>16, <1>17, <1>18 DEF Swept

LEMMA SweepStep ==
  ASSUME Hashed(hash), NEW t, IsTable(t), NEW r, TopBit(r), NEW A, A \subseteq Ptrs,
         Shared(t, A, r), NEW s \in DOMAIN t.table, NEW u,
         NEW i \in 0..(Size(t) - 1), Swept(t, u, hash, A, s, i),
         NEW b, b = (i + s) % Size(t)
  PROVE  Swept(t, Resettle(u, b), hash, A, s, i + 1)
<1> DEFINE n == Size(t)
           off(k) == Gap(n, k, s)
           c == Emptied(u, b, Zero)
<1>1. n \in Nat \ {0} /\ DOMAIN t.table = 0..(n - 1) /\ s \in 0..(n - 1)
  BY TableParts DEF IsTable
<1>2. b \in 0..(n - 1) /\ off(b) = i
  <2>1. b = Further(n, s, i)
    BY <1>1, RoundTable
  <2> HIDE DEF n
  <2>2. i \in 0..(n - 1)
    BY DEF n
  <2> QED BY <1>1, <2>1, <2>2 DEF Further, Gap
<1>3. /\ SameShape(t, u) /\ Content(u, hash, A) /\ u.table[s] = Zero
      /\ \A j \in Valid(u) : /\ 1 <= off(Home(u, hash, j))
                             /\ off(Home(u, hash, j)) <= off(j)
      /\ \A j \in DOMAIN u.table : off(j) < i =>
           /\ u.table[j] # HTABLE_DELETED
           /\ j \in Valid(u) => Before(u, hash, j, Owner(u, j)) \subseteq Valid(u)
  BY DEF Swept
<1>4. IsTable(u) /\ Size(u) = n /\ DOMAIN u.table = 0..(n - 1)
  BY <1>1, <1>3, Shaped DEF SameShape
<1>5. \A j \in 0..(n - 1) : off(j) < i + 1 => off(j) < i \/ j = b
  <2> SUFFICES ASSUME NEW j \in 0..(n - 1), off(j) < i + 1 PROVE off(j) < i \/ j = b
    OBVIOUS
  <2>1. off(j) \in 0..(n - 1) /\ (off(j) = off(b) => j = b)
    <3>1. b \in 0..(n - 1) /\ s \in 0..(n - 1) /\ n \in Nat \ {0}
      BY <1>1, <1>2
    <3> HIDE DEF n
    <3> QED BY <3>1, ArcPlace
  <2> HIDE DEF off, n
  <2>2. off(j) \in Int /\ i \in Int
    BY <2>1
  <2>3. off(j) < i \/ off(j) = i
    BY <2>2
  <2> QED BY <1>2, <2>1, <2>3
<1> HIDE DEF off
<1>6. CASE b \in Valid(u) /\ u.table[b] \cap u.perfect_bit = Zero
  <2>1. Resettle(u, b) = ht_add(c, Owner(u, b))
    <3>1. get_raw_ptr(c, u.table[b]) = Owner(u, b)
      BY DEF Owner, get_raw_ptr, Emptied
    <3>2. Resettle(u, b) = ht_add(c, get_raw_ptr(u, u.table[b]))
      BY <1>6 DEF Resettle, Emptied, Valid, entry_is_valid
    <3> QED BY <3>2 DEF Owner
  <2> HIDE DEF c
  <2>2. Swept(t, ht_add(c, Owner(u, b)), hash, A, s, i + 1)
    BY <1>2, <1>6, Resettled DEF c, off
  <2> QED BY <2>1, <2>2
<1>7. CASE b \in Valid(u) /\ u.table[b] \cap u.perfect_bit # Zero
  <2> DEFINE p == Owner(u, b)
  <2>1. Resettle(u, b) = u
    BY <1>7 DEF Resettle, Valid, entry_is_valid
  <2>2. p \in A /\ u.table[b] = Held(u, hash, b, p)
    BY <1>3, <1>7 DEF Content
  <2> HIDE DEF p
  <2>3. u.perfect_bit \subseteq u.common_mask
    BY <1>3, <2>2 DEF Shared, Masks, SameShape
  <2>4. b = hash_bucket(u, hash[p])
    <3> SUFFICES ASSUME b # hash_bucket(u, hash[p]) PROVE FALSE
      OBVIOUS
    <3>1. u.table[b] = (p \ u.common_mask) \cup get_hash_ptr_bits(u, hash[p])
      BY <2>2 DEF Held, HomeBit, make_hval, Zero
    <3>2. get_hash_ptr_bits(u, hash[p]) \cap u.perfect_bit = {}
      BY DEF get_hash_ptr_bits
    <3> QED BY <1>7, <2>3, <3>1, <3>2 DEF Zero
  <2>5. Before(u, hash, b, p) = {}
    <3>1. \A j \in 0..(n - 1) : ~(Gap(n, j, b) < Gap(n, b, b))
      <4> HIDE DEF n
      <4> QED BY <1>1, <1>2 DEF Gap
    <3> QED BY <1>4, <2>4, <3>1 DEF Before
  <2>6. \A j \in DOMAIN u.table : off(j) < i + 1 =>
           /\ u.table[j] # HTABLE_DELETED
           /\ j \in Valid(u) => Before(u, hash, j, Owner(u, j)) \subseteq Valid(u)
    BY <1>3, <1>4, <1>5, <1>7, <2>5 DEF Valid, entry_is_valid, p
  <2> QED BY <1>3, <2>1, <2>6 DEF Swept, off
<1>8. CASE u.table[b] = HTABLE_DELETED
  <2>1. Resettle(u, b) = c
    BY <1>8 DEF Resettle, Emptied
  <2> HIDE DEF c
  <2>2. b \notin Valid(u) /\ b # s
    BY <1>3, <1>8 DEF Valid, entry_is_valid, Zero, HTABLE_DELETED
  <2>3. Loses(u, c, hash, A, b) /\ c.table[b] = Zero
    <3>1. b \in DOMAIN u.table /\ Content(u, hash, A) /\ IsTable(u)
      BY <1>2, <1>3, <1>4
    <3> QED BY <3>1, LosingTo DEF c
  <2>4. /\ SameShape(u, c) /\ Valid(c) = Valid(u) /\ Content(c, hash, A)
        /\ \A j \in Valid(c) : Owner(c, j) = Owner(u, j)
        /\ \A j \in 0..(n - 1) : j # b => c.table[j] = u.table[j]
    BY <1>4, <2>2, <2>3 DEF Loses
  <2>5. /\ SameShape(t, c) /\ DOMAIN c.table = 0..(n - 1)
        /\ \A j, q : Before(c, hash, j, q) = Before(u, hash, j, q)
        /\ \A j \in Valid(c) : Home(c, hash, j) = Home(u, hash, j)
    <3>1. SameShape(t, c)
      BY <1>3, <2>4 DEF SameShape
    <3>2. \A h : hash_bucket(c, h) = hash_bucket(u, h)
      BY <1>4, <2>4, Shaped
    <3> QED BY <1>4, <2>4, <3>1, <3>2, Shaped DEF Home
  <2>6. c.table[s] = Zero
    BY <1>1, <1>3, <2>2, <2>4
  <2>7. \A j \in DOMAIN c.table : off(j) < i + 1 =>
           /\ c.table[j] # HTABLE_DELETED
           /\ j \in Valid(c) => Before(c, hash, j, Owner(c, j)) \subseteq Valid(c)
    <3> SUFFICES ASSUME NEW j \in 0..(n - 1), off(j) < i + 1
                 PROVE  /\ c.table[j] # HTABLE_DELETED
                        /\ j \in Valid(c) =>
                             Before(c, hash, j, Owner(c, j)) \subseteq Valid(c)
      BY <2>5
    <3>1. CASE j = b
      BY <2>2, <2>3, <2>4, <3>1 DEF Zero, HTABLE_DELETED
    <3>2. CASE off(j) < i /\ j # b
      BY <1>3, <1>4, <2>4, <2>5, <3>2
    <3> QED BY <1>5, <3>1, <3>2
  <2>8. \A j \in Valid(c) : /\ 1 <= off(Home(c, hash, j))
                            /\ off(Home(c, hash, j)) <= off(j)
    BY <1>3, <2>4, <2>5
  <2> QED BY <2>1, <2>4, <2>5, <2>6, <2>7, <2>8 DEF Swept, off
<1>9. CASE u.table[b] = Zero
  <2>1. Resettle(u, b) = u /\ b \notin Valid(u)
    BY <1>9 DEF Resettle, Valid, entry_is_valid, Zero, HTABLE_DELETED
  <2>2. \A j \in DOMAIN u.table : off(j) < i + 1 =>
           /\ u.table[j] # HTABLE_DELETED
           /\ j \in Valid(u) => Before(u, hash, j, Owner(u, j)) \subseteq Valid(u)
    BY <1>3, <1>4, <1>5, <1>9, <2>1 DEF Zero, HTABLE_DELETED
  <2> QED BY <1>3, <2>1, <2>2 DEF Swept, off
<1>10. b \in Valid(u) \/ u.table[b] = HTABLE_DELETED \/ u.table[b] = Zero
  BY <1>2, <1>4 DEF Valid, entry_is_valid
<1> QED BY <1>6, <1>7, <1>8, <1>9, <1>10

LEMMA Sweeping ==
  ASSUME Hashed(hash), NEW t, IsTable(t), NEW r, TopBit(r), NEW A, A \subseteq Ptrs,
         Shared(t, A, r), Content(t, hash, A), Reached(t, hash),
         NEW e \in DOMAIN t.table, t.table[e] = Zero
  PROVE  /\ SameShape(t, Sweep(t)) /\ Content(Sweep(t), hash, A)
         /\ Reached(Sweep(t), hash) /\ Markers(Sweep(t)) = {}
<1> DEFINE n == Size(t)
           s == FirstEmpty(t)
<1>1. n \in Nat \ {0} /\ DOMAIN t.table = 0..(n - 1)
  BY TableParts DEF IsTable
<1>2. s \in DOMAIN t.table /\ t.table[s] = Zero
  <2> DEFINE E == {i \in DOMAIN t.table : t.table[i] = Zero}
  <2>1. E \subseteq Nat /\ E # {}
    BY <1>1
  <2>2. Min(E) \in E
    <3> HIDE DEF E
    <3> QED BY <2>1, LeastOf
  <2> QED BY <2>2 DEF FirstEmpty
<1>3. PICK h : /\ h[0] = t /\ h[n] = Sweep(t)
               /\ \A i \in 0..(n - 1) : h[i + 1] = Resettle(h[i], (i + s) % n)
  <2>1. n \in Nat
    BY <1>1
  <2> QED BY <2>1, TablesOfLoops
<1> HIDE DEF s
<1> DEFINE S == {i \in 0..n : Swept(t, h[i], hash, A, s, i)}
<1>4. 0 \in S
  <2>1. Swept(t, h[0], hash, A, s, 0)
    BY <1>2, <1>3, SweepStarts
  <2> QED BY <1>1, <2>1
<1>5. ASSUME NEW i \in 0..(n - 1), i \in S PROVE i + 1 \in S
  <2>1. Swept(t, Resettle(h[i], (i + s) % n), hash, A, s, i + 1)
    BY <1>2, <1>5, SweepStep
  <2>2. i + 1 \in 0..n
    BY <1>1
  <2> QED BY <1>3, <2>1, <2>2
<1>6. n \in S
  <2>1. n \in Nat /\ n \in 0..n
    BY <1>1
  <2> HIDE DEF S, n
  <2> QED BY <1>4, <1>5, <2>1, Upto
<1>7. Swept(t, Sweep(t), hash, A, s, Size(t))
  BY <1>3, <1>6
<1> QED BY <1>2, <1>7, SweepEnds

-----------------------------------------------------------------------------
(* The counters do not matter to what a table stands for. *)

Alike(t, u) ==
  /\ u.bits = t.bits /\ u.table = t.table /\ u.common_mask = t.common_mask
  /\ u.common_bits = t.common_bits /\ u.perfect_bit = t.perfect_bit

LEMMA SameBuckets ==
  ASSUME NEW t, IsTable(t), NEW u, Alike(t, u)
  PROVE  /\ Size(u) = Size(t) /\ Valid(u) = Valid(t) /\ Markers(u) = Markers(t)
         /\ \A f, A : Content(t, f, A) => Content(u, f, A)
         /\ \A f : Reached(t, f) => Reached(u, f)
         /\ \A A, r : Masks(t, A, r) => Masks(u, A, r)
<1>0. /\ u.bits = t.bits /\ u.table = t.table /\ u.common_mask = t.common_mask
      /\ u.common_bits = t.common_bits /\ u.perfect_bit = t.perfect_bit
  BY DEF Alike
<1>1. Size(u) = Size(t) /\ Valid(u) = Valid(t) /\ Markers(u) = Markers(t)
  BY <1>0 DEF Size, Valid, Markers
<1>2. \A i : Owner(u, i) = Owner(t, i)
  BY <1>0 DEF Owner, get_raw_ptr
<1>3. \A h : hash_bucket(u, h) = hash_bucket(t, h)
  BY <1>0 DEF hash_bucket
<1>4. \A f, i, p : Held(u, f, i, p) = Held(t, f, i, p)
  BY <1>0, <1>3 DEF Held, make_hval, get_hash_ptr_bits, HomeBit
<1>5. \A f, i, p : Before(u, f, i, p) = Before(t, f, i, p)
  BY <1>0, <1>1, <1>3 DEF Before
<1>6. \A f, A : Content(t, f, A) => Content(u, f, A)
  BY <1>0, <1>1, <1>2, <1>4 DEF Content
<1>7. \A f : Reached(t, f) => Reached(u, f)
  BY <1>0, <1>1, <1>2, <1>5 DEF Reached
<1> QED BY <1>0, <1>1, <1>6, <1>7 DEF Masks

-----------------------------------------------------------------------------
(* update_common: the entries keep their buckets and get back the bits in  *)
(* which the new one differs.                                              *)

LEMMA UnsharedWord ==
  ASSUME NEW q, NEW mask, NEW bits, NEW hb, NEW home, NEW D,
         D \subseteq mask, hb \subseteq mask, home \subseteq mask, bits \subseteq mask,
         q \cap mask = bits
  PROVE  (((q \ mask) \cup (hb \cup home)) \ D) \cup (bits \cap D)
           = (q \ (mask \ D)) \cup ((hb \ D) \cup (home \ D))
OBVIOUS

LEMMA Unsharing ==
  ASSUME NEW f, NEW t, IsTable(t), NEW r, TopBit(r), NEW A, A \subseteq Ptrs,
         Masks(t, A, r), Content(t, f, A), Reached(t, f), NEW p \in Ptrs,
         NEW u, u = Unshare(t, p)
  PROVE  /\ IsTable(u) /\ u.bits = t.bits /\ u.elems = t.elems
         /\ u.deleted = t.deleted /\ u.max = t.max
         /\ u.max_with_deleted = t.max_with_deleted
         /\ Content(u, f, A) /\ Reached(u, f) /\ Masks(u, A \cup {p}, r)
         /\ Markers(u) = Markers(t)
<1> DEFINE D == Xor(t.common_bits, p \cap t.common_mask)
           T == [i \in DOMAIN t.table |->
                  IF entry_is_valid(t.table[i])
                  THEN (t.table[i] \ D) \cup (t.common_bits \cap D)
                  ELSE t.table[i]]
<1>1. t \in Fields /\ t.common_mask \in Word /\ t.common_bits \in Word
      /\ t.perfect_bit \in Word /\ t.table \in [0..(Size(t) - 1) -> Word]
      /\ DOMAIN t.table = 0..(Size(t) - 1)
  BY TableParts DEF IsTable
<1>2. t.common_bits \subseteq t.common_mask /\ t.perfect_bit \subseteq t.common_mask
      /\ r \notin t.common_mask /\ \A q \in A : q \cap t.common_mask = t.common_bits
  BY DEF Masks
<1>3. D \subseteq t.common_mask
  BY <1>2 DEF Xor
<1>4. p \cap (t.common_mask \ D) = t.common_bits \ D
  BY <1>2 DEF Xor
<1>5. /\ u.bits = t.bits /\ u.elems = t.elems
      /\ u.deleted = t.deleted /\ u.max = t.max
      /\ u.max_with_deleted = t.max_with_deleted
      /\ u.table = T /\ u.common_mask = t.common_mask \ D
      /\ u.common_bits = t.common_bits \ D /\ u.perfect_bit = t.perfect_bit \ D
  BY <1>1 DEF Unshare, Fields
<1> HIDE DEF D
<1>6. T \in [0..(Size(t) - 1) -> Word] /\ DOMAIN T = DOMAIN t.table
  BY <1>1 DEF Word
<1>7. IsTable(u)
  <2>1. u.table \in UNION {[0..(k - 1) -> Word] : k \in Nat}
    <3>1. Size(t) \in Nat
      BY TableParts
    <3>2. T \in UNION {[0..(k - 1) -> Word] : k \in Nat}
      <4> HIDE DEF T
      <4> QED BY <1>6, <3>1, AnyTable, Zenon
    <3> HIDE DEF T
    <3> QED BY <1>5, <3>2, Zenon
  <2>2. u.common_mask \in Word /\ u.common_bits \in Word /\ u.perfect_bit \in Word
    BY <1>1, <1>5 DEF Word
  <2>3. u = [bits |-> u.bits, elems |-> u.elems, deleted |-> u.deleted,
             max |-> u.max, max_with_deleted |-> u.max_with_deleted,
             common_mask |-> u.common_mask, common_bits |-> u.common_bits,
             perfect_bit |-> u.perfect_bit, table |-> u.table]
    BY <1>1 DEF Unshare, Fields
  <2>4. /\ u.bits \in Nat /\ u.elems \in Nat /\ u.deleted \in Nat /\ u.max \in Nat
        /\ u.max_with_deleted \in Nat
    BY <1>5, TableParts
  <2>5. Size(u) = Size(t)
    BY <1>5 DEF Size
  <2>6. DOMAIN u.table = 0..(Size(u) - 1)
    BY <1>1, <1>5, <1>6, <2>5
  <2> DEFINE Tables == UNION {[0..(k - 1) -> Word] : k \in Nat}
  <2>7. u.table \in Tables
    BY <2>1
  <2> HIDE DEF Tables, T
  <2>8. u \in [bits : Nat, elems : Nat, deleted : Nat, max : Nat,
              max_with_deleted : Nat, common_mask : Word, common_bits : Word,
              perfect_bit : Word, table : Tables]
    BY <2>2, <2>3, <2>4, <2>7
  <2> QED BY <2>6, <2>8 DEF IsTable, Fields, Tables
<1>8. Masks(u, A \cup {p}, r)
  BY <1>2, <1>4, <1>5 DEF Masks
<1>9. ASSUME NEW i \in Valid(t)
      PROVE  /\ u.table[i] = Held(u, f, i, Owner(t, i)) /\ entry_is_valid(u.table[i])
             /\ Owner(u, i) = Owner(t, i)
  <2> DEFINE q == Owner(t, i)
             hb == get_hash_ptr_bits(t, f[q])
             home == HomeBit(t, f, i, q)
  <2>1. q \in A /\ q \in Ptrs /\ t.table[i] = Held(t, f, i, q) /\ i \in DOMAIN t.table
        /\ entry_is_valid(t.table[i])
    BY DEF Content, Valid
  <2> HIDE DEF q
  <2>2. t.table[i] = (q \ t.common_mask) \cup (hb \cup home)
    BY <2>1 DEF Held, make_hval
  <2>3. hb \subseteq t.common_mask /\ home \subseteq t.common_mask
    BY <1>2 DEF get_hash_ptr_bits, HomeBit, Zero
  <2>4. get_hash_ptr_bits(u, f[q]) = hb \ D
    BY <1>5 DEF get_hash_ptr_bits
  <2>5. HomeBit(u, f, i, q) = home \ D
    BY <1>5 DEF HomeBit, hash_bucket, Zero
  <2>6. Held(u, f, i, q) = (q \ (t.common_mask \ D)) \cup ((hb \ D) \cup (home \ D))
    BY <1>5, <2>4, <2>5 DEF Held, make_hval
  <2> HIDE DEF hb, home
  <2>7. q \cap t.common_mask = t.common_bits
    BY <1>2, <2>1
  <2>8. (t.table[i] \ D) \cup (t.common_bits \cap D) = Held(u, f, i, q)
    BY <1>2, <1>3, <2>2, <2>3, <2>6, <2>7, UnsharedWord
  <2>9. u.table[i] = Held(u, f, i, q)
    BY <1>5, <2>1, <2>8
  <2>10. q \cap u.common_mask = u.common_bits /\ r \notin u.common_mask
         /\ u.perfect_bit \subseteq u.common_mask
    BY <1>8, <2>1 DEF Masks
  <2>11. entry_is_valid(Held(u, f, i, q))
         /\ (Held(u, f, i, q) \ u.common_mask) \cup u.common_bits = q
    BY <2>1, <2>10, HeldShows
  <2> QED BY <2>9, <2>11 DEF Owner, get_raw_ptr, q
<1>10. \A i \in DOMAIN t.table : i \notin Valid(t) => u.table[i] = t.table[i]
  <2> SUFFICES ASSUME NEW i \in DOMAIN t.table, i \notin Valid(t)
               PROVE  u.table[i] = t.table[i]
    OBVIOUS
  <2>1. ~entry_is_valid(t.table[i])
    BY DEF Valid
  <2>2. T[i] = t.table[i]
    BY <2>1
  <2> HIDE DEF T
  <2> QED BY <1>5, <2>2, Zenon
<1>11. Valid(u) = Valid(t) /\ DOMAIN u.table = DOMAIN t.table
  <2> HIDE DEF T
  <2>1. DOMAIN u.table = DOMAIN t.table
    BY <1>5, <1>6
  <2>2. ASSUME NEW i \in DOMAIN t.table
        PROVE  i \in Valid(u) <=> i \in Valid(t)
    <3>1. CASE i \in Valid(t)
      BY <1>9, <2>1, <3>1 DEF Valid
    <3>2. CASE i \notin Valid(t)
      BY <1>10, <2>1, <3>2 DEF Valid
    <3> QED BY <3>1, <3>2
  <2>3. Valid(u) \subseteq DOMAIN t.table /\ Valid(t) \subseteq DOMAIN t.table
    BY <2>1 DEF Valid
  <2> QED BY <2>1, <2>2, <2>3
<1> HIDE DEF T
<1>12. Markers(u) = Markers(t)
  BY <1>9, <1>10, <1>11 DEF Markers, Valid, entry_is_valid
<1>13. Content(u, f, A)
  <2>1. \A i \in Valid(u) : Owner(u, i) \in A /\ u.table[i] = Held(u, f, i, Owner(u, i))
    BY <1>9, <1>11 DEF Content
  <2>2. \A q \in A : \E i \in Valid(u) : Owner(u, i) = q
    BY <1>9, <1>11 DEF Content
  <2>3. \A i, j \in Valid(u) : Owner(u, i) = Owner(u, j) => i = j
    BY <1>9, <1>11 DEF Content
  <2> QED BY <2>1, <2>2, <2>3 DEF Content
<1>14. Reached(u, f)
  <2>1. \A h : hash_bucket(u, h) = hash_bucket(t, h)
    BY <1>5 DEF hash_bucket
  <2>2. Size(u) = Size(t)
    BY <1>5 DEF Size
  <2>3. \A i, q : Before(u, f, i, q) = Before(t, f, i, q)
    BY <1>11, <2>1, <2>2 DEF Before
  <2>4. \A i \in DOMAIN t.table : t.table[i] # Zero => u.table[i] # Zero
    BY <1>9, <1>10 DEF entry_is_valid
  <2>5. \A i \in Valid(t) : Before(t, f, i, Owner(t, i)) \subseteq DOMAIN t.table
    BY DEF Before
  <2> QED BY <1>9, <1>11, <2>3, <2>4, <2>5 DEF Reached
<1> QED BY <1>5, <1>7, <1>8, <1>12, <1>13, <1>14

LEMMA TopmostBit ==
  ASSUME NEW r, TopBit(r), NEW p \in Ptrs
  PROVE  Max(p) = r
<1>1. p \subseteq Nat
  BY HtableAssumption DEF HtableAssumption, Word, Bits
<1>2. r \in p /\ \A y \in p : r >= y
  BY <1>1 DEF TopBit
<1>3. Max(p) \in p /\ \A y \in p : Max(p) >= y
  BY <1>2 DEF Max
<1>4. Max(p) >= r /\ r >= Max(p) /\ r \in Nat /\ Max(p) \in Nat
  BY <1>1, <1>2, <1>3
<1> QED BY <1>4

(* The first entry of a table settles the bits that are not stored.        *)
LEMMA FirstPointer ==
  ASSUME NEW t, IsTable(t), NEW r, TopBit(r), NEW p \in Ptrs, t.elems = 0,
         NEW u, u = update_common(t, p)
  PROVE  /\ IsTable(u) /\ u.bits = t.bits /\ u.elems = t.elems
         /\ u.deleted = t.deleted /\ u.max = t.max
         /\ u.max_with_deleted = t.max_with_deleted
         /\ Masks(u, {p}, r) /\ u.table = t.table
<1> DEFINE mask == Bits \ {r}
<1>1. u = [t EXCEPT !.common_mask = mask, !.common_bits = p \cap mask,
                    !.perfect_bit = {0}]
  BY TopmostBit DEF update_common, Revealed
<1>2. r \in Bits \ {0} /\ 0 \in Bits
  BY HtableAssumption DEF HtableAssumption, TopBit, Bits
<1>3. mask \in Word /\ p \cap mask \in Word /\ {0} \in Word /\ {0} \subseteq mask
  BY <1>2 DEF Word
<1> HIDE DEF mask
<1> DEFINE Tables == UNION {[0..(k - 1) -> Word] : k \in Nat}
<1>4. t \in [bits : Nat, elems : Nat, deleted : Nat, max : Nat,
             max_with_deleted : Nat, common_mask : Word, common_bits : Word,
             perfect_bit : Word, table : Tables]
  BY DEF IsTable, Fields
<1> HIDE DEF Tables
<1>5. /\ u.bits = t.bits /\ u.elems = t.elems
      /\ u.deleted = t.deleted /\ u.max = t.max
      /\ u.max_with_deleted = t.max_with_deleted /\ u.table = t.table
      /\ u.common_mask = mask /\ u.common_bits = p \cap mask /\ u.perfect_bit = {0}
  BY <1>1, <1>4
<1>6. u \in [bits : Nat, elems : Nat, deleted : Nat, max : Nat,
             max_with_deleted : Nat, common_mask : Word, common_bits : Word,
             perfect_bit : Word, table : Tables]
  BY <1>1, <1>3, <1>4
<1>7. Size(u) = Size(t)
  BY <1>5 DEF Size
<1>8. IsTable(u)
  BY <1>5, <1>6, <1>7 DEF IsTable, Fields, Tables
<1>9. Masks(u, {p}, r)
  BY <1>2, <1>3, <1>5 DEF Masks, mask
<1> QED BY <1>5, <1>8, <1>9

-----------------------------------------------------------------------------
(* Counters. *)

(* Entries and markers leave a bucket empty. *)
LEMMA EmptyBucket ==
  ASSUME NEW t, IsTable(t), NEW f, NEW A, Content(t, f, A),
         Cardinality(A) + Cardinality(Markers(t)) < Size(t)
  PROVE  \E i \in DOMAIN t.table : t.table[i] = Zero
<1> SUFFICES ASSUME \A i \in DOMAIN t.table : t.table[i] # Zero PROVE FALSE
  OBVIOUS
<1>1. DOMAIN t.table = Valid(t) \cup Markers(t) /\ Valid(t) \cap Markers(t) = {}
  BY DEF Valid, Markers, entry_is_valid
<1>2. IsFiniteSet(Valid(t)) /\ Cardinality(Valid(t)) = Cardinality(A)
      /\ Cardinality(A) \in Nat
  BY Counted
<1>3. IsFiniteSet(Markers(t)) /\ Cardinality(Markers(t)) \in Nat
  <2>1. Markers(t) \subseteq DOMAIN t.table
    BY DEF Markers
  <2> QED BY <2>1, Domains, FS_Subset, FS_CardinalityType
<1>4. Cardinality(Valid(t) \cup Markers(t))
        = Cardinality(Valid(t)) + Cardinality(Markers(t)) - Cardinality({})
  BY <1>1, <1>2, <1>3, FS_Union
<1>5. Cardinality(DOMAIN t.table) = Size(t) /\ Size(t) \in Nat
      /\ Cardinality({}) = 0
  BY Domains, TableParts, FS_EmptySet
<1> QED BY <1>1, <1>2, <1>3, <1>4, <1>5

(* No more entries exist than addresses below the bit that all have.       *)
LEMMA FewEntries ==
  ASSUME NEW r, TopBit(r), NEW A, A \subseteq Ptrs
  PROVE  IsFiniteSet(A) /\ Cardinality(A) \in Nat
         /\ Width - 1 \in Nat /\ Cardinality(A) <= 2 ^ (Width - 1)
<1> DEFINE P == SUBSET (0..(Width - 2))
           g == [p \in A |-> p \ {r}]
<1>1. Width \in Nat /\ r \in Nat /\ r <= Width - 1 /\ r # 0
  BY HtableAssumption DEF HtableAssumption, TopBit, Bits
<1>2. ASSUME NEW p \in A PROVE p \ {r} \in P /\ r \in p
  <2>1. p \in Word /\ r \in p /\ \A i \in p : i <= r
    BY HtableAssumption DEF HtableAssumption, TopBit
  <2>2. ASSUME NEW i \in p \ {r} PROVE i \in 0..(Width - 2)
    <3>1. i \in 0..(Width - 1) /\ i <= r /\ i # r
      BY <2>1 DEF Word, Bits
    <3> QED BY <1>1, <3>1
  <2> QED BY <2>1, <2>2
<1>3. g \in Injection(A, P)
  <2>1. g \in [A -> P]
    BY <1>2
  <2>2. \A p, q \in A : g[p] = g[q] => p = q
    <3> SUFFICES ASSUME NEW p \in A, NEW q \in A, p \ {r} = q \ {r} PROVE p = q
      OBVIOUS
    <3>1. r \in p /\ r \in q
      BY <1>2
    <3>2. p = (p \ {r}) \cup {r} /\ q = (q \ {r}) \cup {r}
      BY <3>1
    <3> QED BY <3>2
  <2> HIDE DEF g, P
  <2> QED BY <2>1, <2>2 DEF Injection, IsInjective
<1>4. IsFiniteSet(P) /\ Cardinality(P) = 2 ^ (Width - 1)
  <2>1. IsFiniteSet(0..(Width - 2)) /\ Cardinality(0..(Width - 2)) = Width - 1
    BY <1>1, FS_Interval
  <2> QED BY <2>1, FS_SUBSET
<1> HIDE DEF P, g
<1>5. IsFiniteSet(A) /\ Cardinality(A) <= 2 ^ (Width - 1)
  BY <1>3, <1>4, FS_Injection DEF ExistsInjection
<1> QED BY <1>1, <1>5, FS_CardinalityType

(* The invariant: the table t stands for the set A. *)
Unset(t, A) == A = {} /\ t.common_mask = Bits /\ t.common_bits = Zero

Stands(t, f, A, r) ==
  /\ IsTable(t) /\ A \subseteq Ptrs
  /\ Content(t, f, A) /\ Reached(t, f)
  /\ Masks(t, A, r) \/ Unset(t, A)
  /\ t.max = (3 * Size(t)) \div 4 /\ t.max_with_deleted = (9 * Size(t)) \div 10
  /\ t.elems = Cardinality(A) /\ t.bits <= Width
  /\ Cardinality(Markers(t)) <= t.deleted

TableInv(t, f, A, r) ==
  /\ Stands(t, f, A, r)
  /\ t.elems <= t.max /\ t.elems + t.deleted <= t.max_with_deleted

LEMMA Limits ==
  ASSUME NEW n \in Nat \ {0}
  PROVE  /\ (3 * n) \div 4 \in Nat /\ (3 * n) \div 4 < n
         /\ (9 * n) \div 10 \in Nat /\ (9 * n) \div 10 < n
         /\ (3 * n) \div 4 <= (9 * n) \div 10
         /\ (3 * n) \div 4 + 1 <= (3 * (2 * n)) \div 4
OBVIOUS

LEMMA GrowsInTime ==
  ASSUME NEW r, TopBit(r), NEW f, NEW t, NEW A, Stands(t, f, A, r),
         NEW p \in Ptrs \ A, t.elems + 1 > t.max
  PROVE  t.bits + 1 <= Width
<1> DEFINE n == Size(t)
           w == 2 ^ (Width - 1)
<1>1. Cardinality(A) + 1 <= w /\ Width - 1 \in Nat
  <2>1. A \cup {p} \subseteq Ptrs /\ p \notin A /\ A \subseteq Ptrs
    BY DEF Stands
  <2>2. IsFiniteSet(A)
    BY <2>1, FewEntries
  <2>3. Cardinality(A \cup {p}) = Cardinality(A) + 1
    BY <2>1, <2>2, FS_AddElement
  <2>4. Cardinality(A \cup {p}) <= w /\ Width - 1 \in Nat
    BY <2>1, FewEntries
  <2> QED BY <2>3, <2>4
<1>2. /\ t.bits \in Nat /\ n \in Nat \ {0} /\ t.bits <= Width /\ t.elems \in Nat
      /\ Width \in Nat
  BY HtableAssumption, TableParts DEF HtableAssumption, Stands
<1> SUFFICES ASSUME t.bits = Width PROVE FALSE
  BY <1>1, <1>2
<1>3. n = 2 * w
  <2>1. Width = (Width - 1) + 1
    BY <1>2
  <2> QED BY <1>1, <2>1, Powers DEF Size
<1>4. w \in Nat \ {0}
  BY <1>1, Powers
<1>5. t.elems + 1 > (3 * n) \div 4 /\ t.elems = Cardinality(A)
  BY DEF Stands
<1> HIDE DEF w, n
<1> QED BY <1>1, <1>2, <1>3, <1>4, <1>5

-----------------------------------------------------------------------------
(* The steps of htable_add and of htable_del preserve the invariant. *)

LEMMA Numbers ==
  ASSUME NEW t, NEW f, NEW A, NEW r, Stands(t, f, A, r)
  PROVE  /\ t.elems \in Nat /\ t.deleted \in Nat /\ t.elems = Cardinality(A)
         /\ Size(t) \in Nat \ {0} /\ t.max \in Nat /\ t.max < Size(t)
         /\ t.max_with_deleted \in Nat /\ t.max_with_deleted < Size(t)
         /\ t.max <= t.max_with_deleted /\ Cardinality(Markers(t)) \in Nat
         /\ IsFiniteSet(Markers(t)) /\ IsFiniteSet(A)
<1> DEFINE n == Size(t)
<1>1. t.elems \in Nat /\ t.deleted \in Nat /\ n \in Nat \ {0}
  BY TableParts DEF Stands
<1>2. t.elems = Cardinality(A) /\ IsFiniteSet(A)
  BY Counted DEF Stands
<1>3. Cardinality(Markers(t)) \in Nat /\ IsFiniteSet(Markers(t))
  <2>1. Markers(t) \subseteq DOMAIN t.table
    BY DEF Markers
  <2> QED BY <2>1, Domains, FS_Subset, FS_CardinalityType DEF Stands
<1>4. t.max = (3 * n) \div 4 /\ t.max_with_deleted = (9 * n) \div 10
  BY DEF Stands
<1> HIDE DEF n
<1>5. /\ t.max \in Nat /\ t.max < n
      /\ t.max_with_deleted \in Nat /\ t.max_with_deleted < n
      /\ t.max <= t.max_with_deleted
  BY <1>1, <1>4, Limits
<1> QED BY <1>1, <1>2, <1>3, <1>5 DEF n

LEMMA Growing ==
  ASSUME Hashed(hash), NEW r, TopBit(r), NEW t, NEW A, TableInv(t, hash, A, r),
         NEW p \in Ptrs \ A, t.elems + 1 > t.max, NEW u, u = double_table(t)
  PROVE  TableInv(u, hash, A, r) /\ u.elems = t.elems /\ u.elems + 1 <= u.max
<1> DEFINE d == Doubled(t)
           n == Size(t)
<1>1. Stands(t, hash, A, r) /\ t.elems <= t.max
  BY DEF TableInv
<1>2. /\ IsTable(t) /\ A \subseteq Ptrs /\ Content(t, hash, A)
      /\ Masks(t, A, r) \/ Unset(t, A)
      /\ t.max = (3 * n) \div 4 /\ t.elems = Cardinality(A)
  BY <1>1 DEF Stands
<1>3. Shared(t, A, r)
  BY <1>2 DEF Shared, Unset
<1>4. /\ SameShape(d, u) /\ Content(u, hash, A)
      /\ Reached(u, hash) /\ Markers(u) = {}
  BY <1>2, <1>3, DoubleTable
<1> HIDE DEF d
<1>5. /\ IsTable(d) /\ Size(d) = 2 * n
      /\ d.bits = t.bits + 1 /\ d.elems = t.elems /\ d.deleted = 0
      /\ d.max = (3 * Size(d)) \div 4
      /\ d.max_with_deleted = (9 * Size(d)) \div 10
      /\ d.common_mask = t.common_mask /\ d.common_bits = t.common_bits
      /\ Masks(t, A, r) => Masks(d, A, r)
  BY <1>2, Doubling DEF d
<1>6. /\ IsTable(u) /\ Size(u) = 2 * n
      /\ u.bits = t.bits + 1 /\ u.elems = t.elems /\ u.deleted = 0
      /\ u.max = (3 * Size(u)) \div 4
      /\ u.max_with_deleted = (9 * Size(u)) \div 10
      /\ u.common_mask = t.common_mask /\ u.common_bits = t.common_bits
  BY <1>4, <1>5, Shaped DEF SameShape
<1>7. Masks(u, A, r) \/ Unset(u, A)
  <2>1. CASE Masks(t, A, r)
    <3>1. Masks(d, A, r)
      BY <1>5, <2>1
    <3> QED BY <1>4, <3>1 DEF Masks, SameShape
  <2>2. CASE Unset(t, A)
    BY <1>6, <2>2 DEF Unset
  <2> QED BY <1>2, <2>1, <2>2
<1>8. u.bits <= Width
  BY <1>1, <1>6, GrowsInTime
<1>9. Cardinality(Markers(u)) <= u.deleted
  BY <1>4, <1>6, FS_EmptySet
<1>10. Stands(u, hash, A, r)
  BY <1>2, <1>4, <1>6, <1>7, <1>8, <1>9 DEF Stands
<1>11. n \in Nat \ {0} /\ t.elems \in Nat /\ t.max \in Nat
  BY <1>1, Numbers
<1> HIDE DEF n
<1>12. u.elems + 1 <= u.max
  <2>1. (3 * n) \div 4 + 1 <= (3 * (2 * n)) \div 4
    BY <1>11, Limits
  <2> QED BY <1>1, <1>2, <1>6, <1>11, <2>1
<1>13. u.max <= u.max_with_deleted /\ u.max \in Nat /\ u.max_with_deleted \in Nat
       /\ u.elems \in Nat
  BY <1>10, Numbers
<1>14. u.elems + u.deleted <= u.max_with_deleted /\ u.elems <= u.max
  BY <1>6, <1>12, <1>13
<1> QED BY <1>6, <1>10, <1>12, <1>14 DEF TableInv

LEMMA Rehashing ==
  ASSUME Hashed(hash), NEW r, TopBit(r), NEW t, NEW A, TableInv(t, hash, A, r),
         NEW u, u = rehash_table(t)
  PROVE  /\ Stands(u, hash, A, r) /\ u.elems = t.elems /\ u.deleted = 0
         /\ u.max = t.max /\ u.max_with_deleted = t.max_with_deleted
<1> DEFINE w == Sweep(t)
           a == Cardinality(A)
           m == Cardinality(Markers(t))
<1>1. Stands(t, hash, A, r) /\ t.elems + t.deleted <= t.max_with_deleted
  BY DEF TableInv
<1>2. /\ IsTable(t) /\ A \subseteq Ptrs /\ Content(t, hash, A) /\ Reached(t, hash)
      /\ Masks(t, A, r) \/ Unset(t, A)
      /\ m <= t.deleted
  BY <1>1 DEF Stands
<1>3. Shared(t, A, r)
  BY <1>2 DEF Shared, Unset
<1>4. a + m < Size(t)
  <2>1. /\ t.elems \in Nat /\ t.deleted \in Nat /\ t.elems = a
        /\ Size(t) \in Nat /\ t.max_with_deleted \in Nat
        /\ t.max_with_deleted < Size(t) /\ m \in Nat
    BY <1>1, Numbers
  <2> HIDE DEF a, m
  <2> QED BY <1>1, <1>2, <2>1
<1>5. PICK e \in DOMAIN t.table : t.table[e] = Zero
  BY <1>2, <1>4, EmptyBucket
<1>6. SameShape(t, w) /\ Content(w, hash, A) /\ Reached(w, hash) /\ Markers(w) = {}
  BY <1>2, <1>3, <1>5, Sweeping
<1>7. u = [w EXCEPT !.deleted = 0]
  BY DEF rehash_table
<1> HIDE DEF w
<1> DEFINE Tables == UNION {[0..(k - 1) -> Word] : k \in Nat}
<1>8. w \in [bits : Nat, elems : Nat, deleted : Nat, max : Nat,
             max_with_deleted : Nat, common_mask : Word, common_bits : Word,
             perfect_bit : Word, table : Tables]
  BY <1>6 DEF SameShape, IsTable, Fields
<1> HIDE DEF Tables
<1>9. /\ u.bits = w.bits /\ u.elems = w.elems /\ u.deleted = 0 /\ u.max = w.max
      /\ u.max_with_deleted = w.max_with_deleted /\ u.table = w.table
      /\ u.common_mask = w.common_mask /\ u.common_bits = w.common_bits
      /\ u.perfect_bit = w.perfect_bit
  BY <1>7, <1>8
<1>10. u \in [bits : Nat, elems : Nat, deleted : Nat, max : Nat,
             max_with_deleted : Nat, common_mask : Word, common_bits : Word,
             perfect_bit : Word, table : Tables]
  BY <1>7, <1>8
<1>11. IsTable(w)
  BY <1>6 DEF SameShape
<1>12. /\ Size(u) = Size(w) /\ Valid(u) = Valid(w) /\ Markers(u) = Markers(w)
       /\ Content(u, hash, A) /\ Reached(u, hash)
       /\ \A B, q : Masks(w, B, q) => Masks(u, B, q)
  <2>1. Alike(w, u)
    BY <1>9 DEF Alike
  <2> QED BY <1>6, <1>11, <2>1, SameBuckets
<1>13. IsTable(u)
  BY <1>9, <1>10, <1>11, <1>12 DEF IsTable, Fields, Tables
<1>14. Masks(u, A, r) \/ Unset(u, A)
  <2>1. CASE Masks(t, A, r)
    <3>1. Masks(w, A, r)
      BY <1>6, <2>1 DEF Masks, SameShape
    <3> QED BY <1>12, <3>1
  <2>2. CASE Unset(t, A)
    BY <1>6, <1>9, <2>2 DEF Unset, SameShape
  <2> QED BY <1>2, <2>1, <2>2
<1>15. /\ u.elems = t.elems /\ u.max = t.max /\ u.bits = t.bits
       /\ u.max_with_deleted = t.max_with_deleted /\ Size(u) = Size(t)
  <2>1. Size(w) = Size(t)
    BY <1>2, <1>6, Shaped
  <2> QED BY <1>6, <1>9, <1>12, <2>1 DEF SameShape
<1>16. Cardinality(Markers(u)) <= u.deleted
  BY <1>6, <1>9, <1>12, FS_EmptySet
<1>17. Stands(u, hash, A, r)
  BY <1>1, <1>2, <1>12, <1>13, <1>14, <1>15, <1>16 DEF Stands
<1> QED BY <1>9, <1>15, <1>17

(* The last two parts of htable_add. *)
Readied(t, p) ==
  IF p \cap t.common_mask # t.common_bits THEN update_common(t, p) ELSE t

Entered(t, p) == [ht_add(t, p) EXCEPT !.elems = @ + 1]

(* When update_common is called: the bits of p are not the common ones.    *)
LEMMA Readying ==
  ASSUME NEW f, NEW r, TopBit(r), NEW t, NEW A, Stands(t, f, A, r),
         NEW p \in Ptrs \ A, NEW u, u = Readied(t, p)
  PROVE  /\ Stands(u, f, A, r) /\ Masks(u, A \cup {p}, r)
         /\ u.elems = t.elems /\ u.deleted = t.deleted /\ u.max = t.max
         /\ u.max_with_deleted = t.max_with_deleted
<1>1. /\ IsTable(t) /\ A \subseteq Ptrs /\ Content(t, f, A) /\ Reached(t, f)
      /\ Masks(t, A, r) \/ Unset(t, A)
      /\ t.elems = Cardinality(A)
      /\ t.max = (3 * Size(t)) \div 4
      /\ t.max_with_deleted = (9 * Size(t)) \div 10
      /\ t.bits <= Width /\ Cardinality(Markers(t)) <= t.deleted
  BY DEF Stands
<1>2. p # Zero /\ p \subseteq Bits
  BY HtableAssumption DEF HtableAssumption, Word
<1>3. CASE p \cap t.common_mask = t.common_bits
  <2>1. Masks(t, A, r)
    BY <1>1, <1>2, <1>3 DEF Unset
  <2>2. Masks(t, A \cup {p}, r)
    BY <1>3, <2>1 DEF Masks
  <2> QED BY <1>3, <2>2 DEF Readied
<1>4. CASE p \cap t.common_mask # t.common_bits
  <2>1. u = update_common(t, p)
    BY <1>4 DEF Readied
  <2>2. CASE t.elems = 0
    <3>1. A = {}
      BY <1>1, <2>2, Counted, FS_EmptySet
    <3>2. /\ IsTable(u) /\ u.bits = t.bits /\ u.elems = t.elems
          /\ u.deleted = t.deleted /\ u.max = t.max
          /\ u.max_with_deleted = t.max_with_deleted
          /\ Masks(u, {p}, r) /\ u.table = t.table
      BY <1>1, <2>1, <2>2, FirstPointer
    <3>3. Size(u) = Size(t) /\ Markers(u) = Markers(t)
      BY <3>2 DEF Size, Markers
    <3>4. Valid(t) = {}
      BY <1>1, <3>1 DEF Content
    <3>5. Valid(u) = {}
      BY <3>2, <3>4 DEF Valid
    <3>6. Content(u, f, A) /\ Reached(u, f)
      BY <3>1, <3>5 DEF Content, Reached
    <3>7. Masks(u, A, r) /\ Masks(u, A \cup {p}, r)
      BY <3>1, <3>2 DEF Masks
    <3>8. Stands(u, f, A, r)
      BY <1>1, <3>2, <3>3, <3>6, <3>7 DEF Stands
    <3> QED BY <3>2, <3>7, <3>8
  <2>3. CASE t.elems # 0
    <3>1. A # {}
      BY <1>1, <2>3, FS_EmptySet
    <3>2. Masks(t, A, r)
      BY <1>1, <3>1 DEF Unset
    <3> DEFINE g == Unshare(t, p)
    <3>3. u = g
      BY <2>1, <2>3 DEF update_common
    <3>4. /\ IsTable(u) /\ u.bits = t.bits /\ u.elems = t.elems
          /\ u.deleted = t.deleted /\ u.max = t.max
          /\ u.max_with_deleted = t.max_with_deleted
          /\ Content(u, f, A) /\ Reached(u, f) /\ Masks(u, A \cup {p}, r)
          /\ Markers(u) = Markers(t)
      <4>1. /\ IsTable(g) /\ g.bits = t.bits /\ g.elems = t.elems
            /\ g.deleted = t.deleted /\ g.max = t.max
            /\ g.max_with_deleted = t.max_with_deleted
            /\ Content(g, f, A) /\ Reached(g, f) /\ Masks(g, A \cup {p}, r)
            /\ Markers(g) = Markers(t)
        BY <1>1, <3>2, Unsharing
      <4> HIDE DEF g
      <4> QED BY <3>3, <4>1
    <3>5. Size(u) = Size(t) /\ Masks(u, A, r)
      BY <3>4 DEF Size, Masks
    <3>6. Stands(u, f, A, r)
      BY <1>1, <3>4, <3>5 DEF Stands
    <3> QED BY <3>4, <3>6
  <2> QED BY <2>2, <2>3
<1> QED BY <1>3, <1>4

(* The last part of htable_add: there is room for the entry.               *)
LEMMA Entering ==
  ASSUME Hashed(hash), NEW r, TopBit(r), NEW t, NEW A, Stands(t, hash, A, r),
         NEW p \in Ptrs \ A, Masks(t, A \cup {p}, r), t.elems + 1 <= t.max,
         t.elems + 1 + t.deleted <= t.max_with_deleted,
         NEW u, u = Entered(t, p)
  PROVE  TableInv(u, hash, A \cup {p}, r) /\ u.elems = t.elems + 1
<1> DEFINE w == ht_add(t, p)
<1>1. /\ IsTable(t) /\ A \subseteq Ptrs /\ Content(t, hash, A) /\ Reached(t, hash)
      /\ t.elems = Cardinality(A) /\ t.max = (3 * Size(t)) \div 4
      /\ t.max_with_deleted = (9 * Size(t)) \div 10
      /\ t.bits <= Width /\ Cardinality(Markers(t)) <= t.deleted
  BY DEF Stands
<1>2. /\ t.elems \in Nat /\ t.deleted \in Nat /\ t.max \in Nat /\ Size(t) \in Nat
      /\ t.max < Size(t) /\ IsFiniteSet(A) /\ IsFiniteSet(Markers(t))
      /\ Cardinality(Markers(t)) \in Nat
  BY Numbers
<1>3. PICK free \in DOMAIN t.table : free \notin Valid(t)
  <2>1. Cardinality(A) < Size(t)
    BY <1>1, <1>2
  <2> QED BY <1>1, <2>1, Room
<1>4. /\ SameShape(t, w) /\ Content(w, hash, A \cup {p}) /\ Reached(w, hash)
      /\ Markers(w) \subseteq Markers(t)
  <2>1. LET v == ht_add(t, p)
        IN  /\ SameShape(t, v) /\ Content(v, hash, A \cup {p}) /\ Reached(v, hash)
            /\ Markers(v) \subseteq Markers(t)
    BY <1>1, <1>3, Adding
  <2> QED BY <2>1
<1>5. u = [w EXCEPT !.elems = @ + 1]
  BY DEF Entered
<1> HIDE DEF w
<1> DEFINE Tables == UNION {[0..(k - 1) -> Word] : k \in Nat}
<1>6. w \in [bits : Nat, elems : Nat, deleted : Nat, max : Nat,
             max_with_deleted : Nat, common_mask : Word, common_bits : Word,
             perfect_bit : Word, table : Tables]
  BY <1>4 DEF SameShape, IsTable, Fields
<1> HIDE DEF Tables
<1>7. /\ u.bits = w.bits /\ u.elems = w.elems + 1 /\ u.deleted = w.deleted
      /\ u.max = w.max /\ u.table = w.table
      /\ u.max_with_deleted = w.max_with_deleted
      /\ u.common_mask = w.common_mask /\ u.common_bits = w.common_bits
      /\ u.perfect_bit = w.perfect_bit
  BY <1>5, <1>6
<1>8. u \in [bits : Nat, elems : Nat, deleted : Nat, max : Nat,
             max_with_deleted : Nat, common_mask : Word, common_bits : Word,
             perfect_bit : Word, table : Tables]
  <2>1. w.elems + 1 \in Nat
    BY <1>6
  <2> QED BY <1>5, <1>6, <2>1
<1>9. IsTable(w) /\ Size(w) = Size(t)
  BY <1>1, <1>4, Shaped DEF SameShape
<1>10. /\ Size(u) = Size(t) /\ Markers(u) = Markers(w)
       /\ Content(u, hash, A \cup {p}) /\ Reached(u, hash)
       /\ \A B, q : Masks(w, B, q) => Masks(u, B, q)
  <2>1. Alike(w, u)
    BY <1>7 DEF Alike
  <2> QED BY <1>4, <1>9, <2>1, SameBuckets
<1>11. IsTable(u)
  BY <1>7, <1>8, <1>9, <1>10 DEF IsTable, Fields, Tables
<1>12. Masks(u, A \cup {p}, r)
  <2>1. Masks(w, A \cup {p}, r)
    BY <1>4 DEF Masks, SameShape
  <2> QED BY <1>10, <2>1
<1>13. /\ u.elems = t.elems + 1 /\ u.max = t.max /\ u.bits = t.bits
       /\ u.max_with_deleted = t.max_with_deleted /\ u.deleted = t.deleted
  BY <1>4, <1>7 DEF SameShape
<1>14. Cardinality(Markers(u)) <= u.deleted
  <2>1. Cardinality(Markers(u)) \in Nat
        /\ Cardinality(Markers(u)) <= Cardinality(Markers(t))
    BY <1>2, <1>4, <1>10, FS_Subset, FS_CardinalityType
  <2> QED BY <1>1, <1>2, <1>13, <2>1
<1>15. u.elems = Cardinality(A \cup {p})
  BY <1>1, <1>2, <1>13, FS_AddElement
<1>16. Stands(u, hash, A \cup {p}, r)
  BY <1>1, <1>10, <1>11, <1>12, <1>13, <1>14, <1>15 DEF Stands
<1> QED BY <1>13, <1>16 DEF TableInv

LEMMA TableAdd ==
  ASSUME Hashed(hash), NEW r, TopBit(r), NEW t, NEW A, TableInv(t, hash, A, r),
         NEW p \in Ptrs \ A, NEW allocated, NEW u, u = htable_add(t, p, allocated)
  PROVE  u # t => TableInv(u, hash, A \cup {p}, r)
<1> DEFINE full == t.elems + 1 > t.max
           grown == IF full THEN double_table(t) ELSE t
           swept == IF Crowded(grown) THEN rehash_table(grown) ELSE grown
           ready == Readied(swept, p)
<1> SUFFICES ASSUME ~(full /\ ~allocated)
             PROVE  TableInv(u, hash, A \cup {p}, r)
  BY DEF htable_add
<1>1. u = Entered(ready, p)
  BY DEF htable_add, Entered, Readied
<1>2. t.elems \in Nat /\ t.max \in Nat
  BY Numbers DEF TableInv
<1>3. TableInv(grown, hash, A, r) /\ grown.elems = t.elems /\ grown.elems + 1 <= grown.max
  <2>1. CASE full
    <3>1. LET g == double_table(t)
          IN  TableInv(g, hash, A, r) /\ g.elems = t.elems /\ g.elems + 1 <= g.max
      BY <2>1, Growing
    <3> QED BY <2>1, <3>1
  <2>2. CASE ~full
    BY <1>2, <2>2
  <2> QED BY <2>1, <2>2
<1> HIDE DEF grown
<1>4. /\ grown.elems \in Nat /\ grown.deleted \in Nat /\ grown.max \in Nat
      /\ grown.max_with_deleted \in Nat /\ grown.max <= grown.max_with_deleted
      /\ Stands(grown, hash, A, r)
  BY <1>3, Numbers DEF TableInv
<1>5. /\ Stands(swept, hash, A, r) /\ swept.elems = t.elems
      /\ swept.elems + 1 <= swept.max
      /\ swept.elems + 1 + swept.deleted <= swept.max_with_deleted
  <2>1. CASE Crowded(grown)
    <3> DEFINE g == rehash_table(grown)
    <3>1. /\ Stands(g, hash, A, r) /\ g.elems = grown.elems /\ g.deleted = 0
          /\ g.max = grown.max /\ g.max_with_deleted = grown.max_with_deleted
      BY <1>3, Rehashing
    <3> HIDE DEF g
    <3> QED BY <1>3, <1>4, <2>1, <3>1 DEF g
  <2>2. CASE ~Crowded(grown)
    BY <1>3, <1>4, <2>2 DEF Crowded
  <2> QED BY <2>1, <2>2
<1> HIDE DEF swept
<1>6. /\ Stands(ready, hash, A, r) /\ Masks(ready, A \cup {p}, r)
      /\ ready.elems = swept.elems /\ ready.deleted = swept.deleted
      /\ ready.max = swept.max /\ ready.max_with_deleted = swept.max_with_deleted
  <2>1. Stands(swept, hash, A, r)
    BY <1>5
  <2> QED BY <2>1, Readying
<1> HIDE DEF ready
<1>7. TableInv(u, hash, A \cup {p}, r) /\ u.elems = ready.elems + 1
  <2>1. ready.elems + 1 <= ready.max
        /\ ready.elems + 1 + ready.deleted <= ready.max_with_deleted
    BY <1>5, <1>6
  <2> QED BY <1>1, <1>6, <2>1, Entering
<1> QED BY <1>7

-----------------------------------------------------------------------------
(* Lookups and deletions. *)

LEMMA FindsExactly ==
  ASSUME Hashed(hash), NEW r, TopBit(r), NEW t, NEW A, Stands(t, hash, A, r),
         NEW p \in Ptrs
  PROVE  /\ htable_get(t, p) <=> p \in A
         /\ \A i \in Places(t, p) : i \in Valid(t) /\ Owner(t, i) = p
<1> DEFINE n == Size(t)
           home == hash_bucket(t, hash[p])
           h2 == get_hash_ptr_bits(t, hash[p])
<1>1. /\ IsTable(t) /\ A \subseteq Ptrs /\ Content(t, hash, A) /\ Reached(t, hash)
      /\ Masks(t, A, r) \/ Unset(t, A)
  BY DEF Stands
<1>2. /\ n \in Nat \ {0} /\ DOMAIN t.table = 0..(n - 1) /\ home \in 0..(n - 1)
  BY <1>1, TableParts, HashParts DEF IsTable
<1>3. \A i \in Places(t, p) : i \in Valid(t) /\ Owner(t, i) = p
  BY DEF Places, Candidates, Valid, Owner
<1>4. ASSUME NEW i \in Places(t, p) PROVE p \in A
  BY <1>1, <1>3 DEF Content
<1>5. ASSUME p \in A PROVE Places(t, p) # {}
  <2>1. PICK i \in Valid(t) : Owner(t, i) = p /\ t.table[i] = Held(t, hash, i, p)
    BY <1>1, <1>5 DEF Content
  <2>2. Masks(t, A, r)
    BY <1>1, <1>5 DEF Unset
  <2>3. t.table[i] \cap t.common_mask = h2 \cup HomeBit(t, hash, i, p)
    BY <1>5, <2>1, <2>2, HeldShows DEF Masks
  <2>4. get_extra_ptr_bits(t, t.table[i]) =
          IF i = home THEN h2 \cup t.perfect_bit ELSE h2
    BY <2>3 DEF get_extra_ptr_bits, HomeBit, Zero
  <2>5. i \in 0..(n - 1) /\ entry_is_valid(t.table[i])
    BY <1>2 DEF Valid
  <2>6. ASSUME NEW j \in DOMAIN t.table, (j - home) % n < (i - home) % n
        PROVE  t.table[j] # Zero
    <3>1. (j - home) % n = Gap(n, j, home) /\ (i - home) % n = Gap(n, i, home)
      <4> HIDE DEF n, home
      <4> QED BY <1>2, <2>5, RoundTable
    <3>2. j \in Before(t, hash, i, p)
      BY <2>6, <3>1 DEF Before
    <3> QED BY <1>1, <2>1, <3>2 DEF Reached
  <2>7. i \in Candidates(t, hash[p])
    BY <1>2, <2>4, <2>5, <2>6 DEF Candidates
  <2>8. i \in Places(t, p)
    BY <2>1, <2>7 DEF Places, Owner
  <2> QED BY <2>8
<1> QED BY <1>3, <1>4, <1>5 DEF htable_get

LEMMA TableDelete ==
  ASSUME Hashed(hash), NEW r, TopBit(r), NEW t, NEW A, TableInv(t, hash, A, r),
         NEW p \in Ptrs, NEW i \in Places(t, p), NEW u,
         u = [t EXCEPT !.table[i] = HTABLE_DELETED, !.elems = @ - 1,
                       !.deleted = @ + 1]
  PROVE  TableInv(u, hash, A \ {p}, r)
<1> DEFINE w == Emptied(t, i, HTABLE_DELETED)
<1>1. /\ Stands(t, hash, A, r) /\ t.elems <= t.max
      /\ t.elems + t.deleted <= t.max_with_deleted
  BY DEF TableInv
<1>2. /\ IsTable(t) /\ A \subseteq Ptrs /\ Content(t, hash, A) /\ Reached(t, hash)
      /\ Masks(t, A, r) \/ Unset(t, A)
      /\ t.elems = Cardinality(A) /\ t.max = (3 * Size(t)) \div 4
      /\ t.max_with_deleted = (9 * Size(t)) \div 10
      /\ t.bits <= Width /\ Cardinality(Markers(t)) <= t.deleted
  BY <1>1 DEF Stands
<1>3. i \in Valid(t) /\ Owner(t, i) = p /\ p \in A /\ i \in DOMAIN t.table
  <2>1. i \in Valid(t) /\ Owner(t, i) = p
    BY <1>1, FindsExactly
  <2> QED BY <1>2, <2>1 DEF Content, Valid
<1>4. /\ t.elems \in Nat /\ t.deleted \in Nat /\ t.max \in Nat
      /\ t.max_with_deleted \in Nat /\ IsFiniteSet(A) /\ IsFiniteSet(Markers(t))
      /\ Cardinality(Markers(t)) \in Nat
  BY <1>1, Numbers
<1>5. Cardinality(A \ {p}) = t.elems - 1 /\ t.elems - 1 \in Nat
  <2>1. Cardinality(A \ {p}) = Cardinality(A) - 1 /\ IsFiniteSet(A \ {p})
    BY <1>3, <1>4, FS_RemoveElement
  <2>2. Cardinality(A \ {p}) \in Nat
    BY <2>1, FS_CardinalityType
  <2> QED BY <1>2, <2>1, <2>2
<1>6. Loses(t, w, hash, A, i) /\ w.table[i] = HTABLE_DELETED
  <2>1. IsTable(t) /\ Content(t, hash, A) /\ i \in DOMAIN t.table
    BY <1>2, <1>3
  <2> QED BY <2>1, LosingTo
<1>7. u = [w EXCEPT !.elems = @ - 1, !.deleted = @ + 1]
  BY <1>2 DEF Emptied, IsTable, Fields
<1> HIDE DEF w
<1>8. /\ SameShape(t, w) /\ Valid(w) = Valid(t) \ {i}
      /\ \A j \in Valid(w) : Owner(w, j) = Owner(t, j)
      /\ \A j \in DOMAIN t.table : j # i => w.table[j] = t.table[j]
      /\ Content(w, hash, A \ {p}) /\ w.table[i] = HTABLE_DELETED
  BY <1>3, <1>6 DEF Loses
<1>9. IsTable(w) /\ Size(w) = Size(t) /\ DOMAIN w.table = DOMAIN t.table
      /\ \A j, q : Before(w, hash, j, q) = Before(t, hash, j, q)
  BY <1>2, <1>8, Shaped DEF SameShape
<1>10. Reached(w, hash)
  <2> SUFFICES ASSUME NEW j \in Valid(w), NEW k \in Before(w, hash, j, Owner(w, j))
               PROVE  w.table[k] # Zero
    BY DEF Reached
  <2>1. j \in Valid(t) /\ k \in Before(t, hash, j, Owner(t, j)) /\ k \in DOMAIN t.table
    BY <1>8, <1>9 DEF Before
  <2>2. t.table[k] # Zero
    BY <1>2, <2>1 DEF Reached
  <2> QED BY <1>8, <2>1, <2>2 DEF Zero, HTABLE_DELETED
<1>11. Cardinality(Markers(w)) <= Cardinality(Markers(t)) + 1
       /\ Cardinality(Markers(w)) \in Nat
  <2>1. Markers(w) = Markers(t) \cup {i}
    BY <1>3, <1>8, <1>9 DEF Markers
  <2>2. i \notin Markers(t)
    BY <1>3 DEF Valid, Markers, entry_is_valid
  <2>3. Cardinality(Markers(w)) = Cardinality(Markers(t)) + 1
    BY <1>4, <2>1, <2>2, FS_AddElement
  <2> QED BY <1>4, <2>3
<1> DEFINE Tables == UNION {[0..(k - 1) -> Word] : k \in Nat}
<1>12. w \in [bits : Nat, elems : Nat, deleted : Nat, max : Nat,
              max_with_deleted : Nat, common_mask : Word, common_bits : Word,
              perfect_bit : Word, table : Tables]
  BY <1>9 DEF IsTable, Fields
<1> HIDE DEF Tables
<1>13. /\ u.bits = w.bits /\ u.elems = t.elems - 1 /\ u.deleted = t.deleted + 1
       /\ u.max = w.max /\ u.table = w.table
       /\ u.max_with_deleted = w.max_with_deleted
       /\ u.common_mask = w.common_mask /\ u.common_bits = w.common_bits
       /\ u.perfect_bit = w.perfect_bit
  <2>1. w.elems = t.elems /\ w.deleted = t.deleted
    BY <1>8 DEF SameShape
  <2>2. u.elems = w.elems - 1 /\ u.deleted = w.deleted + 1
    BY <1>7, <1>12
  <2>3. /\ u.bits = w.bits /\ u.max = w.max /\ u.table = w.table
        /\ u.max_with_deleted = w.max_with_deleted
    BY <1>7, <1>12
  <2>4. /\ u.common_mask = w.common_mask /\ u.common_bits = w.common_bits
        /\ u.perfect_bit = w.perfect_bit
    BY <1>7, <1>12
  <2> QED BY <2>1, <2>2, <2>3, <2>4
<1>14. u \in [bits : Nat, elems : Nat, deleted : Nat, max : Nat,
              max_with_deleted : Nat, common_mask : Word, common_bits : Word,
              perfect_bit : Word, table : Tables]
  <2>1. w.elems - 1 \in Nat /\ w.deleted + 1 \in Nat
    BY <1>4, <1>5, <1>8 DEF SameShape
  <2> QED BY <1>7, <1>12, <2>1
<1>15. /\ Size(u) = Size(w) /\ Markers(u) = Markers(w)
       /\ Content(u, hash, A \ {p}) /\ Reached(u, hash)
       /\ \A B, q : Masks(w, B, q) => Masks(u, B, q)
  <2>1. IsTable(w) /\ Alike(w, u)
    BY <1>9, <1>13 DEF Alike
  <2>2. Content(w, hash, A \ {p}) /\ Reached(w, hash)
    BY <1>8, <1>10
  <2> QED BY <2>1, <2>2, SameBuckets
<1>16. IsTable(u)
  BY <1>9, <1>13, <1>14, <1>15 DEF IsTable, Fields, Tables
<1>17. Masks(u, A \ {p}, r)
  <2>1. Masks(t, A, r)
    BY <1>2, <1>3 DEF Unset
  <2>2. Masks(w, A \ {p}, r)
    BY <1>8, <2>1 DEF Masks, SameShape
  <2> QED BY <1>15, <2>2
<1>18. /\ u.max = t.max /\ u.bits = t.bits /\ Size(u) = Size(t)
       /\ u.max_with_deleted = t.max_with_deleted
  BY <1>8, <1>9, <1>13, <1>15 DEF SameShape
<1>19. Cardinality(Markers(u)) <= u.deleted
  BY <1>2, <1>4, <1>11, <1>13, <1>15
<1>20. Stands(u, hash, A \ {p}, r)
  BY <1>2, <1>5, <1>13, <1>15, <1>16, <1>17, <1>18, <1>19 DEF Stands
<1>21. u.elems <= u.max /\ u.elems + u.deleted <= u.max_with_deleted
  BY <1>1, <1>4, <1>13, <1>18
<1> QED BY <1>20, <1>21 DEF TableInv

LEMMA TableInit ==
  ASSUME NEW f, NEW r
  PROVE  TableInv(htable_init, f, {}, r)
<1> DEFINE t == htable_init
<1>1. /\ t.bits = 0 /\ t.elems = 0 /\ t.deleted = 0 /\ t.max = 0
      /\ t.max_with_deleted = 0 /\ t.common_mask = Bits /\ t.common_bits = Zero
      /\ t.perfect_bit = Zero /\ t.table = [i \in {0} |-> Zero]
  BY DEF htable_init
<1>2. Size(t) = 1
  BY <1>1, Powers DEF Size
<1>3. Zero \in Word /\ Bits \in Word /\ 0..(1 - 1) = {0}
  BY DEF Zero, Word
<1>4. t.table \in [0..(1 - 1) -> Word] /\ DOMAIN t.table = 0..(1 - 1)
      /\ \A i \in DOMAIN t.table : t.table[i] = Zero
  BY <1>1, <1>3
<1> DEFINE Tables == UNION {[0..(k - 1) -> Word] : k \in Nat}
<1>5. t.table \in Tables
  BY <1>4
<1> HIDE DEF Tables
<1>6. t \in [bits : Nat, elems : Nat, deleted : Nat, max : Nat,
             max_with_deleted : Nat, common_mask : Word, common_bits : Word,
             perfect_bit : Word, table : Tables]
  <2>1. [i \in {0} |-> Zero] \in Tables
    BY <1>1, <1>5
  <2> QED BY <1>3, <2>1 DEF htable_init
<1> HIDE DEF t
<1>7. IsTable(t)
  BY <1>2, <1>4, <1>6 DEF IsTable, Fields, Tables
<1>8. Valid(t) = {} /\ Markers(t) = {}
  BY <1>4 DEF Valid, Markers, entry_is_valid, Zero, HTABLE_DELETED
<1>9. Content(t, f, {}) /\ Reached(t, f)
  BY <1>8 DEF Content, Reached
<1>10. Cardinality({}) = 0 /\ (3 * 1) \div 4 = 0 /\ (9 * 1) \div 10 = 0
  BY FS_EmptySet
<1>11. Width \in Nat
  BY HtableAssumption DEF HtableAssumption
<1>12. Stands(t, f, {}, r)
  BY <1>1, <1>2, <1>7, <1>8, <1>9, <1>10, <1>11 DEF Stands, Unset
<1>13. TableInv(t, f, {}, r)
  BY <1>1, <1>12 DEF TableInv
<1> QED BY <1>13 DEF t

-----------------------------------------------------------------------------
(* The theorems.  They are about entries of one heap (SameTopBit): the     *)
(* code stores one bit of the first pointer only, and all must have it.    *)

HtableInv(r) == Hashed(hash) /\ TableInv(ht, hash, added, r)

LEMMA InvStarts ==
  ASSUME NEW r, Init
  PROVE  HtableInv(r)
BY TableInit DEF Init, HtableInv, Hashed

LEMMA InvStep ==
  ASSUME NEW r, TopBit(r), HtableInv(r), [Next]_<<ht, hash, added>>
  PROVE  HtableInv(r)'
<1>1. Hashed(hash) /\ TableInv(ht, hash, added, r)
  BY DEF HtableInv
<1>2. ASSUME UNCHANGED hash, TableInv(ht', hash, added', r) PROVE HtableInv(r)'
  BY <1>1, <1>2 DEF HtableInv
<1>3. ASSUME NEW p \in Ptrs, Add(p) PROVE HtableInv(r)'
  <2>1. /\ UNCHANGED hash /\ ~htable_get(ht, p)
        /\ added' = IF ht' = ht THEN added ELSE added \cup {p}
    BY <1>3 DEF Add
  <2>2. PICK allocated \in AllocOutcomes : ht' = htable_add(ht, p, allocated)
    BY <1>3 DEF Add
  <2>3. p \notin added
    <3>1. Stands(ht, hash, added, r)
      BY <1>1 DEF TableInv
    <3>2. htable_get(ht, p) <=> p \in added
      BY <1>1, <3>1, FindsExactly
    <3> QED BY <2>1, <3>2
  <2>4. ht' # ht => TableInv(ht', hash, added \cup {p}, r)
    BY <1>1, <2>2, <2>3, TableAdd
  <2>5. TableInv(ht', hash, added', r)
    <3>1. CASE ht' = ht
      BY <1>1, <2>1, <3>1
    <3>2. CASE ht' # ht
      BY <2>1, <2>4, <3>2
    <3> QED BY <3>1, <3>2
  <2> QED BY <1>2, <2>1, <2>5
<1>4. ASSUME NEW p \in Ptrs, Delete(p) PROVE HtableInv(r)'
  <2>1. UNCHANGED hash /\ added' = added \ {p}
    BY <1>4 DEF Delete
  <2>2. PICK i \in Places(ht, p) :
          ht' = [ht EXCEPT !.table[i] = HTABLE_DELETED, !.elems = @ - 1,
                           !.deleted = @ + 1]
    BY <1>4 DEF Delete, htable_del
  <2>3. TableInv(ht', hash, added \ {p}, r)
    BY <1>1, <2>2, TableDelete
  <2> QED BY <1>2, <2>1, <2>3
<1>5. ASSUME htable_clear PROVE HtableInv(r)'
  BY <1>2, <1>5, TableInit DEF htable_clear
<1>6. CASE UNCHANGED <<ht, hash, added>>
  BY <1>1, <1>6 DEF HtableInv
<1> QED BY <1>3, <1>4, <1>5, <1>6 DEF Next

LEMMA InvHolds ==
  ASSUME NEW r, TopBit(r)
  PROVE  Spec => []HtableInv(r)
<1>1. Init => HtableInv(r)
  BY InvStarts
<1>2. HtableInv(r) /\ [Next]_<<ht, hash, added>> => HtableInv(r)'
  BY InvStep
<1> QED BY <1>1, <1>2, PTL DEF Spec

(* The fields keep their types, the counters their limits, and the table   *)
(* never has more buckets than the words can count.                        *)
THEOREM HtableTypes ==
  ASSUME SameTopBit
  PROVE  Spec => []TypeOK
<1>1. PICK r \in Bits : TopBit(r)
  BY DEF SameTopBit
<1>2. HtableInv(r) => TypeOK
  <2> SUFFICES ASSUME HtableInv(r) PROVE TypeOK
    OBVIOUS
  <2>1. /\ Stands(ht, hash, added, r) /\ ht.elems <= ht.max
        /\ ht.elems + ht.deleted <= ht.max_with_deleted
    BY DEF HtableInv, TableInv
  <2>2. IsTable(ht) /\ added \subseteq Ptrs /\ ht.bits <= Width
    BY <2>1 DEF Stands
  <2>3. /\ ht.elems \in Nat /\ ht.deleted \in Nat /\ ht.max \in Nat
        /\ ht.max_with_deleted \in Nat
    BY <2>1, Numbers
  <2>4. /\ ht.bits \in Nat /\ ht.common_mask \in Word
        /\ ht.common_bits \in Word /\ ht.perfect_bit \in Word
        /\ ht.table \in [0..(Size(ht) - 1) -> Word]
    BY <2>2, TableParts
  <2>5. Width \in Nat
    BY HtableAssumption DEF HtableAssumption
  <2>6. /\ ht.bits \in 0..Width /\ ht.elems \in 0..ht.max
        /\ ht.deleted \in 0..ht.max_with_deleted
    BY <2>1, <2>2, <2>3, <2>4, <2>5
  <2> QED BY <2>2, <2>4, <2>6 DEF TypeOK
<1>3. Spec => []HtableInv(r)
  BY <1>1, InvHolds
<1> QED BY <1>2, <1>3, PTL

(* No entry looks like an empty bucket or a marker (htable.c:200-203).     *)
THEOREM ShowsItsEntries ==
  ASSUME SameTopBit
  PROVE  Spec => []EntriesShow
<1>1. PICK r \in Bits : TopBit(r)
  BY DEF SameTopBit
<1>2. HtableInv(r) => EntriesShow
  <2> SUFFICES ASSUME HtableInv(r) PROVE EntriesShow
    OBVIOUS
  <2>1. /\ IsTable(ht) /\ Content(ht, hash, added) /\ ht.elems = Cardinality(added)
    BY DEF HtableInv, TableInv, Stands
  <2>2. Entries = Valid(ht)
    BY DEF Entries, Valid
  <2> QED BY <2>1, <2>2, Counted DEF EntriesShow
<1>3. Spec => []HtableInv(r)
  BY <1>1, InvHolds
<1> QED BY <1>2, <1>3, PTL

(* Every search ends: an empty bucket is left, and no more markers exist   *)
(* than are counted (htable.c:146-147 and 235-236 set the limits).         *)
THEOREM LeavesABucket ==
  ASSUME SameTopBit
  PROVE  Spec => []BucketLeft
<1>1. PICK r \in Bits : TopBit(r)
  BY DEF SameTopBit
<1>2. HtableInv(r) => BucketLeft
  <2> SUFFICES ASSUME HtableInv(r) PROVE BucketLeft
    OBVIOUS
  <2>1. Stands(ht, hash, added, r) /\ ht.elems + ht.deleted <= ht.max_with_deleted
    BY DEF HtableInv, TableInv
  <2>2. /\ IsTable(ht) /\ Content(ht, hash, added)
        /\ Cardinality(Markers(ht)) <= ht.deleted
    BY <2>1 DEF Stands
  <2>3. /\ ht.elems \in Nat /\ ht.deleted \in Nat /\ Size(ht) \in Nat
        /\ ht.elems = Cardinality(added)
        /\ ht.max_with_deleted \in Nat /\ ht.max_with_deleted < Size(ht)
        /\ Cardinality(Markers(ht)) \in Nat
    BY <2>1, Numbers
  <2>4. Cardinality(added) + Cardinality(Markers(ht)) < Size(ht)
    BY <2>1, <2>2, <2>3
  <2>5. \E i \in DOMAIN ht.table : ht.table[i] = Zero
    BY <2>2, <2>4, EmptyBucket
  <2> QED BY <2>2, <2>5 DEF BucketLeft, Markers
<1>3. Spec => []HtableInv(r)
  BY <1>1, InvHolds
<1> QED BY <1>2, <1>3, PTL

(* Lookups find exactly the entries that were added and not deleted since, *)
(* through growth, rehashing, lost hash bits and buckets used again.       *)
THEOREM FindsWhatWasAdded ==
  ASSUME SameTopBit
  PROVE  Spec => []LookupsExact
<1>1. PICK r \in Bits : TopBit(r)
  BY DEF SameTopBit
<1>2. HtableInv(r) => LookupsExact
  <2> SUFFICES ASSUME HtableInv(r) PROVE LookupsExact
    OBVIOUS
  <2>1. Hashed(hash) /\ Stands(ht, hash, added, r)
    BY DEF HtableInv, TableInv
  <2> QED BY <1>1, <2>1, FindsExactly DEF LookupsExact
<1>3. Spec => []HtableInv(r)
  BY <1>1, InvHolds
<1> QED BY <1>2, <1>3, PTL
=============================================================================
