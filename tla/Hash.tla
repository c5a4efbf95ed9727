-------------------------------- MODULE Hash --------------------------------
(***************************************************************************)
(* The hash functions of ccan/hash (src/src/ccan/ccan/hash/hash.c), of     *)
(* which the request table uses hash_pointer.  Each adds the key to the    *)
(* words a, b, c a block at a time, in an unrolled loop and then a switch  *)
(* that falls through for what is left, with one version for every         *)
(* alignment and byte order.  What can go wrong is which bytes get where;  *)
(* mix and final are not interpreted.                                      *)
(*                                                                         *)
(* A hash value is a term: the sequence of what was added between one mix  *)
(* and the next (a bag, so that adding twice shows), and whether final was *)
(* applied.  An addition is <<lane, unit, shift>>: unit number "unit" of   *)
(* the key was added to lane 0, 1 or 2 (a, b, c), shifted left by shift    *)
(* bits.  Units are bytes of the key in memory order, but integers of 32   *)
(* and 16 bits in hash_stable_*, which is about values and not memory.     *)
(***************************************************************************)
EXTENDS Integers, SequencesExt, Bags

CONSTANTS
  MaxLen,         \* bound: elements of the key
  PointerSize     \* sizeof(void *), a multiple of 4

ASSUME SizeAssumption ==
  /\ MaxLen \in Nat
  /\ PointerSize \in Nat /\ PointerSize % 4 = 0

VARIABLES
  fn,             \* the function called
  big,            \* HASH_BIG_ENDIAN
  align,          \* address of the key modulo 4
  len,            \* elements of the key at the call
  pc,             \* "loop", "switch", "final" or "done"
  length,         \* elements left
  k,              \* first unit that is left
  label,          \* case label the switch is at
  cur,            \* added to a, b, c since the last mix
  term,           \* what was mixed before, and finally the hash value
  finished        \* was final applied?

args == <<fn, big, align, len>>
vars == <<args, pc, length, k, label, cur, term, finished>>

Entries == {"hash_any", "hash_u32", "hash_pointer", "hash_stable_8",
            "hash_stable_16", "hash_stable_32", "hash_stable_64"}

-----------------------------------------------------------------------------
(* A routine: elements per round of the loop, units per element, what a    *)
(* round adds, what each case adds (a sequence if it mixes in between),    *)
(* and the cases that end in a break.  Units count from k.                 *)

Little(i) == <<i \div 4, i, 8 * (i % 4)>>
Big(i) == <<i \div 4, i, 24 - 8 * (i % 4)>>
Native(i) == IF big THEN Big(i) ELSE Little(i)
Word(i) == {Native(j) : j \in (4 * i)..(4 * i + 3)}

(* One round of the loop over bytes, however they are fetched. *)
LittleRound == <<{Little(i) : i \in 0..11}>>
BigRound == <<{Big(i) : i \in 0..11}>>

hash_u32 ==
  [step |-> 3, units |-> 4, round |-> <<Word(0) \cup Word(1) \cup Word(2)>>,
   cases |-> [l \in 1..3 |-> <<Word(l - 1)>>], breaks |-> {1}]

(* MUTANT: the case of an incomplete word reads the word. *)
hashlittle_words_reads_word ==
  [step |-> 12, units |-> 1, round |-> LittleRound,
   cases |-> [l \in 1..12 |-> <<{Little(i) : i \in 0..(4 * ((l + 3) \div 4) - 1)}>>],
   breaks |-> 1..12]

(* hashlittle of a key aligned to 4: whole words up to the last one, the   *)
(* rest bytewise. *)
hashlittle_words ==
  [step |-> 12, units |-> 1, round |-> LittleRound,
   cases |-> [l \in 1..12 |->
     <<{Little(i) : i \in IF l % 4 = 0 THEN 0..(l - 1) ELSE {l - 1}}>>],
   breaks |-> {12, 8, 4, 1}]

(* MUTANT: a break is missing. *)
hashlittle_halves_falls_through ==
  [step |-> 12, units |-> 1, round |-> LittleRound,
   cases |-> [l \in 1..12 |->
     <<{Little(i) : i \in IF l % 2 = 0 THEN 0..(l - 1) ELSE {l - 1}}>>],
   breaks |-> {1, 2, 4, 6, 8, 12}]

(* hashlittle of a key aligned to 2: half words. *)
hashlittle_halves ==
  [step |-> 12, units |-> 1, round |-> LittleRound,
   cases |-> [l \in 1..12 |->
     <<{Little(i) : i \in IF l % 2 = 0 THEN 0..(l - 1) ELSE {l - 1}}>>],
   breaks |-> {1, 2, 4, 6, 8, 10, 12}]

hashlittle_bytes ==
  [step |-> 12, units |-> 1, round |-> LittleRound,
   cases |-> [l \in 1..12 |-> <<{Little(l - 1)}>>], breaks |-> {1}]

hashbig_words ==
  [step |-> 12, units |-> 1, round |-> BigRound,
   cases |-> [l \in 1..12 |->
     <<{Big(i) : i \in IF l % 4 = 0 THEN 0..(l - 1) ELSE {l - 1}}>>],
   breaks |-> {12, 8, 4, 1}]

hashbig_bytes ==
  [step |-> 12, units |-> 1, round |-> BigRound,
   cases |-> [l \in 1..12 |-> <<{Big(l - 1)}>>], breaks |-> {1}]

(* Two units per element, the low half first; the switch knows one and two *)
(* elements, and mixes between the two.                                    *)
Half(h) == <<h % 3, h, 0>>
hash64_stable_64 ==
  [step |-> 3, units |-> 2,
   round |-> <<{Half(0), Half(1), Half(2)}, {Half(3), Half(4), Half(5)}>>,
   cases |-> <<<<{Half(0), Half(1)}>>,
               <<{Half(0), Half(1), Half(2)}, {Half(3)}>>>>,
   breaks |-> {1, 2}]

hash64_stable_32 ==
  [step |-> 3, units |-> 1, round |-> <<{Half(0), Half(1), Half(2)}>>,
   cases |-> [l \in 1..2 |-> <<{Half(l - 1)}>>], breaks |-> {1}]

Short(i) == <<i \div 2, i, 16 * (i % 2)>>
hash64_stable_16 ==
  [step |-> 6, units |-> 1, round |-> <<{Short(i) : i \in 0..5}>>,
   cases |-> [l \in 1..5 |-> <<{Short(l - 1)}>>], breaks |-> {1}]

hashlittle ==
  CASE ~big /\ align = 0 -> hashlittle_words
    [] ~big /\ align = 2 -> hashlittle_halves
    [] big \/ align % 2 = 1 -> hashlittle_bytes

hashbig == IF big /\ align = 0 THEN hashbig_words ELSE hashbig_bytes

hash_any == IF big THEN hashbig ELSE hashlittle

Routine ==
  CASE fn = "hash_any" -> hash_any
    [] fn \in {"hash_u32", "hash_pointer"} -> hash_u32
    [] fn = "hash_stable_8" -> hashlittle
    [] fn = "hash_stable_16" -> hash64_stable_16
    [] fn = "hash_stable_32" -> hash64_stable_32
    [] fn = "hash_stable_64" -> hash64_stable_64

-----------------------------------------------------------------------------
(* Arrays of integers are aligned to their size; align = 0 stands for any  *)
(* multiple of 4.                                                          *)
Init ==
  /\ fn \in Entries /\ big \in BOOLEAN
  /\ align \in CASE fn \in {"hash_any", "hash_stable_8"} -> 0..3
                 [] fn = "hash_stable_16" -> {0, 2}
                 [] OTHER -> {0}
  /\ len \in IF fn = "hash_pointer" THEN {PointerSize \div 4} ELSE 0..MaxLen
  /\ pc = "loop"
  /\ length = len /\ k = 0 /\ label = 0
  /\ cur = EmptyBag /\ term = <<>> /\ finished = FALSE

At(S) == SetToBag({<<e[1], e[2] + k, e[3]>> : e \in S})

(* MUTANT: the last full block is left to the switch only if it is not     *)
(* full.                                                                   *)
Full_off_by_one == length >= Routine.step

Full == length > Routine.step

(* MUTANT: k is not moved on. *)
Loop_stays ==
  /\ pc = "loop" /\ Full
  /\ term' = term \o [i \in DOMAIN Routine.round |-> At(Routine.round[i])]
  /\ length' = length - Routine.step
  /\ UNCHANGED <<args, pc, k, label, cur, finished>>

Loop ==
  /\ pc = "loop" /\ Full
  /\ term' = term \o [i \in DOMAIN Routine.round |-> At(Routine.round[i])]
  /\ length' = length - Routine.step
  /\ k' = k + Routine.step * Routine.units
  /\ UNCHANGED <<args, pc, label, cur, finished>>

(* The jump to the case of what is left: case 0 returns c as it is, and    *)
(* where there is no case for it the switch does nothing.                  *)
Switch ==
  /\ pc = "loop" /\ ~Full
  /\ label' = length
  /\ pc' = CASE length = 0 -> "done"
             [] length \in DOMAIN Routine.cases -> "switch"
             [] length > 0 /\ length \notin DOMAIN Routine.cases -> "final"
  /\ UNCHANGED <<args, length, k, cur, term, finished>>

(* One case; without a break it falls through to the next.  A case that    *)
(* mixes is the first one.                                                 *)
Case ==
  LET adds == Routine.cases[label] IN
  /\ pc = "switch"
  /\ cur' = IF Len(adds) = 1 THEN cur (+) At(adds[1]) ELSE At(Last(adds))
  /\ term' = term \o [i \in 1..(Len(adds) - 1) |-> At(adds[i])]
  /\ label' = label - 1
  /\ pc' = IF label \in Routine.breaks THEN "final" ELSE "switch"
  /\ UNCHANGED <<args, length, k, finished>>

Final ==
  /\ pc = "final" /\ pc' = "done"
  /\ term' = Append(term, cur)
  /\ cur' = EmptyBag
  /\ finished' = TRUE
  /\ UNCHANGED <<args, length, k, label>>

Next == Loop \/ Switch \/ Case \/ Final

Spec == Init /\ [][Next]_vars

-----------------------------------------------------------------------------
Units == len * Routine.units
Added == UNION {{<<j, e[1], e[2], e[3]>> : e \in DOMAIN term[j]} : j \in DOMAIN term}

TypeOK ==
  /\ pc \in {"loop", "switch", "final", "done"}
  /\ length \in 0..len /\ k = (len - length) * Routine.units
  /\ label \in 0..len /\ finished \in BOOLEAN
  /\ IsABag(cur) /\ \A j \in DOMAIN term : IsABag(term[j])

(* Nothing behind the key is read, whatever its length and alignment:      *)
(* words and half words only where all their bytes belong to the key       *)
(* ("check hashlittle doesn't read before or after the ends of the         *)
(* string", hash.c:876).                                                   *)
OnlyTheKey ==
  /\ \A e \in DOMAIN cur : e[2] \in 0..(Units - 1)
  /\ \A e \in Added : e[3] \in 0..(Units - 1)

(* Bob Jenkins' hash of bytes: blocks of 12, four bytes to a word.         *)
Reference(byte(_)) ==
  [j \in 1..((Units + 11) \div 12) |->
     LET bytes == {i \in (12 * (j - 1))..(12 * j - 1) : i < Units}
     IN  SetToBag({LET e == byte(i % 12) IN <<e[1], i, e[3]>> : i \in bytes})]

(* The value depends on the bytes only, not on how the key is aligned, and *)
(* hash_u32 is hashlittle on little-endian machines and hashbig on         *)
(* big-endian ones ("hash_word() is identical to hashlittle() on           *)
(* little-endian machines, and identical to hashbig() on big-endian        *)
(* machines", hash.c:182).                                                 *)
AlignmentIndependent ==
  pc = "done" /\ fn \in {"hash_any", "hash_u32", "hash_pointer", "hash_stable_8"} =>
    /\ term = IF big /\ fn # "hash_stable_8" THEN Reference(Big)
                                             ELSE Reference(Little)
    /\ finished = (len > 0)

(* Keys whose last block is full and falls through the switch of           *)
(* hash_stable_16, _32 and _64, which has no case for it.                  *)
LastBlockLost ==
  /\ fn \in {"hash_stable_16", "hash_stable_32", "hash_stable_64"}
  /\ len > 0 /\ len % Routine.step = 0

(* Every unit of the key is added once, and no two of them to the same     *)
(* bits between the same two mixes: the key can be read off the term, so   *)
(* that keys of one length collide only in the mixing.                     *)
KeyInTerm ==
  pc = "done" /\ ~LastBlockLost =>
    /\ {e[3] : e \in Added} = 0..(Units - 1)
    /\ \A j \in DOMAIN term : Range(term[j]) \subseteq {1}
    /\ Cardinality({<<e[1], e[2], e[4]>> : e \in Added}) = Units
    /\ Cardinality(Added) = Units
=============================================================================
