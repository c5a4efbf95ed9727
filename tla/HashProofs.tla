----------------------------- MODULE HashProofs -----------------------------
(***************************************************************************)
(* Theorems about ccan's hash functions (Hash), for keys of any length.    *)
(***************************************************************************)
EXTENDS Hash, FiniteSetTheorems, TLAPS

-----------------------------------------------------------------------------
(* What the functions are meant to compute.  The key is cut into blocks of *)
(* Width units, and what is added to a, b, c between two mixes is one      *)
(* block: unit o of a block goes to the lane and the bits of Spot(o).      *)

Width ==
  IF fn = "hash_stable_16" THEN 6
  ELSE IF fn \in {"hash_stable_32", "hash_stable_64"} THEN 3 ELSE 12

Spot(o) ==
  IF fn = "hash_stable_16" THEN Short(o)
  ELSE IF fn \in {"hash_stable_32", "hash_stable_64"} THEN Half(o)
  ELSE IF big /\ fn # "hash_stable_8" THEN Big(o) ELSE Little(o)

(* Units from up to below to of block m, and the first n blocks. *)
Part(m, from, to) ==
  {<<Spot(o)[1], Width * m + o, Spot(o)[3]>> : o \in from..(to - 1)}

Blocks(n) == [j \in 1..n |-> SetToBag(Part(j - 1, 0, Width))]

(* Where a call that has added everything is: t was mixed, b is to be.     *)
Ends(t, b) ==
  \/ \E n \in Nat :
       LastBlockLost /\ Width * n <= Units /\ t = Blocks(n) /\ b = EmptyBag
  \/ \E n \in Nat, r \in 1..Width :
       /\ Width * n + r = Units
       /\ t = Blocks(n) /\ b = SetToBag(Part(n, 0, r))

-----------------------------------------------------------------------------
(* The inductive invariant. *)

Arguments ==
  fn \in Entries /\ big \in BOOLEAN /\ align \in 0..3 /\ len \in Nat

(* The loop has left length elements, after whole rounds of whole blocks.  *)
Counts(q, n) ==
  /\ length \in 0..len /\ len = length + Routine.step * q
  /\ k = (len - length) * Routine.units /\ k = Width * n

InLoop(n) ==
  /\ pc = "loop" /\ label = 0 /\ finished = FALSE
  /\ length = 0 => len = 0
  /\ term = Blocks(n) /\ cur = EmptyBag

InSwitch(n) ==
  /\ pc = "switch" /\ finished = FALSE
  /\ length \in DOMAIN Routine.cases
  /\ label \in 1..length
  /\ label < length => length * Routine.units <= Width
  /\ term = Blocks(n)
  /\ cur = SetToBag(Part(n, label * Routine.units, length * Routine.units))

InFinal ==
  /\ pc = "final" /\ finished = FALSE /\ label \in 0..len /\ len > 0
  /\ Ends(term, cur)

IsDone ==
  /\ pc = "done" /\ label \in 0..len /\ cur = EmptyBag
  /\ \/ len = 0 /\ finished = FALSE /\ term = <<>>
     \/ len > 0 /\ finished = TRUE /\ \E t, b : Ends(t, b) /\ term = Append(t, b)

HashInv ==
  /\ Arguments
  /\ \E q, n \in Nat :
       Counts(q, n) /\ (InLoop(n) \/ InSwitch(n) \/ InFinal \/ IsDone)

-----------------------------------------------------------------------------
(* Parts and blocks. *)

LEMMA Widths == Width \in {3, 6, 12}
BY DEF Width

LEMMA PartUnits ==
  ASSUME NEW n \in Int, NEW from \in Int, NEW to \in Int, NEW e \in Part(n, from, to)
  PROVE  e[2] \in (Width * n + from)..(Width * n + to - 1)
<1>1. PICK o \in from..(to - 1) : e = <<Spot(o)[1], Width * n + o, Spot(o)[3]>>
  BY DEF Part
<1> QED BY <1>1, Widths

LEMMA PartUnion ==
  ASSUME NEW n \in Int, NEW a \in Int, NEW b \in Int, NEW c \in Int,
         a <= b, b <= c
  PROVE  /\ Part(n, a, b) \cup Part(n, b, c) = Part(n, a, c)
         /\ Part(n, a, b) \cap Part(n, b, c) = {}
<1>1. a..(c - 1) = (a..(b - 1)) \cup (b..(c - 1))
  OBVIOUS
<1>2. Part(n, a, b) \cup Part(n, b, c) = Part(n, a, c)
  BY <1>1, Zenon DEF Part
<1>3. ASSUME NEW e \in Part(n, a, b), e \in Part(n, b, c)
      PROVE  FALSE
  <2>1. /\ e[2] \in (Width * n + a)..(Width * n + b - 1)
        /\ e[2] \in (Width * n + b)..(Width * n + c - 1)
    BY <1>3, PartUnits
  <2> QED BY <2>1, Widths
<1> QED BY <1>2, <1>3

LEMMA PartEmpty ==
  ASSUME NEW n, NEW a \in Int
  PROVE  Part(n, a, a) = {}
<1>1. a..(a - 1) = {}
  OBVIOUS
<1> QED BY <1>1 DEF Part

(* What a case adds is the part of the key that its number says, once k    *)
(* stands at the beginning of block n.                                     *)
LEMMA AtPart ==
  ASSUME NEW n \in Int, NEW i \in Int, NEW a \in Int, NEW b \in Int,
         k = Width * n
  PROVE  At(Part(i, a, b)) = SetToBag(Part(n + i, a, b))
<1> DEFINE S == Part(i, a, b)
           U == {<<e[1], e[2] + k, e[3]>> : e \in S}
<1>1. ASSUME NEW o \in a..(b - 1)
      PROVE  Width * i + o + k = Width * (n + i) + o
  BY Widths
<1>2. ASSUME NEW x \in U
      PROVE  x \in Part(n + i, a, b)
  <2>1. PICK e \in S : x = <<e[1], e[2] + k, e[3]>>
    OBVIOUS
  <2>2. PICK o \in a..(b - 1) : e = <<Spot(o)[1], Width * i + o, Spot(o)[3]>>
    BY DEF Part
  <2>3. x = <<Spot(o)[1], Width * (n + i) + o, Spot(o)[3]>>
    BY <1>1, <2>1, <2>2
  <2> QED BY <2>3 DEF Part
<1>3. ASSUME NEW x \in Part(n + i, a, b)
      PROVE  x \in U
  <2>1. PICK o \in a..(b - 1) : x = <<Spot(o)[1], Width * (n + i) + o, Spot(o)[3]>>
    BY DEF Part
  <2> DEFINE e == <<Spot(o)[1], Width * i + o, Spot(o)[3]>>
  <2>2. e \in S
    BY DEF Part
  <2>3. x = <<e[1], e[2] + k, e[3]>>
    BY <1>1, <2>1
  <2> QED BY <2>2, <2>3
<1>4. U = Part(n + i, a, b)
  BY <1>2, <1>3
<1> QED BY <1>4 DEF At

LEMMA BagOfUnion ==
  ASSUME NEW S, NEW T, S \cap T = {}
  PROVE  SetToBag(S) (+) SetToBag(T) = SetToBag(T \cup S)
BY DEF SetToBag, (+)

LEMMA NoBlocks == Blocks(0) = <<>>
<1>1. 1..0 = {}
  OBVIOUS
<1> QED BY <1>1 DEF Blocks

LEMMA FunctionSeq ==
  ASSUME NEW n \in Nat, NEW T, NEW f \in [1..n -> T]
  PROVE  f \in Seq(T) /\ Len(f) = n
OBVIOUS

LEMMA Concatenated ==
  ASSUME NEW T, NEW s \in Seq(T), NEW t \in Seq(T)
  PROVE  /\ s \o t \in Seq(T) /\ Len(s \o t) = Len(s) + Len(t)
         /\ \A j \in 1..(Len(s) + Len(t)) :
              (s \o t)[j] = IF j <= Len(s) THEN s[j] ELSE t[j - Len(s)]
OBVIOUS

LEMMA MoreOf ==
  ASSUME NEW n \in Nat, NEW r \in Nat, NEW B
  PROVE  [j \in 1..n |-> B[j]] \o [i \in 1..r |-> B[n + i]]
           = [j \in 1..(n + r) |-> B[j]]
<1> DEFINE T == {B[j] : j \in Int}
           s == [j \in 1..n |-> B[j]]
           t == [i \in 1..r |-> B[n + i]]
           u == [j \in 1..(n + r) |-> B[j]]
<1>1. s \in [1..n -> T] /\ t \in [1..r -> T] /\ u \in [1..(n + r) -> T]
  OBVIOUS
<1>2. /\ \A j \in 1..n : s[j] = B[j]
      /\ \A i \in 1..r : t[i] = B[n + i]
      /\ \A j \in 1..(n + r) : u[j] = B[j]
  OBVIOUS
<1> HIDE DEF T, s, t, u
<1>3. /\ s \in Seq(T) /\ Len(s) = n /\ t \in Seq(T) /\ Len(t) = r
      /\ u \in Seq(T) /\ Len(u) = n + r
  <2>1. s \in Seq(T) /\ Len(s) = n
    BY <1>1, FunctionSeq
  <2>2. t \in Seq(T) /\ Len(t) = r
    BY <1>1, FunctionSeq
  <2>3. n + r \in Nat
    OBVIOUS
  <2>4. u \in Seq(T) /\ Len(u) = n + r
    BY <1>1, <2>3, FunctionSeq
  <2> QED BY <2>1, <2>2, <2>4
<1> DEFINE v == s \o t
<1>4. /\ v \in Seq(T) /\ Len(v) = n + r
      /\ \A j \in 1..(n + r) : v[j] = IF j <= n THEN s[j] ELSE t[j - n]
  <2>1. /\ v \in Seq(T) /\ Len(v) = Len(s) + Len(t)
        /\ \A j \in 1..(Len(s) + Len(t)) :
             v[j] = IF j <= Len(s) THEN s[j] ELSE t[j - Len(s)]
    BY <1>3, Concatenated
  <2> HIDE DEF v
  <2> QED BY <1>3, <2>1
<1>5. ASSUME NEW j \in 1..(n + r)
      PROVE  v[j] = u[j]
  <2>1. CASE j <= n
    BY <1>2, <1>4, <2>1
  <2>2. CASE ~(j <= n)
    <3>1. j - n \in 1..r /\ n + (j - n) = j
      BY <2>2
    <3> QED BY <1>2, <1>4, <2>2, <3>1
  <2> QED BY <2>1, <2>2
<1> HIDE DEF v
<1>6. v = u
  BY <1>3, <1>4, <1>5
<1> QED BY <1>6 DEF v, u, s, t

LEMMA MoreBlocks ==
  ASSUME NEW n \in Nat, NEW r \in Nat
  PROVE  Blocks(n) \o [i \in 1..r |-> SetToBag(Part(n + (i - 1), 0, Width))]
           = Blocks(n + r)
<1> DEFINE B == [j \in Int |-> SetToBag(Part(j - 1, 0, Width))]
<1>1. [j \in 1..n |-> B[j]] \o [i \in 1..r |-> B[n + i]]
        = [j \in 1..(n + r) |-> B[j]]
  <2> HIDE DEF B
  <2> QED BY MoreOf
<1>2. ASSUME NEW m \in Nat
      PROVE  [j \in 1..m |-> B[j]] = Blocks(m)
  BY DEF Blocks
<1>3. ASSUME NEW i \in 1..r
      PROVE  B[n + i] = SetToBag(Part(n + (i - 1), 0, Width))
  <2>1. n + i \in Int /\ (n + i) - 1 = n + (i - 1)
    OBVIOUS
  <2> QED BY <2>1
<1> HIDE DEF B
<1>4. [i \in 1..r |-> B[n + i]]
        = [i \in 1..r |-> SetToBag(Part(n + (i - 1), 0, Width))]
  BY <1>3
<1>5. n + r \in Nat
  OBVIOUS
<1> QED BY <1>1, <1>2, <1>4, <1>5

-----------------------------------------------------------------------------
(* The unrolled loops and switches of the source add what a loop over the  *)
(* units of the key would add: the rounds are whole blocks, and each case  *)
(* either adds all there is up to its number and breaks, or adds the last  *)
(* element and falls through to the case before it.                        *)

GoodCase(l) ==
  LET adds == Routine.cases[l]
      u == Routine.units
  IN  \/ /\ l \in Routine.breaks /\ l * u <= Width
         /\ adds = <<Part(0, 0, l * u)>>
      \/ /\ l \notin Routine.breaks /\ l > 1 /\ l * u <= Width
         /\ adds = <<Part(0, (l - 1) * u, l * u)>>
      \/ /\ l \in Routine.breaks /\ l * u - Width \in 1..Width
         /\ adds = <<Part(0, 0, Width), Part(1, 0, l * u - Width)>>

GoodRound ==
  \E r \in {1, 2} :
    /\ DOMAIN Routine.round = 1..r /\ r * Width = Routine.step * Routine.units
    /\ \A i \in 1..r : Routine.round[i] = Part(i - 1, 0, Width)

GoodSwitch ==
  \E m \in {Routine.step - 1, Routine.step} :
    /\ DOMAIN Routine.cases = 1..m
    /\ m < Routine.step =>
         fn \in {"hash_stable_16", "hash_stable_32", "hash_stable_64"}
    /\ \A l \in 1..m : GoodCase(l)

Good ==
  /\ Routine.step \in {3, 6, 12} /\ Routine.units \in {1, 2, 4}
  /\ GoodRound /\ GoodSwitch

(* Parts of bytes. *)
LEMMA LittleParts ==
  ASSUME Width = 12, \A o \in Int : Spot(o) = Little(o), NEW a, NEW b
  PROVE  Part(0, a, b) = {Little(i) : i \in a..(b - 1)}
<1>1. ASSUME NEW o \in a..(b - 1)
      PROVE  <<Spot(o)[1], Width * 0 + o, Spot(o)[3]>> = Little(o)
  <2>1. o \in Int /\ Width * 0 + o = o
    OBVIOUS
  <2>2. Spot(o) = Little(o)
    BY <2>1
  <2>3. Little(o) = <<Little(o)[1], o, Little(o)[3]>>
    BY DEF Little
  <2> QED BY <2>1, <2>2, <2>3
<1> QED BY <1>1 DEF Part

LEMMA BigParts ==
  ASSUME Width = 12, \A o \in Int : Spot(o) = Big(o), NEW a, NEW b
  PROVE  Part(0, a, b) = {Big(i) : i \in a..(b - 1)}
<1>1. ASSUME NEW o \in a..(b - 1)
      PROVE  <<Spot(o)[1], Width * 0 + o, Spot(o)[3]>> = Big(o)
  <2>1. o \in Int /\ Width * 0 + o = o
    OBVIOUS
  <2>2. Spot(o) = Big(o)
    BY <2>1
  <2>3. Big(o) = <<Big(o)[1], o, Big(o)[3]>>
    BY DEF Big
  <2> QED BY <2>1, <2>2, <2>3
<1> QED BY <1>1 DEF Part

LEMMA GoodLittleWords ==
  ASSUME Width = 12, \A o \in Int : Spot(o) = Little(o),
         Routine = hashlittle_words
  PROVE  Good
<1> DEFINE R == hashlittle_words
<1>1. /\ R.step = 12 /\ R.units = 1 /\ R.round = LittleRound
      /\ R.breaks = {12, 8, 4, 1}
      /\ R.cases = [l \in 1..12 |->
           <<{Little(i) : i \in IF l % 4 = 0 THEN 0..(l - 1) ELSE {l - 1}}>>]
  BY DEF hashlittle_words
<1>2. GoodRound
  <2>1. LittleRound = <<Part(0, 0, 12)>>
    <3>1. 0..11 = 0..(12 - 1)
      OBVIOUS
    <3> QED BY <3>1, LittleParts DEF LittleRound
  <2> QED BY <1>1, <2>1 DEF GoodRound
<1>3. ASSUME NEW l \in 1..12
      PROVE  GoodCase(l)
  <2>1. CASE l % 4 = 0
    <3>1. l \in {4, 8, 12}
      BY <2>1
    <3>2. R.cases[l] = <<{Little(i) : i \in 0..(l - 1)}>>
      BY <1>1, <2>1
    <3>3. R.cases[l] = <<Part(0, 0, l)>>
      BY <3>2, LittleParts
    <3> QED BY <1>1, <3>1, <3>3 DEF GoodCase
  <2>2. CASE l % 4 # 0
    <3>1. {l - 1} = (l - 1)..(l - 1)
      OBVIOUS
    <3>2. R.cases[l] = <<{Little(i) : i \in (l - 1)..(l - 1)}>>
      BY <1>1, <2>2, <3>1
    <3>3. R.cases[l] = <<Part(0, l - 1, l)>>
      BY <3>2, LittleParts
    <3> QED BY <1>1, <2>2, <3>3 DEF GoodCase
  <2> QED BY <2>1, <2>2
<1> QED BY <1>1, <1>2, <1>3 DEF Good, GoodSwitch

LEMMA GoodLittleHalves ==
  ASSUME Width = 12, \A o \in Int : Spot(o) = Little(o),
         Routine = hashlittle_halves
  PROVE  Good
<1> DEFINE R == hashlittle_halves
<1>1. /\ R.step = 12 /\ R.units = 1 /\ R.round = LittleRound
      /\ R.breaks = {1, 2, 4, 6, 8, 10, 12}
      /\ R.cases = [l \in 1..12 |->
           <<{Little(i) : i \in IF l % 2 = 0 THEN 0..(l - 1) ELSE {l - 1}}>>]
  BY DEF hashlittle_halves
<1>2. GoodRound
  <2>1. LittleRound = <<Part(0, 0, 12)>>
    <3>1. 0..11 = 0..(12 - 1)
      OBVIOUS
    <3> QED BY <3>1, LittleParts DEF LittleRound
  <2> QED BY <1>1, <2>1 DEF GoodRound
<1>3. ASSUME NEW l \in 1..12
      PROVE  GoodCase(l)
  <2>1. CASE l % 2 = 0
    <3>1. l \in {2, 4, 6, 8, 10, 12}
      BY <2>1
    <3>2. R.cases[l] = <<{Little(i) : i \in 0..(l - 1)}>>
      BY <1>1, <2>1
    <3>3. R.cases[l] = <<Part(0, 0, l)>>
      BY <3>2, LittleParts
    <3> QED BY <1>1, <3>1, <3>3 DEF GoodCase
  <2>2. CASE l % 2 # 0
    <3>1. {l - 1} = (l - 1)..(l - 1)
      OBVIOUS
    <3>2. R.cases[l] = <<{Little(i) : i \in (l - 1)..(l - 1)}>>
      BY <1>1, <2>2, <3>1
    <3>3. R.cases[l] = <<Part(0, l - 1, l)>>
      BY <3>2, LittleParts
    <3> QED BY <1>1, <2>2, <3>3 DEF GoodCase
  <2> QED BY <2>1, <2>2
<1> QED BY <1>1, <1>2, <1>3 DEF Good, GoodSwitch

LEMMA GoodBigWords ==
  ASSUME Width = 12, \A o \in Int : Spot(o) = Big(o),
         Routine = hashbig_words
  PROVE  Good
<1> DEFINE R == hashbig_words
<1>1. /\ R.step = 12 /\ R.units = 1 /\ R.round = BigRound
      /\ R.breaks = {12, 8, 4, 1}
      /\ R.cases = [l \in 1..12 |->
           <<{Big(i) : i \in IF l % 4 = 0 THEN 0..(l - 1) ELSE {l - 1}}>>]
  BY DEF hashbig_words
<1>2. GoodRound
  <2>1. BigRound = <<Part(0, 0, 12)>>
    <3>1. 0..11 = 0..(12 - 1)
      OBVIOUS
    <3> QED BY <3>1, BigParts DEF BigRound
  <2> QED BY <1>1, <2>1 DEF GoodRound
<1>3. ASSUME NEW l \in 1..12
      PROVE  GoodCase(l)
  <2>1. CASE l % 4 = 0
    <3>1. l \in {4, 8, 12}
      BY <2>1
    <3>2. R.cases[l] = <<{Big(i) : i \in 0..(l - 1)}>>
      BY <1>1, <2>1
    <3>3. R.cases[l] = <<Part(0, 0, l)>>
      BY <3>2, BigParts
    <3> QED BY <1>1, <3>1, <3>3 DEF GoodCase
  <2>2. CASE l % 4 # 0
    <3>1. {l - 1} = (l - 1)..(l - 1)
      OBVIOUS
    <3>2. R.cases[l] = <<{Big(i) : i \in (l - 1)..(l - 1)}>>
      BY <1>1, <2>2, <3>1
    <3>3. R.cases[l] = <<Part(0, l - 1, l)>>
      BY <3>2, BigParts
    <3> QED BY <1>1, <2>2, <3>3 DEF GoodCase
  <2> QED BY <2>1, <2>2
<1> QED BY <1>1, <1>2, <1>3 DEF Good, GoodSwitch

LEMMA GoodLittleBytes ==
  ASSUME Width = 12, \A o \in Int : Spot(o) = Little(o),
         Routine = hashlittle_bytes
  PROVE  Good
<1> DEFINE R == hashlittle_bytes
<1>1. /\ R.step = 12 /\ R.units = 1 /\ R.round = LittleRound /\ R.breaks = {1}
      /\ R.cases = [l \in 1..12 |-> <<{Little(l - 1)}>>]
  BY DEF hashlittle_bytes
<1>2. GoodRound
  <2>1. LittleRound = <<Part(0, 0, 12)>>
    <3>1. 0..11 = 0..(12 - 1)
      OBVIOUS
    <3> QED BY <3>1, LittleParts DEF LittleRound
  <2> QED BY <1>1, <2>1 DEF GoodRound
<1>3. ASSUME NEW l \in 1..12
      PROVE  GoodCase(l)
  <2>1. (l - 1)..(l - 1) = {l - 1}
    OBVIOUS
  <2>2. {Little(l - 1)} = {Little(i) : i \in (l - 1)..(l - 1)}
    BY <2>1
  <2>3. R.cases[l] = <<{Little(i) : i \in (l - 1)..(l - 1)}>>
    <3>1. R.cases[l] = <<{Little(l - 1)}>>
      BY <1>1
    <3> HIDE DEF R
    <3> QED BY <2>2, <3>1, Zenon
  <2>4. Part(0, l - 1, l) = {Little(i) : i \in (l - 1)..(l - 1)}
    BY LittleParts, Zenon
  <2>5. R.cases[l] = <<Part(0, l - 1, l)>>
    <3> HIDE DEF R
    <3> QED BY <2>3, <2>4, Zenon
  <2> QED BY <1>1, <2>5 DEF GoodCase
<1> QED BY <1>1, <1>2, <1>3 DEF Good, GoodSwitch

LEMMA GoodBigBytes ==
  ASSUME Width = 12, \A o \in Int : Spot(o) = Big(o),
         Routine = hashbig_bytes
  PROVE  Good
<1> DEFINE R == hashbig_bytes
<1>1. /\ R.step = 12 /\ R.units = 1 /\ R.round = BigRound /\ R.breaks = {1}
      /\ R.cases = [l \in 1..12 |-> <<{Big(l - 1)}>>]
  BY DEF hashbig_bytes
<1>2. GoodRound
  <2>1. BigRound = <<Part(0, 0, 12)>>
    <3>1. 0..11 = 0..(12 - 1)
      OBVIOUS
    <3> QED BY <3>1, BigParts DEF BigRound
  <2> QED BY <1>1, <2>1 DEF GoodRound
<1>3. ASSUME NEW l \in 1..12
      PROVE  GoodCase(l)
  <2>1. (l - 1)..(l - 1) = {l - 1}
    OBVIOUS
  <2>2. {Big(l - 1)} = {Big(i) : i \in (l - 1)..(l - 1)}
    BY <2>1
  <2>3. R.cases[l] = <<{Big(i) : i \in (l - 1)..(l - 1)}>>
    <3>1. R.cases[l] = <<{Big(l - 1)}>>
      BY <1>1
    <3> HIDE DEF R
    <3> QED BY <2>2, <3>1, Zenon
  <2>4. Part(0, l - 1, l) = {Big(i) : i \in (l - 1)..(l - 1)}
    BY BigParts, Zenon
  <2>5. R.cases[l] = <<Part(0, l - 1, l)>>
    <3> HIDE DEF R
    <3> QED BY <2>3, <2>4, Zenon
  <2> QED BY <1>1, <2>5 DEF GoodCase
<1> QED BY <1>1, <1>2, <1>3 DEF Good, GoodSwitch

(* Words, and the shares of hash_stable_16 and _32. *)
LEMMA WordParts ==
  ASSUME Width = 12, \A o \in Int : Spot(o) = Native(o), NEW i \in Int
  PROVE  Word(i) = Part(0, 4 * i, 4 * i + 4)
<1> DEFINE S == (4 * i)..(4 * i + 4 - 1)
<1>1. (4 * i)..(4 * i + 3) = S
  OBVIOUS
<1>2. ASSUME NEW o \in S
      PROVE  <<Spot(o)[1], Width * 0 + o, Spot(o)[3]>> = Native(o)
  <2>1. o \in Int /\ Width * 0 + o = o
    OBVIOUS
  <2>2. Spot(o) = Native(o)
    BY <2>1
  <2>3. Little(o) = <<Little(o)[1], o, Little(o)[3]>>
    BY DEF Little
  <2>4. Big(o) = <<Big(o)[1], o, Big(o)[3]>>
    BY DEF Big
  <2>5. Native(o) = Little(o) \/ Native(o) = Big(o)
    BY DEF Native
  <2>6. Native(o) = <<Native(o)[1], o, Native(o)[3]>>
    BY <2>3, <2>4, <2>5, Zenon
  <2> QED BY <2>1, <2>2, <2>6
<1>3. Word(i) = {Native(j) : j \in S}
  BY <1>1, Zenon DEF Word
<1> HIDE DEF S
<1>4. Word(i) = {<<Spot(o)[1], Width * 0 + o, Spot(o)[3]>> : o \in S}
  BY <1>2, <1>3
<1> QED BY <1>4 DEF Part, S

LEMMA GoodU32 ==
  ASSUME Width = 12, \A o \in Int : Spot(o) = Native(o), Routine = hash_u32
  PROVE  Good
<1> DEFINE R == hash_u32
<1>1. /\ R.step = 3 /\ R.units = 4 /\ R.breaks = {1}
      /\ R.round = <<Word(0) \cup Word(1) \cup Word(2)>>
      /\ R.cases = [l \in 1..3 |-> <<Word(l - 1)>>]
  BY DEF hash_u32
<1>2. GoodRound
  <2>1. /\ Word(0) = Part(0, 0, 4) /\ Word(1) = Part(0, 4, 8)
        /\ Word(2) = Part(0, 8, 12)
    <3>1. /\ 4 * 0 = 0 /\ 4 * 0 + 4 = 4 /\ 4 * 1 = 4 /\ 4 * 1 + 4 = 8
          /\ 4 * 2 = 8 /\ 4 * 2 + 4 = 12
      OBVIOUS
    <3>2. /\ Word(0) = Part(0, 4 * 0, 4 * 0 + 4)
          /\ Word(1) = Part(0, 4 * 1, 4 * 1 + 4)
          /\ Word(2) = Part(0, 4 * 2, 4 * 2 + 4)
      BY WordParts
    <3> QED BY <3>1, <3>2
  <2>2. Part(0, 0, 4) \cup Part(0, 4, 8) = Part(0, 0, 8)
    BY PartUnion
  <2>3. Part(0, 0, 8) \cup Part(0, 8, 12) = Part(0, 0, 12)
    BY PartUnion
  <2>4. R.round = <<Part(0, 0, 12)>>
    BY <1>1, <2>1, <2>2, <2>3
  <2> QED BY <1>1, <2>4 DEF GoodRound
<1>3. ASSUME NEW l \in 1..3
      PROVE  GoodCase(l)
  <2>1. R.cases[l] = <<Part(0, (l - 1) * 4, l * 4)>>
    <3>1. Word(l - 1) = Part(0, 4 * (l - 1), 4 * (l - 1) + 4)
      BY WordParts
    <3>2. 4 * (l - 1) = (l - 1) * 4 /\ 4 * (l - 1) + 4 = l * 4
      OBVIOUS
    <3> QED BY <1>1, <3>1, <3>2
  <2> QED BY <1>1, <2>1 DEF GoodCase
<1> QED BY <1>1, <1>2, <1>3 DEF Good, GoodSwitch

LEMMA GoodStable16 ==
  ASSUME fn = "hash_stable_16", Routine = hash64_stable_16
  PROVE  Good
<1> DEFINE R == hash64_stable_16
<1>1. /\ R.step = 6 /\ R.units = 1 /\ R.breaks = {1}
      /\ R.round = <<{Short(i) : i \in 0..5}>>
      /\ R.cases = [l \in 1..5 |-> <<{Short(l - 1)}>>]
  BY DEF hash64_stable_16
<1>2. Width = 6 /\ \A o \in Int : Spot(o) = Short(o)
  BY DEF Width, Spot
<1>3. ASSUME NEW a, NEW b
      PROVE  Part(0, a, b) = {Short(i) : i \in a..(b - 1)}
  <2>1. ASSUME NEW o \in a..(b - 1)
        PROVE  <<Spot(o)[1], Width * 0 + o, Spot(o)[3]>> = Short(o)
    BY <1>2 DEF Short
  <2> QED BY <2>1 DEF Part
<1>4. GoodRound
  <2>1. 0..5 = 0..(6 - 1)
    OBVIOUS
  <2>2. R.round = <<Part(0, 0, 6)>>
    BY <1>1, <1>3, <2>1
  <2> QED BY <1>1, <1>2, <2>2 DEF GoodRound
<1>5. ASSUME NEW l \in 1..5
      PROVE  GoodCase(l)
  <2>1. (l - 1)..(l - 1) = {l - 1}
    OBVIOUS
  <2>2. {Short(l - 1)} = {Short(i) : i \in (l - 1)..(l - 1)}
    BY <2>1
  <2>3. R.cases[l] = <<{Short(i) : i \in (l - 1)..(l - 1)}>>
    BY <1>1, <2>2
  <2>4. Part(0, l - 1, l) = {Short(i) : i \in (l - 1)..(l - 1)}
    BY <1>3
  <2>5. R.cases[l] = <<Part(0, l - 1, l)>>
    BY <2>3, <2>4
  <2> QED BY <1>1, <1>2, <2>5 DEF GoodCase
<1> QED BY <1>1, <1>4, <1>5 DEF Good, GoodSwitch

(* Halves: the six of a round of hash_stable_64 are two blocks. *)
LEMMA HalfParts ==
  ASSUME fn \in {"hash_stable_32", "hash_stable_64"}
  PROVE  /\ Width = 3
         /\ Part(0, 0, 1) = {Half(0)} /\ Part(0, 1, 2) = {Half(1)}
         /\ Part(0, 0, 2) = {Half(0), Half(1)}
         /\ Part(0, 0, 3) = {Half(0), Half(1), Half(2)}
         /\ Part(1, 0, 1) = {Half(3)}
         /\ Part(1, 0, 3) = {Half(3), Half(4), Half(5)}
<1>1. Width = 3 /\ \A o \in Int : Spot(o) = Half(o)
  BY DEF Width, Spot
<1> DEFINE E(m, o) == <<Spot(o)[1], Width * m + o, Spot(o)[3]>>
<1>2. /\ E(0, 0) = Half(0) /\ E(0, 1) = Half(1) /\ E(0, 2) = Half(2)
      /\ E(1, 0) = Half(3) /\ E(1, 1) = Half(4) /\ E(1, 2) = Half(5)
  BY <1>1 DEF Half
<1>3. /\ 0..(1 - 1) = {0} /\ 1..(2 - 1) = {1} /\ 0..(2 - 1) = {0, 1}
      /\ 0..(3 - 1) = {0, 1, 2}
  OBVIOUS
<1>4. \A m, a, b : Part(m, a, b) = {E(m, o) : o \in a..(b - 1)}
  BY DEF Part
<1> HIDE DEF E
<1> QED BY <1>1, <1>2, <1>3, <1>4

LEMMA GoodStable32 ==
  ASSUME fn = "hash_stable_32", Routine = hash64_stable_32
  PROVE  Good
<1> DEFINE R == hash64_stable_32
<1>1. /\ R.step = 3 /\ R.units = 1 /\ R.breaks = {1}
      /\ R.round = <<{Half(0), Half(1), Half(2)}>>
      /\ R.cases = [l \in 1..2 |-> <<{Half(l - 1)}>>]
  BY DEF hash64_stable_32
<1>2. GoodRound
  BY <1>1, HalfParts DEF GoodRound
<1>3. GoodCase(1) /\ GoodCase(2)
  <2>1. R.cases[1] = <<Part(0, 0, 1)>> /\ R.cases[2] = <<Part(0, 1, 2)>>
    <3>1. R.cases[1] = <<{Half(1 - 1)}>> /\ R.cases[2] = <<{Half(2 - 1)}>>
      BY <1>1
    <3>2. 1 - 1 = 0 /\ 2 - 1 = 1
      OBVIOUS
    <3>3. Part(0, 0, 1) = {Half(0)} /\ Part(0, 1, 2) = {Half(1)}
      BY HalfParts
    <3> HIDE DEF R
    <3> QED BY <3>1, <3>2, <3>3, Zenon
  <2> QED BY <1>1, <2>1, HalfParts DEF GoodCase
<1>4. 1..2 = {1, 2}
  OBVIOUS
<1> QED BY <1>1, <1>2, <1>3, <1>4 DEF Good, GoodSwitch

LEMMA GoodStable64 ==
  ASSUME fn = "hash_stable_64", Routine = hash64_stable_64
  PROVE  Good
<1> DEFINE R == hash64_stable_64
<1>1. /\ R.step = 3 /\ R.units = 2 /\ R.breaks = {1, 2}
      /\ R.round = <<{Half(0), Half(1), Half(2)}, {Half(3), Half(4), Half(5)}>>
      /\ R.cases = <<<<{Half(0), Half(1)}>>,
                     <<{Half(0), Half(1), Half(2)}, {Half(3)}>>>>
  BY DEF hash64_stable_64
<1>2. GoodRound
  <2>1. R.round = <<Part(0, 0, 3), Part(1, 0, 3)>>
    BY <1>1, HalfParts
  <2> QED BY <1>1, <2>1, HalfParts DEF GoodRound
<1>3. GoodCase(1) /\ GoodCase(2)
  <2>1. /\ R.cases[1] = <<Part(0, 0, 2)>>
        /\ R.cases[2] = <<Part(0, 0, 3), Part(1, 0, 1)>>
    <3>1. /\ R.cases[1] = <<{Half(0), Half(1)}>>
          /\ R.cases[2] = <<{Half(0), Half(1), Half(2)}, {Half(3)}>>
      BY <1>1
    <3>2. /\ Part(0, 0, 2) = {Half(0), Half(1)} /\ Part(1, 0, 1) = {Half(3)}
          /\ Part(0, 0, 3) = {Half(0), Half(1), Half(2)}
      BY HalfParts
    <3> HIDE DEF R
    <3> QED BY <3>1, <3>2, Zenon
  <2> QED BY <1>1, <2>1, HalfParts DEF GoodCase
<1>4. 1..2 = {1, 2} /\ DOMAIN R.cases = 1..2
  BY <1>1
<1> QED BY <1>1, <1>2, <1>3, <1>4 DEF Good, GoodSwitch

(* Each function calls a routine that suits it. *)
LEMMA AllGood ==
  ASSUME Arguments
  PROVE  Good
<1>1. CASE fn = "hash_any" /\ big
  <2>1. Width = 12 /\ \A o \in Int : Spot(o) = Big(o)
    BY <1>1 DEF Width, Spot
  <2>2. Routine = IF align = 0 THEN hashbig_words ELSE hashbig_bytes
    BY <1>1 DEF Routine, hash_any, hashbig
  <2> QED BY <2>1, <2>2, GoodBigWords, GoodBigBytes
<1>2. CASE fn = "hash_stable_8" \/ (fn = "hash_any" /\ ~big)
  <2>1. Width = 12 /\ \A o \in Int : Spot(o) = Little(o)
    BY <1>2 DEF Width, Spot
  <2>2. Routine = hashlittle
    BY <1>2 DEF Routine, hash_any
  <2>3. align \in {0, 1, 2, 3} /\ 1 % 2 = 1 /\ 3 % 2 = 1 /\ 0 % 2 = 0 /\ 2 % 2 = 0
    BY DEF Arguments
  <2>4. hashlittle \in {hashlittle_words, hashlittle_halves, hashlittle_bytes}
    BY <2>3 DEF hashlittle, Arguments
  <2> QED BY <2>1, <2>2, <2>4, GoodLittleWords, GoodLittleHalves, GoodLittleBytes
<1>3. CASE fn \in {"hash_u32", "hash_pointer"}
  <2>1. Width = 12 /\ \A o \in Int : Spot(o) = Native(o)
    BY <1>3 DEF Width, Spot, Native
  <2>2. Routine = hash_u32
    BY <1>3 DEF Routine
  <2> QED BY <2>1, <2>2, GoodU32
<1>4. CASE fn = "hash_stable_16"
  BY <1>4, GoodStable16 DEF Routine
<1>5. CASE fn = "hash_stable_32"
  BY <1>5, GoodStable32 DEF Routine
<1>6. CASE fn = "hash_stable_64"
  BY <1>6, GoodStable64 DEF Routine
<1>7. \/ fn = "hash_any" \/ fn = "hash_stable_8"
      \/ fn \in {"hash_u32", "hash_pointer"} \/ fn = "hash_stable_16"
      \/ fn = "hash_stable_32" \/ fn = "hash_stable_64"
  BY DEF Arguments, Entries
<1> QED BY <1>1, <1>2, <1>3, <1>4, <1>5, <1>6, <1>7, Zenon

-----------------------------------------------------------------------------
(* The invariant holds at first, and steps keep it. *)

LEMMA Initially == Init => HashInv
<1> SUFFICES ASSUME Init PROVE HashInv
  OBVIOUS
<1>1. Arguments
  <2>1. len \in Nat
    BY SizeAssumption DEF Init, SizeAssumption
  <2>2. fn \in Entries /\ big \in BOOLEAN
    BY DEF Init
  <2>3. align \in 0..3
    <3>1. \/ fn \in {"hash_any", "hash_stable_8"} /\ align \in 0..3
          \/ fn = "hash_stable_16" /\ align \in {0, 2}
          \/ align \in {0}
      BY DEF Init
    <3> QED BY <3>1
  <2> QED BY <2>1, <2>2, <2>3 DEF Arguments
<1>2. Good
  BY <1>1, AllGood
<1>3. Counts(0, 0)
  BY <1>1, <1>2, Widths DEF Counts, Init, Arguments, Good
<1>4. InLoop(0)
  BY NoBlocks DEF InLoop, Init
<1> QED BY <1>1, <1>3, <1>4 DEF HashInv

LEMMA SameKey ==
  ASSUME UNCHANGED args
  PROVE  /\ Arguments => Arguments'
         /\ Routine' = Routine /\ Width' = Width /\ Units' = Units
         /\ LastBlockLost' = LastBlockLost
<1>1. fn' = fn /\ big' = big /\ align' = align /\ len' = len
  BY DEF args
<1>2. Arguments => Arguments'
  BY <1>1 DEF Arguments
<1>3. hash_u32' = hash_u32
  BY <1>1 DEF hash_u32, Word, Native
<1>4. hashlittle' = hashlittle /\ hashbig' = hashbig
  BY <1>1 DEF hashlittle, hashbig
<1>5. Routine' = Routine
  BY <1>1, <1>3, <1>4 DEF Routine, hash_any
<1>6. Width' = Width
  BY <1>1 DEF Width
<1> QED BY <1>1, <1>2, <1>5, <1>6 DEF Units, LastBlockLost

LEMMA SameParts ==
  ASSUME UNCHANGED args, NEW n, NEW a, NEW b
  PROVE  Part(n, a, b)' = Part(n, a, b)
<1>1. fn' = fn /\ big' = big /\ Width' = Width
  BY SameKey DEF args
<1>2. \A o : Spot(o)' = Spot(o)
  BY <1>1 DEF Spot
<1> QED BY <1>1, <1>2 DEF Part

LEMMA SameBlocks ==
  ASSUME UNCHANGED args, NEW n
  PROVE  Blocks(n)' = Blocks(n)
<1>1. Width' = Width
  BY SameKey
<1>2. \A j \in 1..n : Part(j - 1, 0, Width)' = Part(j - 1, 0, Width)
  BY <1>1, SameParts
<1> QED BY <1>1, <1>2 DEF Blocks

LEMMA SameEnds ==
  ASSUME UNCHANGED args, NEW t, NEW b
  PROVE  Ends(t, b) => Ends(t, b)'
<1>1. \A n : Blocks(n)' = Blocks(n)
  BY SameBlocks
<1>2. \A n, r : Part(n, 0, r)' = Part(n, 0, r)
  BY SameParts
<1>3. Width' = Width /\ Units' = Units /\ LastBlockLost' = LastBlockLost
  BY SameKey
<1> QED BY <1>1, <1>2, <1>3, Zenon DEF Ends

LEMMA EndsNow ==
  ASSUME UNCHANGED args, Ends(term', cur')
  PROVE  Ends(term, cur)'
<1>1. \A n : Blocks(n)' = Blocks(n)
  BY SameBlocks
<1>2. \A n, r : Part(n, 0, r)' = Part(n, 0, r)
  BY SameParts
<1>3. Width' = Width /\ Units' = Units /\ LastBlockLost' = LastBlockLost
  BY SameKey
<1> QED BY <1>1, <1>2, <1>3, Zenon DEF Ends

LEMMA PerUnit ==
  ASSUME Good, NEW a \in Int, NEW b \in Int
  PROVE  /\ (a + b) * Routine.units = a * Routine.units + b * Routine.units
         /\ a * Routine.units \in Int
         /\ a >= 0 => a * Routine.units >= a
         /\ a \in Nat => a * Routine.units \in Nat
BY DEF Good

LEMMA LoopKeeps ==
  ASSUME Arguments, NEW q \in Nat, NEW n \in Nat, Counts(q, n), InLoop(n), Loop
  PROVE  HashInv'
<1>1. UNCHANGED args /\ length > Routine.step /\ length \in 0..len /\ len \in Nat
  BY DEF Loop, Full, Counts, Arguments
<1>2. Good
  BY AllGood
<1>3. PICK r \in {1, 2} :
        /\ DOMAIN Routine.round = 1..r /\ r * Width = Routine.step * Routine.units
        /\ \A i \in 1..r : Routine.round[i] = Part(i - 1, 0, Width)
  BY <1>2 DEF Good, GoodRound
<1>4. k = Width * n
  BY DEF Counts
<1>5. term' = Blocks(n + r)
  <2>1. ASSUME NEW i \in 1..r
        PROVE  At(Routine.round[i]) = SetToBag(Part(n + (i - 1), 0, Width))
    <3>1. i - 1 \in Int /\ Width \in Int
      BY Widths
    <3>2. \A x \in Int, b \in Int : At(Part(x, 0, b)) = SetToBag(Part(n + x, 0, b))
      BY <1>4, AtPart
    <3>3. At(Part(i - 1, 0, Width)) = SetToBag(Part(n + (i - 1), 0, Width))
      BY <3>1, <3>2, Zenon
    <3> QED BY <1>3, <3>3
  <2>2. [i \in DOMAIN Routine.round |-> At(Routine.round[i])]
          = [i \in 1..r |-> SetToBag(Part(n + (i - 1), 0, Width))]
    BY <1>3, <2>1
  <2>3. term' = Blocks(n) \o [i \in 1..r |-> SetToBag(Part(n + (i - 1), 0, Width))]
    BY <2>2 DEF Loop, InLoop
  <2>4. r \in Nat
    OBVIOUS
  <2> QED BY <2>3, <2>4, MoreBlocks
<1>6. /\ k' = k + Routine.step * Routine.units
      /\ length' = length - Routine.step
      /\ pc' = "loop" /\ label' = 0 /\ finished' = FALSE /\ cur' = EmptyBag
  BY DEF Loop, InLoop
<1>7. /\ Arguments' /\ Routine' = Routine /\ Width' = Width
      /\ Blocks(n + r)' = Blocks(n + r) /\ len' = len
  BY <1>1, SameKey, SameBlocks DEF args
<1>8. length' \in 1..len /\ n + r \in Nat /\ q + 1 \in Nat
  <2>1. Routine.step \in 1..12
    BY <1>2 DEF Good
  <2>2. length - Routine.step \in 1..len
    BY <1>1, <2>1
  <2> QED BY <1>6, <2>2
<1>9. len = length' + Routine.step * (q + 1)
  BY <1>1, <1>2, <1>6 DEF Counts, Good
<1>10. k' = (len - length') * Routine.units
  <2>1. len - length' = (len - length) + Routine.step /\ Routine.step \in Int
    BY <1>1, <1>2, <1>6 DEF Good
  <2>2. len - length \in Int
    BY <1>1
  <2>3. (len - length') * Routine.units
          = (len - length) * Routine.units + Routine.step * Routine.units
    BY <1>2, <2>1, <2>2, PerUnit
  <2> QED BY <1>6, <2>3 DEF Counts
<1>11. k' = Width * (n + r)
  <2>1. Width * (n + r) = Width * n + r * Width
    BY <1>3, Widths
  <2> QED BY <1>3, <1>4, <1>6, <2>1
<1>12. Counts(q + 1, n + r)'
  BY <1>7, <1>8, <1>9, <1>10, <1>11 DEF Counts
<1>13. InLoop(n + r)'
  <2>1. length' # 0
    BY <1>8
  <2> QED BY <1>5, <1>6, <1>7, <2>1 DEF InLoop, EmptyBag
<1> QED BY <1>7, <1>8, <1>12, <1>13 DEF HashInv

LEMMA SwitchKeeps ==
  ASSUME Arguments, NEW q \in Nat, NEW n \in Nat, Counts(q, n), InLoop(n), Switch
  PROVE  HashInv'
<1>1. /\ UNCHANGED args /\ UNCHANGED <<length, k, cur, term, finished>>
      /\ label' = length /\ ~(length > Routine.step)
      /\ length \in 0..len /\ len \in Nat
  BY DEF Switch, Full, Counts, Arguments
<1>2. Good
  BY AllGood
<1>3. /\ Arguments' /\ Routine' = Routine /\ Width' = Width /\ Units' = Units
      /\ LastBlockLost' = LastBlockLost
      /\ Blocks(n)' = Blocks(n) /\ len' = len
  BY <1>1, SameKey, SameBlocks DEF args
<1>4. Counts(q, n)'
  BY <1>1, <1>3 DEF Counts
<1>5. k = Width * n /\ k = (len - length) * Routine.units
  BY DEF Counts
<1>6. CASE length = 0
  <2>1. len = 0
    BY <1>6 DEF InLoop
  <2>2. n = 0
    BY <1>2, <1>5, <1>6, <2>1, Widths DEF Good
  <2>3. pc' = "done"
    <3>1. length \notin DOMAIN Routine.cases
      BY <1>2, <1>6 DEF Good, GoodSwitch
    <3> QED BY <1>6, <3>1 DEF Switch
  <2>4. IsDone'
    BY <1>1, <1>3, <1>6, <2>1, <2>2, <2>3, NoBlocks DEF IsDone, InLoop, EmptyBag
  <2> QED BY <1>3, <1>4, <2>4 DEF HashInv
<1>7. CASE length # 0 /\ length \in DOMAIN Routine.cases
  <2>1. pc' = "switch"
    BY <1>7 DEF Switch
  <2>2. Part(n, length * Routine.units, length * Routine.units) = {}
    <3>1. length * Routine.units \in Int
      BY <1>1, <1>2 DEF Good
    <3> QED BY <3>1, PartEmpty
  <2>3. Part(n, length * Routine.units, length * Routine.units)' = {}
    BY <1>1, <1>3, <2>2, SameParts
  <2>4. label' \in 1..length'
    BY <1>1, <1>7
  <2>5. cur' = SetToBag({})
    BY <1>1 DEF InLoop, EmptyBag
  <2>6. cur' = SetToBag(Part(n, label * Routine.units, length * Routine.units))'
    BY <1>1, <2>3, <2>5 DEF SetToBag
  <2>7. InSwitch(n)'
    BY <1>1, <1>3, <1>7, <2>1, <2>4, <2>6 DEF InSwitch, InLoop
  <2> QED BY <1>3, <1>4, <2>7 DEF HashInv
<1>8. CASE length # 0 /\ length \notin DOMAIN Routine.cases
  <2>1. pc' = "final"
    BY <1>1, <1>8 DEF Switch
  <2>2. /\ length = Routine.step
        /\ fn \in {"hash_stable_16", "hash_stable_32", "hash_stable_64"}
    <3>1. PICK m \in {Routine.step - 1, Routine.step} :
            /\ DOMAIN Routine.cases = 1..m
            /\ m < Routine.step =>
                 fn \in {"hash_stable_16", "hash_stable_32", "hash_stable_64"}
      BY <1>2 DEF Good, GoodSwitch
    <3>2. Routine.step \in Nat /\ length \in Nat /\ ~(length > Routine.step)
      BY <1>1, <1>2 DEF Good
    <3>3. ~(1 <= length /\ length <= m)
      BY <1>8, <3>1, <3>2
    <3>4. m < length
      BY <1>8, <3>1, <3>2, <3>3
    <3> QED BY <3>1, <3>2, <3>4
  <2>3. len > 0 /\ len % Routine.step = 0
    <3>1. len = Routine.step * (q + 1)
      BY <1>2, <2>2 DEF Counts, Good
    <3> QED BY <1>2, <2>2, <3>1 DEF Good
  <2>4. LastBlockLost
    BY <2>2, <2>3 DEF LastBlockLost
  <2>5. Width * n <= Units
    <3>1. len - length \in Int /\ length \in Nat /\ len = (len - length) + length
      BY <1>1
    <3>2. len * Routine.units
            = (len - length) * Routine.units + length * Routine.units
      BY <1>2, <3>1 DEF Good
    <3>3. length * Routine.units \in Nat /\ (len - length) * Routine.units \in Int
      BY <1>2, <3>1 DEF Good
    <3> QED BY <1>5, <3>2, <3>3 DEF Units
  <2>6. Ends(term, cur)
    BY <2>4, <2>5 DEF Ends, InLoop
  <2>7. Ends(term, cur)'
    BY <1>1, <1>3, <2>4, <2>5 DEF Ends, InLoop, EmptyBag
  <2>8. InFinal'
    BY <1>1, <1>3, <2>1, <2>3, <2>7 DEF InFinal, InLoop
  <2> QED BY <1>3, <1>4, <2>8 DEF HashInv
<1> QED BY <1>6, <1>7, <1>8

(* What is left when the switch is entered completes the key. *)
LEMMA Rest ==
  ASSUME Arguments, NEW q \in Nat, NEW n \in Nat, Counts(q, n)
  PROVE  Width * n + length * Routine.units = Units
<1>1. Good
  BY AllGood
<1>2. len \in Int /\ length \in Int
  BY DEF Counts, Arguments
<1>3. len * Routine.units
        = (len - length) * Routine.units + length * Routine.units
  BY <1>1, <1>2 DEF Good
<1> QED BY <1>3 DEF Counts, Units

LEMMA CaseKeeps ==
  ASSUME Arguments, NEW q \in Nat, NEW n \in Nat, Counts(q, n), InSwitch(n), Case
  PROVE  HashInv'
<1> DEFINE u == Routine.units
           adds == Routine.cases[label]
<1>1. /\ UNCHANGED args /\ length' = length /\ k' = k /\ finished' = FALSE
      /\ label' = label - 1 /\ label \in 1..length
      /\ length \in 0..len /\ len \in Nat
      /\ cur' = IF Len(adds) = 1 THEN cur (+) At(adds[1]) ELSE At(Last(adds))
      /\ term' = term \o [i \in 1..(Len(adds) - 1) |-> At(adds[i])]
      /\ pc' = IF label \in Routine.breaks THEN "final" ELSE "switch"
  BY DEF Case, InSwitch, Counts, Arguments
<1>2. /\ Good /\ u \in {1, 2, 4}
  BY AllGood DEF Good
<1>3. /\ Arguments' /\ Routine' = Routine /\ Width' = Width
      /\ Blocks(n)' = Blocks(n) /\ len' = len
  BY <1>1, SameKey, SameBlocks DEF args
<1>4. Counts(q, n)'
  BY <1>1, <1>3 DEF Counts
<1>5. /\ term = Blocks(n) /\ k = Width * n
      /\ cur = SetToBag(Part(n, label * u, length * u))
      /\ label < length => length * u <= Width
  BY DEF InSwitch, Counts
<1>6. GoodCase(label) /\ GoodCase(length)
  <2>1. PICK m \in {Routine.step - 1, Routine.step} :
          DOMAIN Routine.cases = 1..m /\ \A l \in 1..m : GoodCase(l)
    BY <1>2 DEF Good, GoodSwitch
  <2>2. length \in 1..m
    BY <2>1 DEF InSwitch
  <2>3. label \in 1..m
    BY <1>1, <1>2, <2>1, <2>2 DEF Good
  <2> QED BY <2>1, <2>2, <2>3
<1>7. /\ (label - 1) * u \in Int /\ label * u \in Int /\ length * u \in Int
      /\ 0 <= (label - 1) * u /\ (label - 1) * u <= label * u
      /\ 0 < label * u /\ label * u <= length * u
  <2> HIDE DEF u
  <2>1. label \in Nat /\ length \in Nat /\ 1 <= label /\ label <= length
    BY <1>1
  <2>2. CASE u = 1
    BY <2>1, <2>2
  <2>3. CASE u = 2
    BY <2>1, <2>3
  <2>4. CASE u = 4
    BY <2>1, <2>4
  <2> QED BY <1>2, <2>2, <2>3, <2>4
<1>8. \A x, a, b \in Int : At(Part(x, a, b)) = SetToBag(Part(n + x, a, b))
  BY <1>5, AtPart
<1>9. ASSUME Len(adds) = 1
      PROVE  term' = Blocks(n)
  <2>1. [i \in 1..0 |-> At(adds[i])]
          = [i \in 1..0 |-> SetToBag(Part(n + (i - 1), 0, Width))]
    OBVIOUS
  <2>2. term' = term \o [i \in 1..0 |-> At(adds[i])]
    <3>1. Len(adds) - 1 = 0
      BY <1>9
    <3> QED BY <1>1, <3>1
  <2>3. term' = Blocks(n) \o [i \in 1..0 |-> SetToBag(Part(n + (i - 1), 0, Width))]
    BY <1>5, <2>1, <2>2, Zenon
  <2>4. n + 0 = n /\ 0 \in Nat
    OBVIOUS
  <2>5. Blocks(n) \o [i \in 1..0 |-> SetToBag(Part(n + (i - 1), 0, Width))]
          = Blocks(n + 0)
    BY <2>4, MoreBlocks
  <2> QED BY <2>3, <2>4, <2>5, Zenon
(* Adding a part in front of what was added before. *)
<1>10. ASSUME NEW a \in Int, a <= label * u, adds = <<Part(0, a, label * u)>>
       PROVE  /\ cur' = SetToBag(Part(n, a, length * u))
              /\ term' = Blocks(n)
  <2>1. Len(adds) = 1 /\ adds[1] = Part(0, a, label * u)
    BY <1>10
  <2>2. At(Part(0, a, label * u)) = SetToBag(Part(n + 0, a, label * u))
    <3>1. 0 \in Int /\ label * u \in Int
      BY <1>7
    <3> QED BY <1>8, <3>1, Zenon
  <2>3. cur' = SetToBag(Part(n, label * u, length * u))
                 (+) SetToBag(Part(n, a, label * u))
    <3>1. cur' = cur (+) At(adds[1])
      BY <1>1, <2>1
    <3>2. n + 0 = n
      OBVIOUS
    <3> QED BY <1>5, <2>1, <2>2, <3>1, <3>2, Zenon
  <2>4. /\ Part(n, a, label * u) \cup Part(n, label * u, length * u)
             = Part(n, a, length * u)
        /\ Part(n, a, label * u) \cap Part(n, label * u, length * u) = {}
    <3> DEFINE B == label * u
               C == length * u
    <3>1. B \in Int /\ C \in Int /\ a <= B /\ B <= C
      BY <1>7, <1>10
    <3> HIDE DEF B, C
    <3>2. /\ Part(n, a, B) \cup Part(n, B, C) = Part(n, a, C)
          /\ Part(n, a, B) \cap Part(n, B, C) = {}
      <4>1. n \in Int
        OBVIOUS
      <4> QED BY <3>1, <4>1, PartUnion, Zenon
    <3> QED BY <3>2 DEF B, C
  <2> QED BY <1>9, <2>1, <2>3, <2>4, BagOfUnion
<1>11. CASE /\ label \in Routine.breaks /\ label * u <= Width
            /\ adds = <<Part(0, 0, label * u)>>
  <2>1. cur' = SetToBag(Part(n, 0, length * u)) /\ term' = Blocks(n)
    BY <1>7, <1>10, <1>11
  <2>2. length * u \in 1..Width
    <3>1. CASE label = length
      BY <1>7, <1>11, <3>1, Widths
    <3>2. CASE label < length
      BY <1>5, <1>7, <3>2, Widths
    <3> QED BY <1>1, <3>1, <3>2
  <2>3. Ends(term', cur')
    BY <2>1, <2>2, Rest DEF Ends
  <2>4. Ends(term, cur)'
    BY <1>1, <2>3, EndsNow
  <2>5. InFinal'
    BY <1>1, <1>3, <1>11, <2>4 DEF InFinal
  <2> QED BY <1>3, <1>4, <2>5 DEF HashInv
<1>12. CASE /\ label \notin Routine.breaks /\ label > 1 /\ label * u <= Width
            /\ adds = <<Part(0, (label - 1) * u, label * u)>>
  <2>1. /\ cur' = SetToBag(Part(n, (label - 1) * u, length * u))
        /\ term' = Blocks(n)
    BY <1>7, <1>10, <1>12
  <2>2. length * u <= Width
    BY <1>1, <1>5, <1>12
  <2>3. Part(n, label * Routine.units, length * Routine.units)'
          = Part(n, (label - 1) * u, length * u)
    <3>1. \A a, b : Part(n, a, b)' = Part(n, a, b)
      BY <1>1, SameParts
    <3> QED BY <1>1, <1>3, <3>1
  <2>4. length \in DOMAIN Routine.cases
    BY DEF InSwitch
  <2>5. /\ pc' = "switch" /\ label' \in 1..length /\ label' + 1 = label
    BY <1>1, <1>12
  <2>6. cur' = SetToBag(Part(n, label * Routine.units, length * Routine.units))'
    BY <1>1, <1>3, <2>1, <2>3 DEF SetToBag
  <2>7. InSwitch(n)'
    BY <1>1, <1>3, <2>1, <2>2, <2>4, <2>5, <2>6 DEF InSwitch
  <2> QED BY <1>3, <1>4, <2>7 DEF HashInv
<1>13. CASE /\ label \in Routine.breaks /\ label * u - Width \in 1..Width
            /\ adds = <<Part(0, 0, Width), Part(1, 0, label * u - Width)>>
  <2>1. label = length
    <3>1. label * u > Width
      BY <1>7, <1>13, Widths
    <3>2. ~(length * u <= Width)
      BY <1>7, <3>1, Widths
    <3>3. ~(label < length)
      BY <1>5, <3>2
    <3>4. label \in 1..length /\ length \in Int
      BY <1>1
    <3> QED BY <3>3, <3>4
  <2> DEFINE r == label * u - Width
  <2>2. Len(adds) = 2 /\ adds[1] = Part(0, 0, Width) /\ Last(adds) = Part(1, 0, r)
    BY <1>13 DEF Last
  <2>3. cur' = SetToBag(Part(n + 1, 0, r))
    <3>1. r \in Int
      BY <1>13
    <3> HIDE DEF r
    <3>2. At(Part(1, 0, r)) = SetToBag(Part(n + 1, 0, r))
      BY <1>8, <3>1
    <3> QED BY <1>1, <2>2, <3>2
  <2>4. term' = Blocks(n + 1)
    <3>1. At(Part(0, 0, Width)) = SetToBag(Part(n + 0, 0, Width))
      BY <1>8, Widths
    <3>2. Len(adds) - 1 = 1
      BY <2>2
    <3>3. term' = term \o [i \in 1..1 |-> At(adds[i])]
      BY <1>1, <3>2
    <3>4. ASSUME NEW i \in 1..1
          PROVE  At(adds[i]) = SetToBag(Part(n + (i - 1), 0, Width))
      <4>1. i = 1 /\ i - 1 = 0
        OBVIOUS
      <4> QED BY <2>2, <3>1, <4>1
    <3>5. [i \in 1..1 |-> At(adds[i])]
            = [i \in 1..1 |-> SetToBag(Part(n + (i - 1), 0, Width))]
      BY <3>4
    <3>6. term' = Blocks(n) \o [i \in 1..1 |-> SetToBag(Part(n + (i - 1), 0, Width))]
      BY <1>5, <3>3, <3>5, Zenon
    <3> QED BY <3>6, MoreBlocks
  <2>5. Width * (n + 1) + r = Units
    <3>1. Width * n + length * u = Units
      BY Rest
    <3>2. Width * (n + 1) = Width * n + Width
      BY Widths
    <3> QED BY <1>7, <2>1, <3>1, <3>2, Widths
  <2>6. Ends(term', cur')
    BY <1>13, <2>3, <2>4, <2>5 DEF Ends
  <2>7. Ends(term, cur)'
    BY <1>1, <2>6, EndsNow
  <2>8. InFinal'
    BY <1>1, <1>3, <1>13, <2>7 DEF InFinal
  <2> QED BY <1>3, <1>4, <2>8 DEF HashInv
<1> QED BY <1>6, <1>11, <1>12, <1>13 DEF GoodCase

LEMMA FinalKeeps ==
  ASSUME Arguments, NEW q \in Nat, NEW n \in Nat, Counts(q, n), InFinal, Final
  PROVE  HashInv'
<1>1. /\ UNCHANGED args /\ length' = length /\ k' = k /\ label' = label
      /\ pc' = "done" /\ finished' = TRUE /\ cur' = EmptyBag
      /\ term' = Append(term, cur)
      /\ label \in 0..len /\ len > 0 /\ Ends(term, cur)
  BY DEF Final, InFinal
<1>2. /\ Arguments' /\ Routine' = Routine /\ Width' = Width
      /\ len' = len
  BY <1>1, SameKey DEF args
<1>3. Counts(q, n)'
  BY <1>1, <1>2 DEF Counts
<1>4. \E t, b : Ends(t, b)' /\ term' = Append(t, b)
  <2>1. \E t, b : Ends(t, b) /\ term' = Append(t, b)
    BY <1>1
  <2>2. \A t, b : Ends(t, b) => Ends(t, b)'
    BY <1>1, SameEnds
  <2> QED BY <2>1, <2>2, Zenon
<1>5. IsDone'
  BY <1>1, <1>2, <1>4, Zenon DEF IsDone, EmptyBag
<1> QED BY <1>2, <1>3, <1>5 DEF HashInv

LEMMA StutterKeeps ==
  ASSUME HashInv, UNCHANGED vars
  PROVE  HashInv'
<1>1. /\ UNCHANGED args /\ pc' = pc /\ length' = length /\ k' = k
      /\ label' = label /\ cur' = cur /\ term' = term /\ finished' = finished
  BY DEF vars
<1>2. PICK q \in Nat, n \in Nat :
        Counts(q, n) /\ (InLoop(n) \/ InSwitch(n) \/ InFinal \/ IsDone)
  BY DEF HashInv
<1>3. Arguments' /\ Routine' = Routine /\ Width' = Width /\ len' = len
      /\ Blocks(n)' = Blocks(n)
  BY <1>1, SameKey, SameBlocks DEF args, HashInv
<1>4. \A a, b : Part(n, a, b)' = Part(n, a, b)
  BY <1>1, SameParts
<1>5. Counts(q, n)'
  BY <1>1, <1>2, <1>3 DEF Counts
<1>6. CASE InLoop(n)
  BY <1>1, <1>2, <1>3, <1>5, <1>6 DEF InLoop, EmptyBag, HashInv
<1>7. CASE InSwitch(n)
  <2>1. InSwitch(n)'
    BY <1>1, <1>3, <1>4, <1>7 DEF InSwitch
  <2> QED BY <1>2, <1>3, <1>5, <2>1 DEF HashInv
<1>8. CASE InFinal
  <2>1. Ends(term', cur')
    BY <1>1, <1>8 DEF InFinal
  <2>2. InFinal'
    BY <1>1, <1>3, <1>8, <2>1, EndsNow DEF InFinal
  <2> QED BY <1>2, <1>3, <1>5, <2>2 DEF HashInv
<1>9. CASE IsDone
  <2>1. \A t, b : Ends(t, b) => Ends(t, b)'
    BY <1>1, SameEnds
  <2>2. IsDone'
    BY <1>1, <1>3, <1>9, <2>1, Zenon DEF IsDone, EmptyBag
  <2> QED BY <1>2, <1>3, <1>5, <2>2 DEF HashInv
<1> QED BY <1>2, <1>6, <1>7, <1>8, <1>9

(* The loop and the switch of every routine keep to the blocks: what was   *)
(* mixed are whole ones, what is in a, b, c is the end of the key from the *)
(* case the switch is at (HashInv).                                        *)
THEOREM AddsBlockByBlock == Spec => []HashInv
<1>1. Init => HashInv
  BY Initially
<1>2. HashInv /\ [Next]_vars => HashInv'
  <2> SUFFICES ASSUME HashInv, [Next]_vars PROVE HashInv'
    OBVIOUS
  <2>1. PICK q \in Nat, n \in Nat :
          Counts(q, n) /\ (InLoop(n) \/ InSwitch(n) \/ InFinal \/ IsDone)
    BY DEF HashInv
  <2>2. Arguments
    BY DEF HashInv
  <2>3. CASE Loop
    <3>1. InLoop(n)
      BY <2>1, <2>3 DEF Loop, InSwitch, InFinal, IsDone
    <3> QED BY <2>1, <2>2, <2>3, <3>1, LoopKeeps
  <2>4. CASE Switch
    <3>1. InLoop(n)
      BY <2>1, <2>4 DEF Switch, InSwitch, InFinal, IsDone
    <3> QED BY <2>1, <2>2, <2>4, <3>1, SwitchKeeps
  <2>5. CASE Case
    <3>1. InSwitch(n)
      BY <2>1, <2>5 DEF Case, InLoop, InFinal, IsDone
    <3> QED BY <2>1, <2>2, <2>5, <3>1, CaseKeeps
  <2>6. CASE Final
    <3>1. InFinal
      BY <2>1, <2>6 DEF Final, InLoop, InSwitch, IsDone
    <3> QED BY <2>1, <2>2, <2>6, <3>1, FinalKeeps
  <2>7. CASE UNCHANGED vars
    BY <2>7, StutterKeeps
  <2> QED BY <2>3, <2>4, <2>5, <2>6, <2>7 DEF Next
<1> QED BY <1>1, <1>2, PTL DEF Spec

-----------------------------------------------------------------------------
(* What was added, in every state: nothing but parts of the key. *)

LEMMA UnitsNat ==
  ASSUME Arguments
  PROVE  Units \in Nat
BY AllGood DEF Units, Good, Arguments

LEMMA WholeBlocks ==
  ASSUME NEW n \in Nat, Units \in Nat, Width * n <= Units, NEW j \in 1..n
  PROVE  /\ Blocks(n)[j] = SetToBag(Part(j - 1, 0, Width))
         /\ Width * (j - 1) + Width <= Units
<1>1. Blocks(n)[j] = SetToBag(Part(j - 1, 0, Width))
  BY DEF Blocks
<1>2. Width * (j - 1) + Width <= Units
  BY Widths
<1> QED BY <1>1, <1>2

(* A block or the beginning of one, all of it key. *)
Piece(j, x) ==
  \E to \in 0..Width :
    x = SetToBag(Part(j - 1, 0, to)) /\ Width * (j - 1) + to <= Units

Pieces(t) ==
  \E n \in Nat : DOMAIN t = 1..n /\ \A j \in 1..n : Piece(j, t[j])

Within(b) ==
  \E n, from, to \in Nat :
    b = SetToBag(Part(n, from, to)) /\ Width * n + to <= Units

LEMMA BlockPiece ==
  ASSUME NEW n \in Nat, Units \in Nat, Width * n <= Units, NEW j \in 1..n
  PROVE  Piece(j, Blocks(n)[j])
BY WholeBlocks, Widths DEF Piece

LEMMA BlocksArePieces ==
  ASSUME NEW n \in Nat, Units \in Nat, Width * n <= Units
  PROVE  Pieces(Blocks(n))
<1>1. \A j \in 1..n : Piece(j, Blocks(n)[j])
  BY BlockPiece
<1>2. DOMAIN Blocks(n) = 1..n
  BY DEF Blocks
<1> QED BY <1>1, <1>2 DEF Pieces

LEMMA AppendBlock ==
  ASSUME NEW n \in Nat, NEW b
  PROVE  /\ DOMAIN Append(Blocks(n), b) = 1..(n + 1)
         /\ \A j \in 1..n : Append(Blocks(n), b)[j] = Blocks(n)[j]
         /\ Append(Blocks(n), b)[n + 1] = b
<1> DEFINE B(j) == SetToBag(Part(j - 1, 0, Width))
           T == {B(j) : j \in Int} \cup {b}
<1>1. Blocks(n) \in [1..n -> T]
  BY DEF Blocks
<1> HIDE DEF T
<1>2. Blocks(n) \in Seq(T) /\ Len(Blocks(n)) = n
  BY <1>1, FunctionSeq
<1>3. b \in T
  BY DEF T
<1> QED BY <1>2, <1>3

LEMMA AppendFunction ==
  ASSUME NEW n \in Nat, NEW b
  PROVE  Append(Blocks(n), b) = [j \in 1..(n + 1) |-> Append(Blocks(n), b)[j]]
<1> DEFINE T == {Blocks(n)[j] : j \in 1..n} \cup {b}
           u == Append(Blocks(n), b)
<1>1. Blocks(n) \in [1..n -> T]
  BY DEF Blocks
<1> HIDE DEF T
<1>2. Blocks(n) \in Seq(T) /\ Len(Blocks(n)) = n
  BY <1>1, FunctionSeq
<1>3. b \in T
  BY DEF T
<1>4. u \in Seq(T) /\ Len(u) = n + 1
  BY <1>2, <1>3
<1> HIDE DEF u
<1>5. u = [j \in 1..(n + 1) |-> u[j]]
  BY <1>4
<1> QED BY <1>5 DEF u

LEMMA NoPart ==
  ASSUME NEW n, NEW a \in Int
  PROVE  SetToBag(Part(n, a, a)) = EmptyBag
BY PartEmpty DEF EmptyBag

LEMMA EndsPieces ==
  ASSUME Units \in Nat, NEW t, NEW b, Ends(t, b)
  PROVE  Pieces(t) /\ Within(b) /\ Pieces(Append(t, b))
<1>1. ASSUME NEW n \in Nat, NEW r \in 0..Width, Width * n + r <= Units,
             t = Blocks(n), b = SetToBag(Part(n, 0, r))
      PROVE  Pieces(t) /\ Within(b) /\ Pieces(Append(t, b))
  <2>1. Width * n <= Units
    BY <1>1, Widths
  <2>2. Pieces(t)
    BY <1>1, <2>1, BlocksArePieces
  <2>3. Within(b)
    BY <1>1, Widths DEF Within
  <2>4. /\ DOMAIN Append(t, b) = 1..(n + 1)
        /\ \A j \in 1..n : Append(t, b)[j] = Blocks(n)[j]
        /\ Append(t, b)[n + 1] = b
    <3>1. /\ DOMAIN Append(Blocks(n), b) = 1..(n + 1)
          /\ \A j \in 1..n : Append(Blocks(n), b)[j] = Blocks(n)[j]
          /\ Append(Blocks(n), b)[n + 1] = b
      BY AppendBlock, Zenon
    <3> QED BY <1>1, <3>1, Zenon
  <2>5. ASSUME NEW j \in 1..(n + 1)
        PROVE  Piece(j, Append(t, b)[j])
    <3>1. CASE j \in 1..n
      <4>1. Piece(j, Blocks(n)[j])
        BY <2>1, <3>1, BlockPiece
      <4> QED BY <2>4, <3>1, <4>1
    <3>2. CASE j = n + 1
      <4>1. j - 1 = n
        BY <3>2
      <4> QED BY <1>1, <2>4, <3>2, <4>1 DEF Piece
    <3>3. j \in 1..n \/ j = n + 1
      OBVIOUS
    <3> QED BY <3>1, <3>2, <3>3, Zenon
  <2>6. n + 1 \in Nat
    OBVIOUS
  <2> QED BY <2>2, <2>3, <2>4, <2>5, <2>6 DEF Pieces
<1>2. CASE \E n \in Nat :
             LastBlockLost /\ Width * n <= Units /\ t = Blocks(n) /\ b = EmptyBag
  <2>1. PICK n \in Nat : Width * n <= Units /\ t = Blocks(n) /\ b = EmptyBag
    BY <1>2
  <2>2. b = SetToBag(Part(n, 0, 0))
    BY <2>1, NoPart
  <2>3. 0 \in 0..Width /\ Width * n + 0 <= Units
    BY <2>1, Widths
  <2> QED BY <1>1, <2>1, <2>2, <2>3
<1>3. CASE \E n \in Nat, r \in 1..Width :
             /\ Width * n + r = Units
             /\ t = Blocks(n) /\ b = SetToBag(Part(n, 0, r))
  <2>1. PICK n \in Nat, r \in 1..Width :
          /\ Width * n + r = Units
          /\ t = Blocks(n) /\ b = SetToBag(Part(n, 0, r))
    BY <1>3
  <2>2. r \in 0..Width /\ Width * n + r <= Units
    BY <2>1, Widths
  <2> QED BY <1>1, <2>1, <2>2
<1> QED BY <1>2, <1>3 DEF Ends

LEMMA OnlyPieces ==
  ASSUME HashInv
  PROVE  Pieces(term) /\ Within(cur)
<1>1. Units \in Nat
  BY UnitsNat DEF HashInv
<1>2. PICK q \in Nat, n \in Nat :
        Counts(q, n) /\ (InLoop(n) \/ InSwitch(n) \/ InFinal \/ IsDone)
  BY DEF HashInv
<1>3. Width * n + length * Routine.units = Units
  BY <1>2, Rest DEF HashInv
<1>4. Good /\ length \in Nat /\ length * Routine.units \in Nat
  BY <1>2, AllGood DEF Good, Counts, HashInv, Arguments
<1>5. Width * n <= Units
  BY <1>3, <1>4, Widths
<1>6. Pieces(Blocks(n)) /\ Blocks(0) = <<>> /\ Pieces(Blocks(0))
  BY <1>1, <1>5, BlocksArePieces, NoBlocks, Widths
<1>7. Within(EmptyBag)
  <2>1. EmptyBag = SetToBag(Part(0, 0, 0))
    BY NoPart
  <2>2. Width * 0 + 0 <= Units
    BY <1>1, Widths
  <2> QED BY <2>1, <2>2 DEF Within
<1>8. CASE InLoop(n)
  BY <1>6, <1>7, <1>8 DEF InLoop
<1>9. CASE InSwitch(n)
  <2>1. label * Routine.units \in Nat
    BY <1>4, <1>9 DEF InSwitch, Good
  <2> DEFINE a == label * Routine.units
             b == length * Routine.units
  <2>2. /\ term = Blocks(n) /\ cur = SetToBag(Part(n, a, b))
        /\ a \in Nat /\ b \in Nat /\ Width * n + b <= Units
    BY <1>1, <1>3, <1>4, <1>9, <2>1 DEF InSwitch
  <2> HIDE DEF a, b
  <2> QED BY <1>6, <2>2 DEF Within
<1>10. CASE InFinal
  BY <1>1, <1>10, EndsPieces DEF InFinal
<1>11. CASE IsDone
  BY <1>1, <1>6, <1>7, <1>11, EndsPieces DEF IsDone
<1> QED BY <1>2, <1>8, <1>9, <1>10, <1>11

LEMMA PieceIsBag ==
  ASSUME NEW S
  PROVE  IsABag(SetToBag(S)) /\ DOMAIN SetToBag(S) = S
BY DEF IsABag, SetToBag

LEMMA CountsTypes ==
  ASSUME HashInv
  PROVE  /\ pc \in {"loop", "switch", "final", "done"}
         /\ length \in 0..len /\ k = (len - length) * Routine.units
         /\ label \in 0..len /\ finished \in BOOLEAN
<1>1. PICK q \in Nat, n \in Nat :
        Counts(q, n) /\ (InLoop(n) \/ InSwitch(n) \/ InFinal \/ IsDone)
  BY DEF HashInv
<1>2. length \in 0..len /\ k = (len - length) * Routine.units /\ len \in Nat
  BY <1>1 DEF Counts, HashInv, Arguments
<1>3. finished \in BOOLEAN
  <2>1. finished = FALSE \/ finished = TRUE
    BY <1>1 DEF InLoop, InSwitch, InFinal, IsDone
  <2> QED BY <2>1
<1>4. pc \in {"loop", "switch", "final", "done"}
  BY <1>1 DEF InLoop, InSwitch, InFinal, IsDone
<1>5. label \in 0..len
  <2>1. label = 0 \/ label \in 1..length \/ label \in 0..len
    BY <1>1 DEF InLoop, InSwitch, InFinal, IsDone
  <2> QED BY <1>2, <2>1
<1> QED BY <1>2, <1>3, <1>4, <1>5

(* The counters of the call stay in their ranges, the cursor has moved by  *)
(* what the counter of elements has lost (TypeOK).                         *)
THEOREM HashTypes == Spec => []TypeOK
<1>1. HashInv => TypeOK
  <2> SUFFICES ASSUME HashInv PROVE TypeOK
    OBVIOUS
  <2>1. Pieces(term) /\ Within(cur)
    BY OnlyPieces
  <2>2. IsABag(cur)
    BY <2>1, PieceIsBag DEF Within
  <2>3. \A j \in DOMAIN term : IsABag(term[j])
    BY <2>1, PieceIsBag DEF Pieces, Piece
  <2> QED BY <2>2, <2>3, CountsTypes DEF TypeOK
<1> QED BY <1>1, AddsBlockByBlock, PTL

(* No routine reads a byte, word or half word that is not all key, however *)
(* long the key and whatever its alignment (OnlyTheKey).                   *)
THEOREM ReadsOnlyTheKey == Spec => []OnlyTheKey
<1>1. HashInv => OnlyTheKey
  <2> SUFFICES ASSUME HashInv PROVE OnlyTheKey
    OBVIOUS
  <2>1. Pieces(term) /\ Within(cur)
    BY OnlyPieces
  <2>2. Units \in Nat
    BY UnitsNat DEF HashInv
  <2>3. ASSUME NEW n \in Nat, NEW a \in Nat, NEW b \in Nat,
               Width * n + b <= Units, NEW e \in Part(n, a, b)
        PROVE  e[2] \in 0..(Units - 1)
    <3>1. e[2] \in (Width * n + a)..(Width * n + b - 1)
      BY PartUnits
    <3> QED BY <2>2, <2>3, <3>1, Widths
  <2>4. ASSUME NEW e \in DOMAIN cur
        PROVE  e[2] \in 0..(Units - 1)
    BY <2>1, <2>3, PieceIsBag DEF Within
  <2>5. ASSUME NEW e \in Added
        PROVE  e[3] \in 0..(Units - 1)
    <3>1. PICK j \in DOMAIN term :
            \E d \in DOMAIN term[j] : e = <<j, d[1], d[2], d[3]>>
      BY DEF Added
    <3>2. PICK d \in DOMAIN term[j] : e = <<j, d[1], d[2], d[3]>>
      BY <3>1
    <3>3. j \in Nat \ {0} /\ Piece(j, term[j])
      BY <2>1, <3>1 DEF Pieces
    <3>4. PICK to \in 0..Width :
            term[j] = SetToBag(Part(j - 1, 0, to)) /\ Width * (j - 1) + to <= Units
      BY <3>3 DEF Piece
    <3>5. d \in Part(j - 1, 0, to)
      BY <3>2, <3>4, PieceIsBag
    <3>6. j - 1 \in Nat /\ 0 \in Nat /\ to \in Nat
      BY <3>3, Widths
    <3>7. d[2] \in 0..(Units - 1)
      BY <2>3, <3>4, <3>5, <3>6
    <3> QED BY <3>2, <3>7
  <2> QED BY <2>4, <2>5 DEF OnlyTheKey
<1> QED BY <1>1, AddsBlockByBlock, PTL

-----------------------------------------------------------------------------
(* The value. *)

(* A call that is done has added every block of the key. *)
LEMMA DoneTerm ==
  ASSUME HashInv, pc = "done", ~LastBlockLost, len > 0
  PROVE  /\ finished = TRUE
         /\ term = [j \in DOMAIN term |-> term[j]]
         /\ \E n \in Nat, r \in 1..Width :
              /\ Width * n + r = Units /\ DOMAIN term = 1..(n + 1)
              /\ \A j \in 1..n : term[j] = SetToBag(Part(j - 1, 0, Width))
              /\ term[n + 1] = SetToBag(Part(n, 0, r))
<1>1. IsDone
  BY DEF HashInv, InLoop, InSwitch, InFinal
<1>2. PICK t, b : Ends(t, b) /\ term = Append(t, b) /\ finished = TRUE
  BY <1>1 DEF IsDone, HashInv, Arguments
<1>3. PICK n \in Nat, r \in 1..Width :
        /\ Width * n + r = Units
        /\ t = Blocks(n) /\ b = SetToBag(Part(n, 0, r))
  BY <1>2 DEF Ends
<1>4. /\ DOMAIN term = 1..(n + 1)
      /\ term = [j \in 1..(n + 1) |-> term[j]]
      /\ \A j \in 1..n : term[j] = Blocks(n)[j]
      /\ term[n + 1] = b
  BY <1>2, <1>3, AppendBlock, AppendFunction
<1>5. \A j \in 1..n : term[j] = SetToBag(Part(j - 1, 0, Width))
  BY <1>4 DEF Blocks
<1> QED BY <1>2, <1>3, <1>4, <1>5

(* Units i of the key that are in block j, as Reference takes them. *)
LEMMA BytesOfBlock ==
  ASSUME Width = 12, Units \in Nat, NEW m \in Nat, NEW to \in 0..12,
         12 * m + to <= Units, to < 12 => 12 * m + to = Units
  PROVE  {<<Spot(i % 12)[1], i, Spot(i % 12)[3]>> :
             i \in {i \in (12 * m)..(12 * m + 11) : i < Units}}
           = Part(m, 0, to)
<1> DEFINE I == {i \in (12 * m)..(12 * m + 11) : i < Units}
           E(i) == <<Spot(i % 12)[1], i, Spot(i % 12)[3]>>
           F(o) == <<Spot(o)[1], Width * m + o, Spot(o)[3]>>
<1>1. ASSUME NEW i \in I
      PROVE  \E o \in 0..(to - 1) : E(i) = F(o)
  <2>1. i \in Int /\ i - 12 * m \in 0..(to - 1) /\ i % 12 = i - 12 * m
    OBVIOUS
  <2>2. E(i) = F(i - 12 * m)
    BY <2>1
  <2> QED BY <2>1, <2>2
<1>2. ASSUME NEW o \in 0..(to - 1)
      PROVE  \E i \in I : F(o) = E(i)
  <2>1. 12 * m + o \in I /\ (12 * m + o) % 12 = o
    OBVIOUS
  <2>2. F(o) = E(12 * m + o)
    BY <2>1
  <2> QED BY <2>1, <2>2
<1>3. Part(m, 0, to) = {F(o) : o \in 0..(to - 1)}
  BY DEF Part
<1> HIDE DEF I, E, F
<1>4. {E(i) : i \in I} = Part(m, 0, to)
  BY <1>1, <1>2, <1>3
<1> QED BY <1>4 DEF I, E

LEMMA BlocksOfTwelve ==
  ASSUME NEW n \in Nat, NEW r \in 1..12
  PROVE  /\ (12 * n + r + 11) \div 12 = n + 1
         /\ 1..((0 + 11) \div 12) = {}
OBVIOUS

(* The word, half word and byte routines add the same bytes to the same    *)
(* bits between the same mixes, so that the value of a key depends neither *)
(* on its address nor, for hash_u32, on the routine being another one      *)
(* (AlignmentIndependent).                                                 *)
THEOREM IndependentOfAlignment == Spec => []AlignmentIndependent
<1>1. HashInv => AlignmentIndependent
  <2> SUFFICES ASSUME HashInv, pc = "done",
                      fn \in {"hash_any", "hash_u32", "hash_pointer", "hash_stable_8"}
               PROVE  /\ term = IF big /\ fn # "hash_stable_8"
                                THEN Reference(Big) ELSE Reference(Little)
                      /\ finished = (len > 0)
    BY DEF AlignmentIndependent
  <2> DEFINE blocks == [j \in 1..((Units + 11) \div 12) |->
               SetToBag({<<Spot(i % 12)[1], i, Spot(i % 12)[3]>> :
                           i \in {i \in (12 * (j - 1))..(12 * j - 1) : i < Units}})]
  <2>1. Width = 12 /\ ~LastBlockLost
    BY DEF Width, LastBlockLost
  <2>2. Units \in Nat /\ len \in Nat
    BY UnitsNat DEF HashInv, Arguments
  <2>3. blocks = IF big /\ fn # "hash_stable_8" THEN Reference(Big)
                                                ELSE Reference(Little)
    <3>1. CASE big /\ fn # "hash_stable_8"
      <4>1. \A o : Spot(o) = Big(o)
        BY <3>1 DEF Spot
      <4> QED BY <3>1, <4>1 DEF Reference
    <3>2. CASE ~(big /\ fn # "hash_stable_8")
      <4>1. \A o : Spot(o) = Little(o)
        BY <3>2 DEF Spot
      <4> QED BY <3>2, <4>1 DEF Reference
    <3> QED BY <3>1, <3>2
  <2>4. CASE len = 0
    <3>1. term = <<>> /\ finished = FALSE
      BY <2>4 DEF HashInv, InLoop, InSwitch, InFinal, IsDone
    <3>2. Units = 0
      BY <2>4, AllGood DEF Units, HashInv, Good
    <3>3. blocks = <<>>
      BY <3>2, BlocksOfTwelve
    <3>4. finished = (len > 0)
      <4>1. (len > 0) = FALSE
        BY <2>4
      <4> QED BY <3>1, <4>1, Zenon
    <3> QED BY <2>3, <3>1, <3>3, <3>4, Zenon
  <2>5. CASE len > 0
    <3>1. PICK n \in Nat, r \in 1..12 :
            /\ 12 * n + r = Units /\ DOMAIN term = 1..(n + 1)
            /\ \A j \in 1..n : term[j] = SetToBag(Part(j - 1, 0, 12))
            /\ term[n + 1] = SetToBag(Part(n, 0, r))
      BY <2>1, <2>5, DoneTerm
    <3>2. (Units + 11) \div 12 = n + 1
      BY <3>1, BlocksOfTwelve
    <3>3. ASSUME NEW j \in 1..(n + 1)
          PROVE  term[j] = blocks[j]
      <4> DEFINE to == IF j = n + 1 THEN r ELSE 12
      <4>1. term[j] = SetToBag(Part(j - 1, 0, to))
        <5>1. j \in 1..n \/ (j = n + 1 /\ j - 1 = n)
          OBVIOUS
        <5> QED BY <3>1, <5>1
      <4>2. /\ j - 1 \in Nat /\ to \in 0..12
            /\ 12 * (j - 1) + to <= Units
            /\ to < 12 => 12 * (j - 1) + to = Units
        <5>1. CASE j = n + 1
          BY <3>1, <5>1
        <5>2. CASE j # n + 1
          <6>1. to = 12 /\ j \in 1..n
            BY <5>2
          <6> QED BY <3>1, <6>1
        <5> QED BY <5>1, <5>2
      <4> HIDE DEF to
      <4>3. {<<Spot(i % 12)[1], i, Spot(i % 12)[3]>> :
               i \in {i \in (12 * (j - 1))..(12 * (j - 1) + 11) : i < Units}}
              = Part(j - 1, 0, to)
        BY <2>1, <2>2, <4>2, BytesOfBlock
      <4>4. 12 * (j - 1) + 11 = 12 * j - 1
        OBVIOUS
      <4>5. blocks[j] = SetToBag(Part(j - 1, 0, to))
        BY <3>2, <4>3, <4>4
      <4> QED BY <4>1, <4>5
    <3>4. term = blocks
      <4>1. term = [j \in 1..(n + 1) |-> term[j]]
        BY <2>1, <2>5, <3>1, DoneTerm
      <4> HIDE DEF blocks
      <4>2. blocks = [j \in 1..(n + 1) |-> blocks[j]]
        BY <3>2 DEF blocks
      <4> QED BY <3>3, <4>1, <4>2
    <3>5. finished = (len > 0)
      <4>1. finished = TRUE
        BY <2>1, <2>5, DoneTerm
      <4>2. (len > 0) = TRUE
        BY <2>5
      <4> QED BY <4>1, <4>2, Zenon
    <3> QED BY <2>3, <3>4, <3>5, Zenon
  <2> QED BY <2>2, <2>4, <2>5
<1> QED BY <1>1, AddsBlockByBlock, PTL

-----------------------------------------------------------------------------
(* The key in the value. *)

LEMMA SpotInjective ==
  ASSUME NEW o \in 0..(Width - 1), NEW p \in 0..(Width - 1),
         Spot(o)[1] = Spot(p)[1], Spot(o)[3] = Spot(p)[3]
  PROVE  o = p
<1>1. CASE fn = "hash_stable_16"
  <2>1. Width = 6 /\ Spot(o) = Short(o) /\ Spot(p) = Short(p)
    BY <1>1 DEF Width, Spot
  <2> QED BY <2>1 DEF Short
<1>2. CASE fn \in {"hash_stable_32", "hash_stable_64"}
  <2>1. Width = 3 /\ Spot(o) = Half(o) /\ Spot(p) = Half(p)
    BY <1>2 DEF Width, Spot
  <2> QED BY <2>1 DEF Half
<1>3. CASE fn \notin {"hash_stable_16", "hash_stable_32", "hash_stable_64"}
  <2>1. Width = 12
    BY <1>3 DEF Width
  <2>2. CASE Spot(o) = Big(o) /\ Spot(p) = Big(p)
    BY <2>1, <2>2 DEF Big
  <2>3. CASE Spot(o) = Little(o) /\ Spot(p) = Little(p)
    BY <2>1, <2>3 DEF Little
  <2> QED BY <1>3, <2>2, <2>3 DEF Spot
<1> QED BY <1>1, <1>2, <1>3

LEMMA UnitOfBlock ==
  ASSUME NEW m \in Nat, NEW o \in 0..(Width - 1)
  PROVE  (Width * m + o) \div Width = m /\ (Width * m + o) % Width = o
<1>1. CASE Width = 3
  <2>1. (3 * m + o) \div 3 = m /\ (3 * m + o) % 3 = o
    BY <1>1
  <2> QED BY <1>1, <2>1
<1>2. CASE Width = 6
  <2>1. (6 * m + o) \div 6 = m /\ (6 * m + o) % 6 = o
    BY <1>2
  <2> QED BY <1>2, <2>1
<1>3. CASE Width = 12
  <2>1. (12 * m + o) \div 12 = m /\ (12 * m + o) % 12 = o
    BY <1>3
  <2> QED BY <1>3, <2>1
<1> QED BY <1>1, <1>2, <1>3, Widths

LEMMA BlockOfUnit ==
  ASSUME NEW i \in Nat
  PROVE  /\ i \div Width \in Nat /\ i % Width \in 0..(Width - 1)
         /\ i = Width * (i \div Width) + (i % Width)
<1>1. CASE Width = 3
  <2>1. /\ i \div 3 \in Nat /\ i % 3 \in 0..(3 - 1)
        /\ i = 3 * (i \div 3) + (i % 3)
    OBVIOUS
  <2> QED BY <1>1, <2>1
<1>2. CASE Width = 6
  <2>1. /\ i \div 6 \in Nat /\ i % 6 \in 0..(6 - 1)
        /\ i = 6 * (i \div 6) + (i % 6)
    OBVIOUS
  <2> QED BY <1>2, <2>1
<1>3. CASE Width = 12
  <2>1. /\ i \div 12 \in Nat /\ i % 12 \in 0..(12 - 1)
        /\ i = 12 * (i \div 12) + (i % 12)
    OBVIOUS
  <2> QED BY <1>3, <2>1
<1> QED BY <1>1, <1>2, <1>3, Widths

LEMMA Counting ==
  ASSUME NEW n \in Nat, NEW S, NEW F \in [0..(n - 1) -> S],
         \A x \in S : \E i \in 0..(n - 1) : x = F[i],
         \A i, j \in 0..(n - 1) : F[i] = F[j] => i = j
  PROVE  Cardinality(S) = n
<1>1. IsFiniteSet(0..(n - 1)) /\ Cardinality(0..(n - 1)) = n
  <2>1. /\ IsFiniteSet(0..(n - 1))
        /\ Cardinality(0..(n - 1)) = IF 0 > n - 1 THEN 0 ELSE (n - 1) - 0 + 1
    BY FS_Interval
  <2> QED BY <2>1
<1>2. F \in Bijection(0..(n - 1), S)
  BY DEF Bijection, Injection, Surjection, IsInjective
<1>3. ExistsBijection(0..(n - 1), S)
  BY <1>2 DEF ExistsBijection
<1> QED BY <1>1, <1>3, FS_Bijection

(* Where unit i of the key is in the term. *)
PlaceOf(i) ==
  <<i \div Width + 1, Spot(i % Width)[1], i, Spot(i % Width)[3]>>

LEMMA PlacesDiffer ==
  ASSUME NEW i \in Nat, NEW j \in Nat,
         PlaceOf(i)[1] = PlaceOf(j)[1], PlaceOf(i)[2] = PlaceOf(j)[2],
         PlaceOf(i)[4] = PlaceOf(j)[4]
  PROVE  i = j
<1>1. /\ i \div Width \in Nat /\ i % Width \in 0..(Width - 1)
      /\ i = Width * (i \div Width) + (i % Width)
      /\ j \div Width \in Nat /\ j % Width \in 0..(Width - 1)
      /\ j = Width * (j \div Width) + (j % Width)
  BY BlockOfUnit
<1>2. i \div Width + 1 = j \div Width + 1
  BY DEF PlaceOf
<1>3. i % Width = j % Width
  <2>1. /\ Spot(i % Width)[1] = Spot(j % Width)[1]
        /\ Spot(i % Width)[3] = Spot(j % Width)[3]
    BY DEF PlaceOf
  <2> QED BY <1>1, <2>1, SpotInjective
<1>4. i \div Width = j \div Width
  BY <1>1, <1>2
<1> QED BY <1>1, <1>3, <1>4

LEMMA AddedIs ==
  ASSUME HashInv, pc = "done", ~LastBlockLost
  PROVE  /\ Added = {PlaceOf(i) : i \in 0..(Units - 1)}
         /\ \A j \in DOMAIN term : \E S : term[j] = SetToBag(S)
<1>1. Units \in Nat /\ len \in Nat
  BY UnitsNat DEF HashInv, Arguments
<1>2. CASE len = 0
  <2>1. term = <<>>
    BY <1>2 DEF HashInv, InLoop, InSwitch, InFinal, IsDone
  <2>2. Units = 0
    BY <1>2, AllGood DEF Units, HashInv, Good
  <2>3. DOMAIN term = {} /\ 0..(Units - 1) = {}
    BY <2>1, <2>2
  <2> QED BY <2>3 DEF Added
<1>3. CASE len > 0
  <2>1. PICK n \in Nat, r \in 1..Width :
          /\ Width * n + r = Units /\ DOMAIN term = 1..(n + 1)
          /\ \A j \in 1..n : term[j] = SetToBag(Part(j - 1, 0, Width))
          /\ term[n + 1] = SetToBag(Part(n, 0, r))
    BY <1>3, DoneTerm
  <2> DEFINE To(j) == IF j = n + 1 THEN r ELSE Width
  <2>2. ASSUME NEW j \in 1..(n + 1)
        PROVE  term[j] = SetToBag(Part(j - 1, 0, To(j)))
    <3>1. CASE j = n + 1
      <4>1. j - 1 = n
        BY <3>1
      <4> QED BY <2>1, <3>1, <4>1
    <3>2. CASE j # n + 1
      <4>1. j \in 1..n
        BY <3>2
      <4> QED BY <2>1, <3>2, <4>1
    <3> QED BY <3>1, <3>2
  <2>3. ASSUME NEW x \in Added
        PROVE  \E i \in 0..(Units - 1) : x = PlaceOf(i)
    <3>1. PICK j \in DOMAIN term :
            \E d \in DOMAIN term[j] : x = <<j, d[1], d[2], d[3]>>
      BY DEF Added
    <3>2. PICK d \in DOMAIN term[j] : x = <<j, d[1], d[2], d[3]>>
      BY <3>1
    <3>3. j \in 1..(n + 1) /\ d \in Part(j - 1, 0, To(j))
      BY <2>1, <2>2, <3>1, <3>2, PieceIsBag
    <3>4. PICK o \in 0..(To(j) - 1) :
            d = <<Spot(o)[1], Width * (j - 1) + o, Spot(o)[3]>>
      BY <3>3 DEF Part
    <3> DEFINE i == Width * (j - 1) + o
    <3>5. o \in 0..(Width - 1) /\ j - 1 \in Nat
      BY <3>3, <3>4, Widths
    <3>6. i \in 0..(Units - 1)
      <4>1. CASE j = n + 1
        <5>1. j - 1 = n /\ To(j) = r
          BY <4>1
        <5>2. o \in 0..(r - 1)
          BY <3>4, <5>1
        <5>3. i = Width * n + o
          BY <5>1
        <5> DEFINE B == Width * n
        <5>4. B \in Nat /\ B + r = Units
          BY <2>1, Widths
        <5> HIDE DEF B
        <5>5. B + o \in 0..(Units - 1)
          BY <5>2, <5>4
        <5> QED BY <5>3, <5>5 DEF B
      <4>2. CASE j # n + 1
        <5>1. j \in 1..n
          BY <3>3, <4>2
        <5>2. /\ Width * (j - 1) + Width <= Width * n
              /\ Width * (j - 1) \in Nat /\ Width * n \in Nat
          BY <5>1, Widths
        <5> DEFINE A == Width * (j - 1)
                   B == Width * n
        <5>3. /\ A + Width <= B /\ A \in Nat /\ B \in Nat /\ B + r = Units
              /\ Width \in Nat /\ o \in 0..(Width - 1) /\ r \in Nat
          BY <2>1, <3>5, <5>2, Widths
        <5> HIDE DEF A, B
        <5>4. A + o \in 0..(Units - 1)
          BY <5>3
        <5> QED BY <5>4 DEF A
      <4> QED BY <4>1, <4>2
    <3>7. i \div Width = j - 1 /\ i % Width = o
      BY <3>5, UnitOfBlock
    <3>8. (j - 1) + 1 = j
      BY <3>3
    <3>9. x = PlaceOf(i)
      <4>1. x = <<j, Spot(o)[1], i, Spot(o)[3]>>
        BY <3>2, <3>4
      <4> HIDE DEF i
      <4> QED BY <3>7, <3>8, <4>1 DEF PlaceOf
    <3> QED BY <3>6, <3>9
  <2>4. ASSUME NEW i \in 0..(Units - 1)
        PROVE  PlaceOf(i) \in Added
    <3> DEFINE j == i \div Width + 1
               o == i % Width
               d == <<Spot(o)[1], i, Spot(o)[3]>>
    <3>1. /\ i \div Width \in Nat /\ o \in 0..(Width - 1)
          /\ i = Width * (i \div Width) + o
      BY <1>1, BlockOfUnit
    <3>2. j - 1 = i \div Width /\ j \in Nat \ {0}
      BY <3>1
    <3>3. j \in 1..(n + 1) /\ o \in 0..(To(j) - 1)
      <4>1. CASE i < Width * n
        <5>1. i \div Width < n
          BY <3>1, <4>1, Widths
        <5>2. j \in 1..n /\ j # n + 1
          BY <3>1, <5>1
        <5> QED BY <3>1, <5>2
      <4>2. CASE ~(i < Width * n)
        <5>1. i \div Width = n
          BY <1>1, <2>1, <3>1, <4>2, Widths
        <5>2. j = n + 1 /\ o = i - Width * n
          BY <3>1, <5>1, Widths
        <5> QED BY <1>1, <2>1, <3>1, <5>2, Widths
      <4> QED BY <4>1, <4>2
    <3>4. d \in Part(j - 1, 0, To(j))
      <4>1. d = <<Spot(o)[1], Width * (j - 1) + o, Spot(o)[3]>>
        BY <3>1, <3>2
      <4> HIDE DEF d, j, o, To
      <4> QED BY <3>3, <4>1 DEF Part
    <3>5. j \in DOMAIN term /\ d \in DOMAIN term[j]
      BY <2>1, <2>2, <3>3, <3>4, PieceIsBag
    <3>6. PlaceOf(i) = <<j, d[1], d[2], d[3]>>
      BY DEF PlaceOf
    <3> QED BY <3>5, <3>6 DEF Added
  <2> QED BY <2>1, <2>2, <2>3, <2>4
<1> QED BY <1>1, <1>2, <1>3

(* Unless the last block is one that the switch has no case for, every     *)
(* unit of the key is added once and where no other one is between the     *)
(* same mixes: the key can be read off the term (KeyInTerm).               *)
THEOREM KeepsTheKey == Spec => []KeyInTerm
<1>1. HashInv => KeyInTerm
  <2> SUFFICES ASSUME HashInv, pc = "done", ~LastBlockLost
               PROVE  /\ {e[3] : e \in Added} = 0..(Units - 1)
                      /\ \A j \in DOMAIN term : Range(term[j]) \subseteq {1}
                      /\ Cardinality({<<e[1], e[2], e[4]>> : e \in Added}) = Units
                      /\ Cardinality(Added) = Units
    BY DEF KeyInTerm
  <2> DEFINE N == 0..(Units - 1)
             L == {<<e[1], e[2], e[4]>> : e \in Added}
             Lane(i) == <<PlaceOf(i)[1], PlaceOf(i)[2], PlaceOf(i)[4]>>
             F == [i \in N |-> PlaceOf(i)]
             G == [i \in N |-> Lane(i)]
  <2>1. Units \in Nat
    BY UnitsNat DEF HashInv
  <2>2. Added = {PlaceOf(i) : i \in N}
    BY AddedIs
  <2>3. {e[3] : e \in Added} = N
    <3>1. \A i \in N : PlaceOf(i)[3] = i
      BY DEF PlaceOf
    <3> HIDE DEF N
    <3> QED BY <2>2, <3>1
  <2>4. ASSUME NEW j \in DOMAIN term
        PROVE  Range(term[j]) \subseteq {1}
    <3>1. PICK S : term[j] = SetToBag(S)
      BY AddedIs
    <3> QED BY <3>1 DEF Range, SetToBag
  <2>5. N \subseteq Nat
    BY <2>1
  <2>6. L = {Lane(i) : i \in N}
    BY <2>2
  <2>7. \A i, j \in N : Lane(i) = Lane(j) => i = j
    <3> SUFFICES ASSUME NEW i \in N, NEW j \in N, Lane(i) = Lane(j)
                 PROVE  i = j
      OBVIOUS
    <3>1. /\ PlaceOf(i)[1] = PlaceOf(j)[1] /\ PlaceOf(i)[2] = PlaceOf(j)[2]
          /\ PlaceOf(i)[4] = PlaceOf(j)[4]
      OBVIOUS
    <3> QED BY <2>5, <3>1, PlacesDiffer
  <2>8. \A i, j \in N : PlaceOf(i) = PlaceOf(j) => i = j
    BY <2>7
  <2> HIDE DEF Lane, L
  <2>9. Cardinality(L) = Units
    <3>1. G \in [N -> L] /\ \A x \in L : \E i \in N : x = G[i]
      BY <2>6
    <3>2. \A i, j \in N : G[i] = G[j] => i = j
      BY <2>7
    <3> HIDE DEF G
    <3> QED BY <2>1, <3>1, <3>2, Counting
  <2>10. Cardinality(Added) = Units
    <3>1. F \in [N -> Added] /\ \A x \in Added : \E i \in N : x = F[i]
      BY <2>2
    <3>2. \A i, j \in N : F[i] = F[j] => i = j
      BY <2>8
    <3> HIDE DEF F
    <3> QED BY <2>1, <3>1, <3>2, Counting
  <2> QED BY <2>3, <2>4, <2>9, <2>10 DEF L
<1> QED BY <1>1, AddsBlockByBlock, PTL
=============================================================================
