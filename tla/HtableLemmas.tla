---------------------------- MODULE HtableLemmas ----------------------------
(***************************************************************************)
(* What the theorems of HtableProofs need and no table is needed for:      *)
(* least elements and powers of two, the value of a word, distances round  *)
(* a table, and the loops of double_table and rehash_table, which pass     *)
(* through one table for each bucket.                                      *)
(***************************************************************************)
EXTENDS Htable, FiniteSetTheorems, TLAPS

-----------------------------------------------------------------------------
(* Natural numbers: least elements, induction over a set, powers of two.   *)

LEMMA LeastOf ==
  ASSUME NEW S, S \subseteq Nat, S # {}
  PROVE  Min(S) \in S /\ \A x \in S : Min(S) <= x
<1> DEFINE HasMin(t) == \E x \in t : \A y \in t : x <= y
<1>1. PICK n \in S : TRUE
  OBVIOUS
<1> DEFINE D == 0..n
           bad == {t \in SUBSET D : t # {} /\ ~HasMin(t)}
<1>2. bad = {}
  <2> SUFFICES ASSUME bad # {} PROVE FALSE
    OBVIOUS
  <2>1. IsFiniteSet(D)
    BY <1>1, FS_Interval
  <2> HIDE DEF D
  <2>2. IsWellFoundedOn(StrictSubsetOrdering(D), SUBSET D)
    BY <2>1, FS_StrictSubsetOrderingWellFounded, FS_FiniteSubsetsOfFinite
  <2>3. PICK t \in bad : \A u \in bad : <<u, t>> \notin StrictSubsetOrdering(D)
    <3>1. bad \subseteq SUBSET D
      OBVIOUS
    <3> HIDE DEF bad
    <3> QED BY <2>2, <3>1, WFMin
  <2>4. PICK x \in t : TRUE
    OBVIOUS
  <2>5. \A y \in t : y \in Nat
    BY <1>1 DEF D
  <2>6. CASE t \ {x} = {}
    BY <2>4, <2>5, <2>6
  <2>7. CASE t \ {x} # {}
    <3>1. t \ {x} \notin bad
      BY <2>3, <2>4 DEF StrictSubsetOrdering
    <3>2. PICK m \in t \ {x} : \A y \in t \ {x} : m <= y
      BY <2>7, <3>1
    <3>3. x \in Nat /\ m \in Nat
      BY <2>4, <2>5, <3>2
    <3>4. CASE m <= x
      BY <3>2, <3>4
    <3>5. CASE x < m
      <4>1. ASSUME NEW y \in t PROVE x <= y
        BY <2>5, <3>2, <3>3, <3>5
      <4> QED BY <2>4, <4>1
    <3> QED BY <3>3, <3>4, <3>5
  <2> QED BY <2>6, <2>7
<1>3. PICK x \in {y \in S : y <= n} : \A y \in {z \in S : z <= n} : x <= y
  <2> DEFINE t == {y \in S : y <= n}
  <2>1. t \in SUBSET D /\ n \in t
    <3>1. n \in Nat /\ n <= n
      BY <1>1
    <3>2. \A y \in t : y \in 0..n
      BY <3>1
    <3> QED BY <1>1, <3>1, <3>2
  <2>2. HasMin(t)
    <3> HIDE DEF t, D
    <3> QED BY <1>2, <2>1
  <2> QED BY <2>2
<1>4. \A y \in S : x <= y
  BY <1>1, <1>3
<1> QED BY <1>3, <1>4 DEF Min

LEMMA Upto ==
  ASSUME NEW S, NEW n \in Nat, 0 \in S,
         \A i \in 0..(n - 1) : i \in S => i + 1 \in S
  PROVE  \A i \in 0..n : i \in S
<1> DEFINE bad == {i \in 0..n : i \notin S}
<1> SUFFICES ASSUME bad # {} PROVE FALSE
  OBVIOUS
<1>1. bad \subseteq Nat
  OBVIOUS
<1> DEFINE m == Min(bad)
<1>2. m \in bad /\ \A x \in bad : m <= x
  <2> HIDE DEF bad
  <2> QED BY <1>1, LeastOf
<1> HIDE DEF m
<1>3. m # 0 /\ m - 1 \in 0..(n - 1) /\ m - 1 \notin bad
  BY <1>2
<1> QED BY <1>2, <1>3

LEMMA Powers ==
  ASSUME NEW n \in Nat
  PROVE  2 ^ n \in Nat \ {0} /\ 2 ^ (n + 1) = 2 * 2 ^ n /\ 2 ^ 0 = 1
<1> DEFINE P(k) == SUBSET (1..k)
<1>1. ASSUME NEW k \in Nat
      PROVE  IsFiniteSet(P(k)) /\ Cardinality(P(k)) = 2 ^ k /\ 2 ^ k \in Nat
  <2>1. IsFiniteSet(1..k) /\ Cardinality(1..k) = k
    BY FS_Interval
  <2>2. IsFiniteSet(P(k)) /\ Cardinality(P(k)) = 2 ^ k
    BY <2>1, FS_SUBSET
  <2> QED BY <2>2, FS_CardinalityType
<1>2. 2 ^ 0 = 1
  <2>1. P(0) = {{}}
    OBVIOUS
  <2>2. Cardinality(P(0)) = 1
    <3> HIDE DEF P
    <3> QED BY <2>1, FS_Singleton
  <2> QED BY <1>1, <2>2
<1>3. 2 ^ n # 0
  <2>1. {} \in P(n)
    OBVIOUS
  <2> HIDE DEF P
  <2> QED BY <1>1, <2>1, FS_EmptySet
<1>4. 2 ^ (n + 1) = 2 * 2 ^ n
  <2> DEFINE Q == {s \in P(n + 1) : n + 1 \in s}
             f == [s \in P(n) |-> s \cup {n + 1}]
  <2>1. f \in Bijection(P(n), Q)
    <3>1. f \in [P(n) -> Q]
      OBVIOUS
    <3>2. \A s, t \in P(n) : f[s] = f[t] => s = t
      <4> SUFFICES ASSUME NEW s \in P(n), NEW t \in P(n),
                          s \cup {n + 1} = t \cup {n + 1}
                   PROVE  s = t
        OBVIOUS
      <4>1. n + 1 \notin s /\ n + 1 \notin t
        OBVIOUS
      <4> QED BY <4>1
    <3>3. ASSUME NEW q \in Q PROVE \E s \in P(n) : f[s] = q
      <4>1. q \ {n + 1} \in P(n) /\ f[q \ {n + 1}] = q
        OBVIOUS
      <4> QED BY <4>1
    <3> HIDE DEF f, P, Q
    <3> QED BY <3>1, <3>2, <3>3 DEF Bijection, Injection, Surjection, IsInjective
  <2>2. P(n + 1) = P(n) \cup Q /\ P(n) \cap Q = {}
    <3>1. \A s \in P(n + 1) : n + 1 \notin s => s \in P(n)
      OBVIOUS
    <3>2. \A s \in P(n) : n + 1 \notin s /\ s \in P(n + 1)
      OBVIOUS
    <3> HIDE DEF P
    <3> QED BY <3>1, <3>2
  <2> HIDE DEF P, Q, f
  <2>3. IsFiniteSet(Q) /\ Cardinality(Q) = 2 ^ n
    BY <1>1, <2>1, FS_Bijection DEF ExistsBijection
  <2>4. Cardinality(P(n) \cup Q)
          = Cardinality(P(n)) + Cardinality(Q) - Cardinality(P(n) \cap Q)
    BY <1>1, <2>3, FS_Union
  <2>5. Cardinality(P(n) \cap Q) = 0
    BY <2>2, FS_EmptySet
  <2>6. Cardinality(P(n + 1)) = 2 ^ (n + 1) /\ Cardinality(P(n)) = 2 ^ n
        /\ 2 ^ n \in Nat
    BY <1>1
  <2> QED BY <2>2, <2>3, <2>4, <2>5, <2>6
<1> QED BY <1>1, <1>2, <1>3, <1>4

-----------------------------------------------------------------------------
(* The value of a word: no two words of bits below b have a sum of 2 ^ b   *)
(* or more. *)

(* The equation FoldSet solves for the sum of the set S. *)
SumsUp(g, S) ==
  g = [t \in SUBSET S |->
        IF t = {} THEN 0
        ELSE (CHOOSE x \in t : TRUE) + g[t \ {CHOOSE x \in t : TRUE}]]

LEMMA SumSetSolves ==
  ASSUME NEW S
  PROVE  SumSet(S) = (CHOOSE g : SumsUp(g, S))[S]
BY DEF SumSet, SumsUp, FoldSet, MapThenFoldSet

(* The sum of the sizes of disjoint sets is the size of their union.       *)
LEMMA SumIsSize ==
  ASSUME NEW S, IsFiniteSet(S), NEW B,
         \A x \in S : IsFiniteSet(B[x]) /\ Cardinality(B[x]) = x,
         \A x, y \in S : x # y => B[x] \cap B[y] = {}
  PROVE  SumSet(S) = Cardinality(UNION {B[x] : x \in S})
<1> DEFINE U(t) == UNION {B[x] : x \in t}
           h == [t \in SUBSET S |-> Cardinality(U(t))]
           pick(t) == CHOOSE x \in t : TRUE
<1>1. ASSUME NEW t \in SUBSET S, t # {}
      PROVE  h[t] = pick(t) + h[t \ {pick(t)}]
  <2>1. pick(t) \in t
    BY <1>1
  <2> HIDE DEF pick
  <2> DEFINE x == pick(t)
             V == U(t \ {x})
  <2>2. U(t) = B[x] \cup V /\ B[x] \cap V = {}
    BY <2>1
  <2>3. IsFiniteSet(B[x]) /\ IsFiniteSet(V)
    <3> DEFINE T == {B[y] : y \in t \ {x}}
               f == [y \in t \ {x} |-> B[y]]
    <3>1. IsFiniteSet(t \ {x}) /\ \A y \in t \ {x} : IsFiniteSet(B[y])
      BY FS_Subset
    <3>2. f \in Surjection(t \ {x}, T)
      BY DEF Surjection
    <3>3. IsFiniteSet(T)
      <4> HIDE DEF f, T, x
      <4> QED BY <3>1, <3>2, FS_Surjection
    <3>4. \A y \in T : IsFiniteSet(y)
      BY <3>1
    <3>5. IsFiniteSet(UNION T)
      <4> HIDE DEF T
      <4> QED BY <3>3, <3>4, FS_UNION
    <3> QED BY <2>1, <3>5
  <2>4. Cardinality(B[x]) = x /\ t \ {x} \in SUBSET S
    BY <2>1
  <2> HIDE DEF x, V
  <2>5. /\ Cardinality(B[x]) \in Nat /\ Cardinality(V) \in Nat
        /\ Cardinality({}) = 0
    BY <2>3, FS_CardinalityType, FS_EmptySet
  <2>6. Cardinality(B[x] \cup V) =
          Cardinality(B[x]) + Cardinality(V) - Cardinality(B[x] \cap V)
    BY <2>3, FS_Union
  <2>7. Cardinality(U(t)) = x + Cardinality(V)
    <3> HIDE DEF U, h
    <3>1. Cardinality(U(t)) = Cardinality(B[x]) + Cardinality(V) - Cardinality({})
      BY <2>2, <2>6
    <3> QED BY <2>4, <2>5, <3>1
  <2> QED BY <2>4, <2>7 DEF V, x
<1>2. h[{}] = 0
  BY FS_EmptySet
<1>3. SumsUp(h, S)
  <2> HIDE DEF U
  <2>1. h = [t \in SUBSET S |-> h[t]]
    OBVIOUS
  <2> HIDE DEF h
  <2> QED BY <1>1, <1>2, <2>1 DEF SumsUp
<1> DEFINE g == CHOOSE f : SumsUp(f, S)
<1>4. SumsUp(g, S)
  BY <1>3
<1> HIDE DEF g
<1>5. g = h
  <2>1. ASSUME NEW t \in SUBSET S,
               \A u \in SUBSET S : u \subseteq t /\ u # t => g[u] = h[u]
        PROVE  g[t] = h[t]
    <3>1. CASE t = {}
      BY <1>2, <1>4, <3>1 DEF SumsUp
    <3>2. CASE t # {}
      <4>1. pick(t) \in t
        BY <3>2
      <4>2. g[t] = pick(t) + g[t \ {pick(t)}]
        BY <1>4, <3>2 DEF SumsUp
      <4>3. g[t \ {pick(t)}] = h[t \ {pick(t)}]
        <5> HIDE DEF h, pick
        <5> QED BY <2>1, <4>1
      <4> HIDE DEF h, pick
      <4> QED BY <1>1, <3>2, <4>2, <4>3
    <3> QED BY <3>1, <3>2
  <2> HIDE DEF h
  <2> DEFINE bad == {t \in SUBSET S : g[t] # h[t]}
  <2>2. bad = {}
    <3> SUFFICES ASSUME bad # {} PROVE FALSE
      OBVIOUS
    <3>1. IsWellFoundedOn(StrictSubsetOrdering(S), SUBSET S)
      BY FS_StrictSubsetOrderingWellFounded, FS_FiniteSubsetsOfFinite
    <3>2. PICK t \in bad : \A u \in bad : <<u, t>> \notin StrictSubsetOrdering(S)
      <4>1. bad \subseteq SUBSET S
        OBVIOUS
      <4> HIDE DEF bad
      <4> QED BY <3>1, <4>1, WFMin
    <3>3. \A u \in SUBSET S : u \subseteq t /\ u # t => g[u] = h[u]
      BY <3>2 DEF StrictSubsetOrdering
    <3> QED BY <2>1, <3>3
  <2>3. DOMAIN g = SUBSET S /\ DOMAIN h = SUBSET S
        /\ g = [t \in DOMAIN g |-> g[t]] /\ h = [t \in DOMAIN h |-> h[t]]
    BY <1>3, <1>4 DEF SumsUp
  <2> QED BY <2>2, <2>3
<1> QED BY <1>5, SumSetSolves DEF g

(* The sets of naturals whose largest element is i: there are 2 ^ i.       *)
Topped(i) == {v \cup {i} : v \in SUBSET (0..(i - 1))}

LEMMA ToppedSize ==
  ASSUME NEW i \in Nat
  PROVE  IsFiniteSet(Topped(i)) /\ Cardinality(Topped(i)) = 2 ^ i
<1> DEFINE P == SUBSET (0..(i - 1))
           f == [v \in P |-> v \cup {i}]
<1>1. IsFiniteSet(P) /\ Cardinality(P) = 2 ^ i
  <2>1. IsFiniteSet(0..(i - 1)) /\ Cardinality(0..(i - 1)) = i
    BY FS_Interval
  <2> QED BY <2>1, FS_SUBSET
<1>2. f \in Bijection(P, Topped(i))
  <2>1. f \in [P -> Topped(i)]
    BY DEF Topped
  <2>2. \A s, t \in P : f[s] = f[t] => s = t
    <3> SUFFICES ASSUME NEW s \in P, NEW t \in P, s \cup {i} = t \cup {i}
                 PROVE  s = t
      OBVIOUS
    <3>1. i \notin s /\ i \notin t
      OBVIOUS
    <3> QED BY <3>1
  <2>3. \A q \in Topped(i) : \E s \in P : f[s] = q
    BY DEF Topped
  <2> HIDE DEF f, P
  <2> QED BY <2>1, <2>2, <2>3 DEF Bijection, Injection, Surjection, IsInjective
<1> HIDE DEF f, P
<1> QED BY <1>1, <1>2, FS_Bijection DEF ExistsBijection

LEMMA SumOfPowers ==
  ASSUME NEW b \in Nat, NEW w \in SUBSET (0..(b - 1))
  PROVE  SumSet({2 ^ i : i \in w}) \in 0..(2 ^ b - 1)
<1> DEFINE S == {2 ^ i : i \in w}
           i(x) == CHOOSE k \in w : 2 ^ k = x
           B == [x \in S |-> Topped(i(x))]
           W == UNION {B[x] : x \in S}
           P == SUBSET (0..(b - 1))
<1>1. IsFiniteSet(S)
  <2>1. IsFiniteSet(w)
    <3>1. IsFiniteSet(0..(b - 1))
      BY FS_Interval
    <3> QED BY <3>1, FS_Subset
  <2> DEFINE f == [k \in w |-> 2 ^ k]
  <2>2. f \in Surjection(w, S)
    BY DEF Surjection
  <2> HIDE DEF f, S
  <2> QED BY <2>1, <2>2, FS_Surjection
<1>2. \A x \in S : i(x) \in w /\ 2 ^ i(x) = x
  OBVIOUS
<1>3. \A k \in w : k \in Nat /\ k < b
  OBVIOUS
<1> HIDE DEF i, S
<1>4. \A x \in S : IsFiniteSet(B[x]) /\ Cardinality(B[x]) = x
  BY <1>2, <1>3, ToppedSize
<1>5. ASSUME NEW x \in S, NEW y \in S, x # y PROVE B[x] \cap B[y] = {}
  <2>1. i(x) \in Nat /\ i(y) \in Nat /\ i(x) # i(y)
    BY <1>2, <1>3, <1>5
  <2>2. ASSUME NEW j \in Nat, NEW k \in Nat, j < k
        PROVE  Topped(j) \cap Topped(k) = {}
    <3>1. \A v \in Topped(j) : k \notin v
      BY <2>2 DEF Topped
    <3>2. \A v \in Topped(k) : k \in v
      BY DEF Topped
    <3> QED BY <3>1, <3>2
  <2>3. i(x) < i(y) \/ i(y) < i(x)
    BY <2>1
  <2>4. Topped(i(x)) \cap Topped(i(y)) = {}
    BY <2>1, <2>2, <2>3
  <2> QED BY <2>4
<1>6. SumSet(S) = Cardinality(W)
  <2> HIDE DEF B
  <2> QED BY <1>1, <1>4, <1>5, SumIsSize
<1>7. W \subseteq P \ {{}}
  <2>1. ASSUME NEW x \in S, NEW v \in B[x] PROVE v \in P /\ v # {}
    <3>1. v \in Topped(i(x)) /\ i(x) \in Nat /\ i(x) < b
      BY <1>2, <1>3, <2>1
    <3>2. PICK u \in SUBSET (0..(i(x) - 1)) : v = u \cup {i(x)}
      BY <3>1 DEF Topped
    <3>3. \A y \in v : y \in 0..(b - 1)
      BY <3>1, <3>2
    <3> QED BY <3>2, <3>3
  <2> HIDE DEF B
  <2> QED BY <2>1
<1>8. IsFiniteSet(P) /\ Cardinality(P) = 2 ^ b
  <2>1. IsFiniteSet(0..(b - 1)) /\ Cardinality(0..(b - 1)) = b
    BY FS_Interval
  <2> QED BY <2>1, FS_SUBSET
<1>9. {} \in P
  OBVIOUS
<1> HIDE DEF P, W
<1>10. IsFiniteSet(P \ {{}}) /\ Cardinality(P \ {{}}) = 2 ^ b - 1
  BY <1>8, <1>9, FS_RemoveElement
<1>11. Cardinality(W) \in Nat /\ Cardinality(W) <= 2 ^ b - 1
  BY <1>7, <1>10, FS_Subset, FS_CardinalityType
<1>12. 2 ^ b \in Nat
  BY Powers
<1> QED BY <1>6, <1>11, <1>12 DEF S

LEMMA BucketRange ==
  ASSUME NEW t, t.bits \in Nat, NEW h \in Word
  PROVE  Size(t) \in Nat \ {0} /\ hash_bucket(t, h) \in 0..(Size(t) - 1)
<1> DEFINE w == h \cap 0..(t.bits - 1)
<1>1. Size(t) \in Nat \ {0}
  BY Powers DEF Size
<1>2. w \in Word /\ w \in SUBSET (0..(t.bits - 1))
  BY DEF Word
<1>3. hash_bucket(t, h) = SumSet({2 ^ i : i \in w})
  BY <1>2 DEF hash_bucket, Value
<1> QED BY <1>1, <1>2, <1>3, SumOfPowers DEF Size

-----------------------------------------------------------------------------
(* Distances round the table, without division. *)

(* From bucket b on to bucket a. *)
Gap(n, a, b) == IF a >= b THEN a - b ELSE a - b + n

(* The bucket k further than b. *)
Further(n, b, k) == IF b + k < n THEN b + k ELSE b + k - n

LEMMA RoundTable ==
  ASSUME NEW n \in Nat \ {0}, NEW a \in 0..(n - 1), NEW b \in 0..(n - 1)
  PROVE  /\ (a - b) % n = Gap(n, a, b) /\ (a + b) % n = Further(n, b, a)
         /\ (b + a) % n = Further(n, b, a)
<1>1. ASSUME NEW x \in 0..(n - 1)
      PROVE  x % n = x /\ (x + n) % n = x /\ (x - n) % n = x
  <2>1. x % n = x
    OBVIOUS
  <2>2. (x + n) % n = x
    OBVIOUS
  <2>3. (x - n) % n = x
    OBVIOUS
  <2> QED BY <2>1, <2>2, <2>3
<1> QED BY <1>1 DEF Gap, Further

-----------------------------------------------------------------------------
(* The loops: what FoldLeft computes is reached one bucket at a time.      *)

LEMMA GreatestOf ==
  ASSUME NEW n \in Nat, NEW s \in SUBSET (1..n), s # {}
  PROVE  Max(s) \in s /\ \A x \in s : Max(s) >= x
<1> DEFINE T == {n - x : x \in s}
<1>1. T \subseteq Nat /\ T # {}
  <2>1. \A x \in s : x \in Nat /\ n - x \in Nat
    OBVIOUS
  <2> QED BY <2>1
<1>2. Min(T) \in T /\ \A y \in T : Min(T) <= y
  <2> HIDE DEF T
  <2> QED BY <1>1, LeastOf
<1>3. PICK m \in s : Min(T) = n - m
  BY <1>2
<1>4. ASSUME NEW x \in s PROVE m >= x
  <2>1. n - x \in T /\ x \in Nat /\ m \in Nat
    OBVIOUS
  <2>2. n - m <= n - x
    <3> HIDE DEF T
    <3> QED BY <1>2, <1>3, <2>1
  <2> QED BY <2>1, <2>2
<1> QED BY <1>4 DEF Max

(* One round of the loop of double_table, or of that of rehash_table.      *)
Round(loop, t, u, i) ==
  IF loop = "double_table" THEN Carry(t, u, i)
  ELSE Resettle(u, (i + FirstEmpty(t)) % Size(t))

(* The equation FoldLeft solves for the first n buckets.                   *)
Loops(g, loop, t, first, n) ==
  g = [s \in SUBSET (1..n) |->
        IF s = {} THEN first
        ELSE Round(loop, t, g[s \ {Max(s)}], Buckets(t)[Max(s)])]

LEMMA LoopExists ==
  ASSUME NEW loop, NEW t, NEW first, NEW n \in Nat
  PROVE  \E g : Loops(g, loop, t, first, n)
<1> DEFINE L(g, k) == Loops(g, loop, t, first, k)
           S == {k \in Nat : \E g : L(g, k)}
<1>1. 0 \in S
  <2> DEFINE g == [s \in {{}} |-> first]
  <2>1. SUBSET (1..0) = {{}}
    OBVIOUS
  <2>2. L(g, 0)
    BY <2>1 DEF Loops
  <2> QED BY <2>2
<1>2. ASSUME NEW k \in 0..(n - 1), k \in S PROVE k + 1 \in S
  <2>1. PICK g : L(g, k)
    BY <1>2
  <2>0. k \in Nat /\ k + 1 \in Nat
    OBVIOUS
  <2> DEFINE next(s) == Round(loop, t, g[s \ {k + 1}], Buckets(t)[k + 1])
             f == [s \in SUBSET (1..(k + 1)) |-> IF k + 1 \in s THEN next(s) ELSE g[s]]
  <2>2. ASSUME NEW s \in SUBSET (1..(k + 1))
        PROVE  f[s] = IF s = {} THEN first
                      ELSE Round(loop, t, f[s \ {Max(s)}], Buckets(t)[Max(s)])
    <3>1. CASE k + 1 \in s
      <4>1. Max(s) = k + 1
        <5>1. Max(s) \in s /\ \A x \in s : Max(s) >= x
          <6> HIDE DEF f, next, L, S
          <6> QED BY <2>0, <3>1, GreatestOf
        <5>2. Max(s) \in 1..(k + 1) /\ Max(s) >= k + 1
          <6> HIDE DEF f, next, L, S
          <6> QED BY <3>1, <5>1
        <5> QED BY <2>0, <5>2
      <4>2. s \ {k + 1} \in SUBSET (1..(k + 1)) /\ k + 1 \notin s \ {k + 1}
        OBVIOUS
      <4>3. f[s \ {k + 1}] = g[s \ {k + 1}] /\ f[s] = next(s)
        BY <3>1, <4>2
      <4> HIDE DEF f
      <4> QED BY <3>1, <4>1, <4>3
    <3>2. CASE k + 1 \notin s
      <4>1. s \in SUBSET (1..k)
        BY <3>2
      <4>2. f[s] = g[s]
        BY <3>2
      <4>3. CASE s = {}
        BY <2>1, <4>1, <4>2, <4>3 DEF Loops
      <4>4. CASE s # {}
        <5>1. Max(s) \in s /\ s \ {Max(s)} \in SUBSET (1..k)
          <6> HIDE DEF f, next, L, S
          <6>1. Max(s) \in s
            BY <2>0, <4>1, <4>4, GreatestOf
          <6> QED BY <4>1, <6>1
        <5>2. f[s \ {Max(s)}] = g[s \ {Max(s)}]
          BY <3>2, <5>1
        <5>3. g[s] = Round(loop, t, g[s \ {Max(s)}], Buckets(t)[Max(s)])
          BY <2>1, <4>1, <4>4 DEF Loops
        <5> HIDE DEF f
        <5> QED BY <4>2, <4>4, <5>2, <5>3
      <4> QED BY <4>3, <4>4
    <3> QED BY <3>1, <3>2
  <2>3. L(f, k + 1)
    <3>1. f = [s \in SUBSET (1..(k + 1)) |-> f[s]]
      OBVIOUS
    <3> HIDE DEF f
    <3> QED BY <2>2, <3>1 DEF Loops
  <2>4. k + 1 \in Nat
    OBVIOUS
  <2> HIDE DEF f, L
  <2> QED BY <2>3, <2>4
<1>3. n \in S
  <2> HIDE DEF S
  <2> QED BY <1>1, <1>2, Upto
<1> QED BY <1>3

(* The tables a loop passes through. *)
Passes(loop, t, first) ==
  [i \in 0..Size(t) |->
    (CHOOSE g : Loops(g, loop, t, first, Size(t)))[1..i]]

LEMMA LoopRuns ==
  ASSUME NEW loop, NEW t, NEW first, Size(t) \in Nat
  PROVE  /\ Passes(loop, t, first)[0] = first
         /\ \A i \in 0..(Size(t) - 1) :
              Passes(loop, t, first)[i + 1] =
                Round(loop, t, Passes(loop, t, first)[i], i)
<1> DEFINE n == Size(t)
           g == CHOOSE f : Loops(f, loop, t, first, n)
           h == [i \in 0..n |-> g[1..i]]
<1>1. Loops(g, loop, t, first, n)
  BY LoopExists
<1> HIDE DEF g
<1>2. h[0] = first
  <2>1. 1..0 = {} /\ {} \in SUBSET (1..n)
    OBVIOUS
  <2>2. g[{}] = first
    BY <1>1, <2>1 DEF Loops
  <2> QED BY <2>1, <2>2
<1>3. ASSUME NEW i \in 0..(n - 1)
      PROVE  h[i + 1] = Round(loop, t, h[i], i)
  <2> DEFINE s == 1..(i + 1)
  <2>1. s \in SUBSET (1..n) /\ s # {} /\ i + 1 \in s /\ s \in SUBSET (1..(i + 1))
    OBVIOUS
  <2>2. Max(s) = i + 1
    <3>1. Max(s) \in s /\ \A x \in s : Max(s) >= x
      <4> HIDE DEF s
      <4> QED BY <2>1, GreatestOf
    <3> QED BY <2>1, <3>1
  <2>3. s \ {i + 1} = 1..i /\ i \in 0..n /\ i + 1 \in 0..n
    OBVIOUS
  <2>4. Buckets(t)[i + 1] = i
    BY DEF Buckets
  <2>5. g[s] = Round(loop, t, g[s \ {Max(s)}], Buckets(t)[Max(s)])
    <3> HIDE DEF s
    <3> QED BY <1>1, <2>1 DEF Loops
  <2>6. h[i + 1] = g[s] /\ h[i] = g[1..i]
    BY <2>3
  <2> HIDE DEF h, s
  <2> QED BY <2>2, <2>3, <2>4, <2>5, <2>6
<1> HIDE DEF h
<1>4. h[0] = first /\ \A i \in 0..(n - 1) : h[i + 1] = Round(loop, t, h[i], i)
  BY <1>2, <1>3
<1>5. Passes(loop, t, first) = h
  BY DEF Passes, g, h
<1> QED BY <1>4, <1>5

LEMMA TablesOfLoops ==
  ASSUME NEW t, Size(t) \in Nat
  PROVE  /\ \E h : /\ h[0] = Doubled(t) /\ h[Size(t)] = double_table(t)
                   /\ \A i \in 0..(Size(t) - 1) : h[i + 1] = Carry(t, h[i], i)
         /\ \E h : /\ h[0] = t /\ h[Size(t)] = Sweep(t)
                   /\ \A i \in 0..(Size(t) - 1) :
                        h[i + 1] = Resettle(h[i], (i + FirstEmpty(t)) % Size(t))
<1> DEFINE n == Size(t)
           hd == Passes("double_table", t, Doubled(t))
           hs == Passes("Sweep", t, t)
<1>1. DOMAIN Buckets(t) = 1..n
  BY DEF Buckets
<1>2. double_table(t) = (CHOOSE f : Loops(f, "double_table", t, Doubled(t), n))[1..n]
  BY <1>1 DEF double_table, FoldLeft, MapThenFoldSet, Loops, Round
<1>3. Sweep(t) = (CHOOSE f : Loops(f, "Sweep", t, t, n))[1..n]
  BY <1>1 DEF Sweep, FoldLeft, MapThenFoldSet, Loops, Round
<1>4. n \in 0..n
  OBVIOUS
<1>5. hd[n] = double_table(t) /\ hs[n] = Sweep(t)
  BY <1>2, <1>3, <1>4 DEF Passes
<1> HIDE DEF hd, hs
<1>6. hd[0] = Doubled(t) /\ \A i \in 0..(n - 1) : hd[i + 1] = Round("double_table", t, hd[i], i)
  BY LoopRuns DEF hd
<1>7. hs[0] = t /\ \A i \in 0..(n - 1) : hs[i + 1] = Round("Sweep", t, hs[i], i)
  BY LoopRuns DEF hs
<1>8. \A i \in 0..(n - 1) : hd[i + 1] = Carry(t, hd[i], i)
  BY <1>6 DEF Round
<1>9. \A i \in 0..(n - 1) : hs[i + 1] = Resettle(hs[i], (i + FirstEmpty(t)) % Size(t))
  BY <1>7 DEF Round
<1> QED BY <1>5, <1>6, <1>7, <1>8, <1>9
=============================================================================
