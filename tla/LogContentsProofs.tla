------------------------- MODULE LogContentsProofs -------------------------
(***************************************************************************)
(* Theorems about what the log files hold and what the replay loads        *)
(* (LogDirectory), for every application whose calls keep the rules of     *)
(* MPI, every width of an int and every sequence of captures and kills.    *)
(***************************************************************************)
EXTENDS LogDirectoryProofs, FiniteSetTheorems

-----------------------------------------------------------------------------
(* Cut sequences. *)

LEMMA CutSeq ==
  ASSUME NEW S, NEW s \in Seq(S), NEW n \in Int
  PROVE  /\ Cut(s, n) \in Seq(S)
         /\ Len(Cut(s, n)) = IF n < 0 THEN 0 ELSE IF n < Len(s) THEN n ELSE Len(s)
         /\ \A i \in 1..Len(Cut(s, n)) : Cut(s, n)[i] = s[i]
         /\ n >= Len(s) => Cut(s, n) = s
<1>1. Len(s) \in Nat
  OBVIOUS
<1>2. Min({n, Len(s)}) = IF n < Len(s) THEN n ELSE Len(s)
  BY <1>1 DEF Min
<1>3. ASSUME NEW m \in 0..Len(s)
      PROVE  /\ SubSeq(s, 1, m) \in Seq(S) /\ Len(SubSeq(s, 1, m)) = m
             /\ \A i \in 1..m : SubSeq(s, 1, m)[i] = s[i]
             /\ m = Len(s) => SubSeq(s, 1, m) = s
  OBVIOUS
<1>4. CASE n < 0
  <2>1. Cut(s, n) = SubSeq(s, 1, n)
    BY <1>1, <1>2, <1>4 DEF Cut
  <2>2. Cut(s, n) = <<>>
    BY <1>4, <2>1
  <2> QED BY <1>1, <1>4, <2>2
<1>5. CASE n \in 0..Len(s)
  <2>1. Min({n, Len(s)}) = n
    BY <1>1, <1>2, <1>5
  <2>2. Cut(s, n) = SubSeq(s, 1, n)
    BY <2>1 DEF Cut
  <2> QED BY <1>1, <1>3, <1>5, <2>2
<1>6. CASE n > Len(s)
  <2>1. Min({n, Len(s)}) = Len(s) /\ Len(s) \in 0..Len(s)
    BY <1>1, <1>2, <1>6
  <2>2. Cut(s, n) = SubSeq(s, 1, Len(s))
    BY <2>1 DEF Cut
  <2> QED BY <1>1, <1>3, <1>6, <2>1, <2>2
<1> QED BY <1>1, <1>4, <1>5, <1>6

LEMMA PrefixOf ==
  ASSUME NEW S, NEW s \in Seq(S), NEW t \in Seq(S)
  PROVE  IsPrefix(s, t) <=>
           Len(s) <= Len(t) /\ \A i \in 1..Len(s) : s[i] = t[i]
BY DEF IsPrefix

-----------------------------------------------------------------------------
(* Where one of two sequences of numbers of the same length has a place,    *)
(* the other one has it too.                                                *)
LEMMA SameLength ==
  ASSUME NEW s \in Seq(Nat), NEW t \in Seq(Nat), Len(s) = Len(t),
         NEW i \in DOMAIN s
  PROVE  s[i] \in Nat /\ t[i] \in Nat
OBVIOUS

(* An int of the width Width. *)

LEMMA HalfPositive == Half \in Nat \ {0}
<1> DEFINE n == Width - 1
<1>1. n \in Nat
  BY CallAssumption DEF CallAssumption
<1> HIDE DEF n
<1>2. IsFiniteSet(1..n) /\ Cardinality(1..n) = n
  BY <1>1, FS_Interval
<1>3. IsFiniteSet(SUBSET (1..n)) /\ Cardinality(SUBSET (1..n)) = 2 ^ n
  BY <1>2, FS_SUBSET
<1>4. Cardinality(SUBSET (1..n)) # 0
  <2>1. {} \in SUBSET (1..n)
    OBVIOUS
  <2> QED BY <1>3, <2>1, FS_EmptySet
<1>5. Cardinality(SUBSET (1..n)) \in Nat
  BY <1>3, FS_CardinalityType
<1> QED BY <1>3, <1>4, <1>5 DEF Half, n

(* The conversion to int never makes a natural number larger, and keeps    *)
(* the ones that fit.                                                      *)
LEMMA WrapNat ==
  ASSUME NEW x \in Nat
  PROVE  Wrap(x) \in Int /\ Wrap(x) <= x /\ (x < Half => Wrap(x) = x)
<1>1. Half \in Nat \ {0}
  BY HalfPositive
<1>2. x + Half \in Nat /\ 2 * Half \in Nat \ {0}
  BY <1>1
<1> DEFINE y == x + Half  m == 2 * Half
<1>3. /\ y % m \in Nat /\ y % m <= y
      /\ y < m => y % m = y
  <2> HIDE DEF y, m
  <2>1. y \in Nat /\ m \in Nat \ {0}
    BY <1>2 DEF y, m
  <2> QED BY <2>1
<1> HIDE DEF y, m
<1>4. Wrap(x) = (y % m) - Half
  BY DEF Wrap, y, m
<1> QED BY <1>1, <1>3, <1>4 DEF y, m

-----------------------------------------------------------------------------
(* Sums and unions over a finite index set. *)

(* The equation FoldSeq solves. *)
Adds(g, s) ==
  g = [t \in SUBSET DOMAIN s |->
        IF t = {} THEN 0
        ELSE s[CHOOSE x \in t : TRUE] + g[t \ {CHOOSE x \in t : TRUE}]]

LEMMA SumSolves ==
  ASSUME NEW s
  PROVE  Sum(s) = (CHOOSE g : Adds(g, s))[DOMAIN s]
BY DEF Sum, Adds, FoldSeq, FoldFunction, FoldFunctionOnSet, MapThenFoldSet

(* Finitely many finite sets have a finite union. *)
LEMMA FiniteUnion ==
  ASSUME NEW D, IsFiniteSet(D), NEW B, \A i \in D : IsFiniteSet(B[i])
  PROVE  IsFiniteSet(UNION {B[i] : i \in D})
<1> DEFINE f == [i \in D |-> B[i]]
           T == {B[i] : i \in D}
<1>1. f \in Surjection(D, T)
  BY DEF Surjection
<1>2. IsFiniteSet(T)
  <2> HIDE DEF f, T
  <2> QED BY <1>1, FS_Surjection
<1>3. \A t \in T : IsFiniteSet(t)
  OBVIOUS
<1> HIDE DEF T
<1>4. IsFiniteSet(UNION T)
  BY <1>2, <1>3, FS_UNION
<1> QED BY <1>4 DEF T

(* The sum of the sizes of disjoint sets is the size of their union.       *)
LEMMA SumIsCardinality ==
  ASSUME NEW s, IsFiniteSet(DOMAIN s), NEW B,
         \A i \in DOMAIN s : IsFiniteSet(B[i]) /\ Cardinality(B[i]) = s[i],
         \A i, j \in DOMAIN s : i # j => B[i] \cap B[j] = {}
  PROVE  Sum(s) = Cardinality(UNION {B[i] : i \in DOMAIN s})
<1> DEFINE D == DOMAIN s
           U(t) == UNION {B[i] : i \in t}
           h == [t \in SUBSET D |-> Cardinality(U(t))]
           pick(t) == CHOOSE x \in t : TRUE
<1>1. ASSUME NEW t \in SUBSET D, t # {}
      PROVE  h[t] = s[pick(t)] + h[t \ {pick(t)}]
  <2>1. pick(t) \in t
    BY <1>1
  <2> HIDE DEF pick
  <2> DEFINE x == pick(t)
  <2>2. U(t) = B[x] \cup U(t \ {x}) /\ B[x] \cap U(t \ {x}) = {}
    BY <2>1
  <2>3. IsFiniteSet(B[x]) /\ IsFiniteSet(U(t \ {x}))
    <3>1. IsFiniteSet(t \ {x}) /\ \A i \in t \ {x} : IsFiniteSet(B[i])
      BY FS_Subset
    <3> QED BY <2>1, <3>1, FiniteUnion
  <2>4. Cardinality(B[x]) = s[x] /\ t \ {x} \in SUBSET D
    BY <2>1
  <2>5. /\ Cardinality(B[x]) \in Nat /\ Cardinality(U(t \ {x})) \in Nat
        /\ Cardinality({}) = 0
    BY <2>3, FS_CardinalityType, FS_EmptySet
  <2>6. Cardinality(B[x] \cup U(t \ {x})) =
          Cardinality(B[x]) + Cardinality(U(t \ {x})) - Cardinality({})
    <3> DEFINE V == U(t \ {x})
    <3> HIDE DEF x, V
    <3>1. Cardinality(B[x] \cup V) =
            Cardinality(B[x]) + Cardinality(V) - Cardinality(B[x] \cap V)
      BY <2>3, FS_Union DEF V
    <3> QED BY <2>2, <3>1 DEF V
  <2>7. Cardinality(U(t)) = s[x] + Cardinality(U(t \ {x}))
    <3> HIDE DEF x, U
    <3> QED BY <2>2, <2>4, <2>5, <2>6
  <2> QED BY <2>4, <2>7
<1>2. h[{}] = 0
  BY FS_EmptySet
<1>3. Adds(h, s)
  <2> HIDE DEF U
  <2>1. h = [t \in SUBSET D |-> h[t]]
    OBVIOUS
  <2> HIDE DEF h
  <2> QED BY <1>1, <1>2, <2>1 DEF Adds
<1> DEFINE g == CHOOSE f : Adds(f, s)
<1>4. Adds(g, s)
  BY <1>3
<1> HIDE DEF g
<1>5. g = h
  <2>1. ASSUME NEW t \in SUBSET D,
               \A u \in SUBSET D : u \subseteq t /\ u # t => g[u] = h[u]
        PROVE  g[t] = h[t]
    <3>1. CASE t = {}
      BY <1>2, <1>4, <3>1 DEF Adds
    <3>2. CASE t # {}
      <4>1. pick(t) \in t
        BY <3>2
      <4>2. g[t] = s[pick(t)] + g[t \ {pick(t)}]
        BY <1>4, <3>2 DEF Adds
      <4>3. g[t \ {pick(t)}] = h[t \ {pick(t)}]
        <5> HIDE DEF h, pick
        <5> QED BY <2>1, <4>1
      <4> HIDE DEF h, pick
      <4> QED BY <1>1, <3>2, <4>2, <4>3
    <3> QED BY <3>1, <3>2
  <2> HIDE DEF h
  <2> DEFINE bad == {t \in SUBSET D : g[t] # h[t]}
  <2>2. bad = {}
    <3> SUFFICES ASSUME bad # {} PROVE FALSE
      OBVIOUS
    <3>1. FiniteSubsetsOf(D) = SUBSET D
      BY FS_FiniteSubsetsOfFinite
    <3>2. IsWellFoundedOn(StrictSubsetOrdering(D), SUBSET D)
      BY <3>1, FS_StrictSubsetOrderingWellFounded
    <3>3. PICK t \in bad : \A u \in bad : <<u, t>> \notin StrictSubsetOrdering(D)
      <4>1. bad \subseteq SUBSET D
        OBVIOUS
      <4> HIDE DEF bad, D
      <4> QED BY <3>2, <4>1, WFMin
    <3>4. \A u \in SUBSET D : u \subseteq t /\ u # t => g[u] = h[u]
      BY <3>3 DEF StrictSubsetOrdering
    <3> QED BY <2>1, <3>4
  <2>3. DOMAIN g = SUBSET D /\ DOMAIN h = SUBSET D
        /\ g = [t \in DOMAIN g |-> g[t]] /\ h = [t \in DOMAIN h |-> h[t]]
    BY <1>3, <1>4 DEF Adds
  <2> QED BY <2>2, <2>3
<1> QED BY <1>5, SumSolves DEF g

-----------------------------------------------------------------------------
(* What a call receives. *)

LEMMA MaxOf ==
  ASSUME NEW S, IsFiniteSet(S), S \subseteq Nat, S # {}
  PROVE  Max(S) \in S /\ \A x \in S : Max(S) >= x
<1> DEFINE HasMax(t) == \E x \in t : \A y \in t : x >= y
           bad == {t \in SUBSET S : t # {} /\ ~HasMax(t)}
<1>1. bad = {}
  <2> SUFFICES ASSUME bad # {} PROVE FALSE
    OBVIOUS
  <2>1. IsWellFoundedOn(StrictSubsetOrdering(S), SUBSET S)
    BY FS_StrictSubsetOrderingWellFounded, FS_FiniteSubsetsOfFinite
  <2>2. PICK t \in bad : \A u \in bad : <<u, t>> \notin StrictSubsetOrdering(S)
    <3>1. bad \subseteq SUBSET S
      OBVIOUS
    <3> HIDE DEF bad
    <3> QED BY <2>1, <3>1, WFMin
  <2>3. PICK x \in t : TRUE
    OBVIOUS
  <2>4. CASE t \ {x} = {}
    BY <2>3, <2>4
  <2>5. CASE t \ {x} # {}
    <3>1. t \ {x} \notin bad
      BY <2>2, <2>3 DEF StrictSubsetOrdering
    <3>2. PICK m \in t \ {x} : \A y \in t \ {x} : m >= y
      BY <2>5, <3>1
    <3>3. x \in Nat /\ m \in Nat
      BY <2>3, <3>2
    <3>4. CASE m >= x
      BY <3>2, <3>4
    <3>5. CASE x > m
      <4>1. ASSUME NEW y \in t PROVE x >= y
        BY <3>2, <3>3, <3>5
      <4> QED BY <2>3, <4>1
    <3> QED BY <3>3, <3>4, <3>5
  <2> QED BY <2>4, <2>5
<1>2. HasMax(S)
  BY <1>1
<1> QED BY <1>2 DEF Max

(* The receive buffer of a call: Extent positions, of which the blocks     *)
(* take as many as its counts add up to.                                   *)
LEMMA ReceivedType ==
  ASSUME NEW c \in Calls
  PROVE  /\ IsFiniteSet(DOMAIN c.counts)
         /\ \A i \in DOMAIN c.counts :
              /\ c.counts[i] \in Nat
              /\ IsFiniteSet(Block(c, i)) /\ Cardinality(Block(c, i)) = c.counts[i]
         /\ IsFiniteSet(Received(c)) /\ Extent(c) \in Nat
         /\ Received(c) \subseteq 1..Extent(c)
         /\ Sum(c.counts) = Cardinality(Received(c))
<1>1. /\ c.counts \in Seq(Nat) /\ c.displs \in Seq(Nat)
      /\ Len(c.counts) = Len(c.displs)
      /\ \A i, j \in DOMAIN c.counts : i # j => Block(c, i) \cap Block(c, j) = {}
  BY CallAssumption DEF CallAssumption
<1>2. IsFiniteSet(DOMAIN c.counts)
  <2>1. DOMAIN c.counts = 1..Len(c.counts) /\ Len(c.counts) \in Nat
    BY <1>1
  <2> QED BY <2>1, FS_Interval
<1>3. ASSUME NEW i \in DOMAIN c.counts
      PROVE  /\ c.counts[i] \in Nat /\ c.displs[i] \in Nat
             /\ IsFiniteSet(Block(c, i)) /\ Cardinality(Block(c, i)) = c.counts[i]
  <2>1. c.counts[i] \in Nat /\ c.displs[i] \in Nat
    BY <1>1, SameLength
  <2> DEFINE a == c.displs[i] + 1  b == c.displs[i] + c.counts[i]
  <2>2. a \in Int /\ b \in Int
    BY <2>1
  <2>3. IsFiniteSet(a..b) /\ Cardinality(a..b) = IF a > b THEN 0 ELSE b - a + 1
    <3> HIDE DEF a, b
    <3> QED BY <2>2, FS_Interval
  <2>4. (IF a > b THEN 0 ELSE b - a + 1) = c.counts[i]
    BY <2>1
  <2> QED BY <2>1, <2>3, <2>4 DEF Block
<1> DEFINE B == [i \in DOMAIN c.counts |-> Block(c, i)]
<1>4. Received(c) = UNION {B[i] : i \in DOMAIN c.counts}
  BY DEF Received
<1>5. IsFiniteSet(Received(c))
  <2>1. \A i \in DOMAIN c.counts : IsFiniteSet(B[i])
    BY <1>3
  <2> HIDE DEF B
  <2> QED BY <1>2, <1>4, <2>1, FiniteUnion
<1>6. Sum(c.counts) = Cardinality(Received(c))
  <2>1. \A i \in DOMAIN c.counts :
          IsFiniteSet(B[i]) /\ Cardinality(B[i]) = c.counts[i]
    BY <1>3
  <2>2. \A i, j \in DOMAIN c.counts : i # j => B[i] \cap B[j] = {}
    BY <1>1
  <2> HIDE DEF B
  <2> QED BY <1>2, <1>4, <2>1, <2>2, SumIsCardinality
<1>7. \A x \in Received(c) : x \in Nat /\ 1 <= x
  <2>1. ASSUME NEW i \in DOMAIN c.counts, NEW x \in Block(c, i)
        PROVE  x \in Nat /\ 1 <= x
    BY <1>3, <2>1 DEF Block
  <2> QED BY <2>1 DEF Received
<1>8. /\ Extent(c) \in Received(c) \cup {0}
      /\ \A x \in Received(c) \cup {0} : Extent(c) >= x
  <2> DEFINE S == Received(c) \cup {0}
  <2>1. IsFiniteSet(S) /\ S \subseteq Nat /\ S # {}
    BY <1>5, <1>7, FS_AddElement
  <2> HIDE DEF S
  <2>2. Max(S) \in S /\ \A x \in S : Max(S) >= x
    BY <2>1, MaxOf
  <2> QED BY <2>2 DEF Extent, S
<1>9. Extent(c) \in Nat /\ Received(c) \subseteq 1..Extent(c)
  BY <1>7, <1>8
<1> QED BY <1>2, <1>3, <1>5, <1>6, <1>9

(* A sum as the size of a set of pairs, and of as many equal numbers. *)
LEMMA SumOfPairs ==
  ASSUME NEW s \in Seq(Nat)
  PROVE  LET P == UNION {{i} \X (1..s[i]) : i \in DOMAIN s}
         IN  IsFiniteSet(P) /\ Sum(s) = Cardinality(P)
<1> DEFINE B == [i \in DOMAIN s |-> {i} \X (1..s[i])]
<1>1. IsFiniteSet(DOMAIN s)
  BY FS_Interval
<1>2. ASSUME NEW i \in DOMAIN s
      PROVE  IsFiniteSet(B[i]) /\ Cardinality(B[i]) = s[i]
  <2> DEFINE k == s[i]  K == 1..k
  <2>1. k \in Nat
    OBVIOUS
  <2> HIDE DEF k
  <2>2. IsFiniteSet(K) /\ Cardinality(K) = k
    BY <2>1, FS_Interval
  <2>3. IsFiniteSet({i}) /\ Cardinality({i}) = 1
    BY FS_Singleton
  <2> HIDE DEF K
  <2>4. IsFiniteSet({i} \X K) /\ Cardinality({i} \X K) = Cardinality({i}) * Cardinality(K)
    BY <2>2, <2>3, FS_Product
  <2>5. B[i] = {i} \X K
    BY DEF K, k
  <2> HIDE DEF B
  <2>6. Cardinality(B[i]) = k
    BY <2>1, <2>2, <2>3, <2>4, <2>5
  <2> QED BY <2>4, <2>5, <2>6 DEF k
<1>3. \A i, j \in DOMAIN s : i # j => B[i] \cap B[j] = {}
  OBVIOUS
<1>4. UNION {{i} \X (1..s[i]) : i \in DOMAIN s} = UNION {B[i] : i \in DOMAIN s}
  <2>1. \A i \in DOMAIN s : B[i] = {i} \X (1..s[i])
    OBVIOUS
  <2> HIDE DEF B
  <2> QED BY <2>1
<1> HIDE DEF B
<1>5. IsFiniteSet(UNION {B[i] : i \in DOMAIN s})
  BY <1>1, <1>2, FiniteUnion
<1>6. Sum(s) = Cardinality(UNION {B[i] : i \in DOMAIN s})
  BY <1>1, <1>2, <1>3, SumIsCardinality
<1> QED BY <1>4, <1>5, <1>6

LEMMA SumOfEqual ==
  ASSUME NEW n \in Nat, NEW k \in Nat, NEW s, s = [i \in 1..n |-> k]
  PROVE  Sum(s) = k * n
<1>1. s \in Seq(Nat)
  OBVIOUS
<1>2. UNION {{i} \X (1..s[i]) : i \in DOMAIN s} = (1..n) \X (1..k)
  OBVIOUS
<1> DEFINE N == 1..n  K == 1..k
<1>3. IsFiniteSet(N) /\ Cardinality(N) = n /\ IsFiniteSet(K) /\ Cardinality(K) = k
  BY FS_Interval
<1> HIDE DEF N, K
<1>4. Cardinality(N \X K) = Cardinality(N) * Cardinality(K)
  BY <1>3, FS_Product
<1>5. Sum(s) = Cardinality(N \X K)
  BY <1>1, <1>2, SumOfPairs DEF N, K
<1>6. n * k = k * n
  OBVIOUS
<1> QED BY <1>3, <1>4, <1>5, <1>6

(* The count, whatever size of the communicator is taken, is an integer.   *)
LEMMA CountType ==
  ASSUME NEW c \in Calls, NEW ranks \in Nat, NEW stray \in Int
  PROVE  Count(c, ranks, stray) \in Int
<1>1. /\ c.counts \in Seq(Nat) /\ c.ranks \in Nat \ {0} /\ Len(c.counts) >= 1
      /\ c.op \in {"MPI_Recv", "MPI_Alltoall", "MPI_Alltoallv"}
  BY CallAssumption DEF CallAssumption
<1>2. ASSUME NEW x \in Int PROVE Wrap(x) \in Int
  BY HalfPositive DEF Wrap
<1>3. Sum(Cut(c.counts, ranks)) \in Int
  <2>1. Cut(c.counts, ranks) \in Seq(Nat)
    BY <1>1, CutSeq
  <2> DEFINE s == Cut(c.counts, ranks)
             P == UNION {{i} \X (1..s[i]) : i \in DOMAIN s}
  <2> HIDE DEF s
  <2>2. IsFiniteSet(P) /\ Sum(s) = Cardinality(P)
    BY <2>1, SumOfPairs DEF s
  <2> HIDE DEF P
  <2>3. Sum(s) \in Nat
    BY <2>2, FS_CardinalityType
  <2> QED BY <2>3 DEF s
<1>4. c.counts[1] \in Nat
  BY <1>1
<1>5. CASE c.op = "MPI_Recv"
  BY <1>4, <1>5 DEF Count
<1>6. CASE c.op = "MPI_Alltoall"
  BY <1>2, <1>4, <1>6 DEF Count
<1>7. CASE c.op = "MPI_Alltoallv"
  BY <1>2, <1>3, <1>7 DEF Count
<1> QED BY <1>1, <1>5, <1>6, <1>7

(* The count of a call never exceeds its receive buffer, and is all of it  *)
(* where the blocks have no gaps and an int holds it.                      *)
LEMMA CountFits ==
  ASSUME NEW c \in Calls
  PROVE  /\ Count(c, c.ranks, 0) \in Int /\ Count(c, c.ranks, 0) <= Extent(c)
         /\ Received(c) = 1..Extent(c) /\ Extent(c) < Half =>
              Count(c, c.ranks, 0) = Extent(c)
<1> DEFINE n == Cardinality(Received(c))
<1>1. /\ IsFiniteSet(Received(c)) /\ Extent(c) \in Nat
      /\ Received(c) \subseteq 1..Extent(c) /\ Sum(c.counts) = n
  BY ReceivedType
<1>2. n \in Nat /\ n <= Extent(c)
  <2>1. IsFiniteSet(1..Extent(c)) /\ Cardinality(1..Extent(c)) = Extent(c)
    BY <1>1, FS_Interval
  <2>2. n <= Cardinality(1..Extent(c))
    BY <1>1, <2>1, FS_Subset
  <2> QED BY <1>1, <2>1, <2>2, FS_CardinalityType
<1>3. Received(c) = 1..Extent(c) => n = Extent(c)
  BY <1>1, FS_Interval
<1>4. Count(c, c.ranks, 0) = n \/ Count(c, c.ranks, 0) = Wrap(n)
  <2>1. /\ c.counts \in Seq(Nat) /\ c.ranks \in Nat
        /\ Len(c.counts) = IF c.op = "MPI_Recv" THEN 1 ELSE c.ranks
        /\ c.op \in {"MPI_Recv", "MPI_Alltoall", "MPI_Alltoallv"}
    BY CallAssumption DEF CallAssumption
  <2>2. CASE c.op = "MPI_Recv"
    <3>1. Len(c.counts) = 1 /\ c.counts[1] \in Nat
      BY <2>1, <2>2
    <3>2. c.counts = [i \in 1..1 |-> c.counts[1]]
      BY <2>1, <3>1
    <3>3. Sum(c.counts) = c.counts[1] * 1
      BY <3>1, <3>2, SumOfEqual
    <3> QED BY <1>1, <2>2, <3>1, <3>3 DEF Count
  <2>3. CASE c.op = "MPI_Alltoall"
    <3>1. \A i, j \in DOMAIN c.counts : c.counts[i] = c.counts[j]
      BY <2>3, CallAssumption DEF CallAssumption
    <3>2. Len(c.counts) = c.ranks /\ c.ranks >= 1 /\ c.counts[1] \in Nat
      BY <2>1, <2>3, CallAssumption DEF CallAssumption
    <3>3. c.counts = [i \in 1..c.ranks |-> c.counts[1]]
      BY <2>1, <3>1, <3>2
    <3>4. Sum(c.counts) = c.counts[1] * c.ranks
      BY <2>1, <3>2, <3>3, SumOfEqual
    <3> QED BY <1>1, <2>3, <3>4 DEF Count
  <2>4. CASE c.op = "MPI_Alltoallv"
    <3>1. Cut(c.counts, c.ranks) = c.counts
      BY <2>1, <2>4, CutSeq
    <3>2. ~(c.ranks > c.ranks) /\ n + 0 = n
      BY <1>2, <2>1
    <3> QED BY <1>1, <2>4, <3>1, <3>2 DEF Count
  <2> QED BY <2>1, <2>2, <2>3, <2>4
<1> HIDE DEF n
<1>5. Wrap(n) \in Int /\ Wrap(n) <= n /\ (n < Half => Wrap(n) = n)
  BY <1>2, WrapNat
<1>6. Half \in Nat
  BY HalfPositive
<1> QED BY <1>1, <1>2, <1>3, <1>4, <1>5, <1>6

-----------------------------------------------------------------------------
(* What is written. *)

LEMMA MemoryType ==
  ASSUME NEW c \in Calls, NEW r \in 0..MaxRuns, NEW n \in 0..MaxCalls
  PROVE  Memory(r, n, c) \in Seq(Element) /\ Len(Memory(r, n, c)) = Extent(c)
<1>1. Extent(c) \in Nat /\ MaxRuns \in Nat /\ MaxCalls \in Nat
  BY ReceivedType, PathAssumption, CallAssumption
     DEF PathAssumption, CallAssumption
<1>2. ASSUME NEW i \in 1..Extent(c)
      PROVE  <<IF i \in Received(c) THEN r ELSE 0, n, i>> \in Element
  BY <1>1 DEF Element
<1> QED BY <1>1, <1>2 DEF Memory

LEMMA Overwrites ==
  ASSUME NEW S, NEW old \in Seq(S), NEW new \in Seq(S)
  PROVE  /\ Overwritten(old, new) \in Seq(S)
         /\ IsPrefix(new, Overwritten(old, new))
         /\ old = <<>> => Overwritten(old, new) = new
<1> DEFINE rest == SubSeq(old, Len(new) + 1, Len(old))
<1>1. rest \in Seq(S) /\ Len(rest) \in Nat /\ (old = <<>> => rest = <<>>)
  OBVIOUS
<1> HIDE DEF rest
<1>2. new \o rest \in Seq(S) /\ Len(new \o rest) = Len(new) + Len(rest)
      /\ \A i \in 1..Len(new) : (new \o rest)[i] = new[i]
  BY <1>1
<1>3. rest = <<>> => new \o rest = new
  BY <1>1
<1>4. IsPrefix(new, new \o rest)
  <2> DEFINE t == new \o rest
  <2>1. t \in Seq(S) /\ Len(new) <= Len(t) /\ \A i \in 1..Len(new) : new[i] = t[i]
    BY <1>1, <1>2
  <2> HIDE DEF t
  <2>2. IsPrefix(new, t)
    BY <2>1, PrefixOf
  <2> QED BY <2>2 DEF t
<1> QED BY <1>1, <1>2, <1>3, <1>4 DEF Overwritten, rest

(* What call number i of the capture is told to dump, and its log file. *)
Dump(i) ==
  LET c == program[i] IN Cut(Memory(run, i - 1, c), Count(c, c.ranks, 0))
LogFile(i) == <<Dir(outpath), i - 1>>

LEMMA DumpType ==
  ASSUME run \in 0..MaxRuns, program \in Seq(Calls), Len(program) <= MaxCalls,
         NEW i \in 1..Len(program)
  PROVE  /\ program[i] \in Calls
         /\ Memory(run, i - 1, program[i]) \in Seq(Element)
         /\ Len(Memory(run, i - 1, program[i])) = Extent(program[i])
         /\ Extent(program[i]) \in Nat
         /\ Dump(i) \in Seq(Element) /\ Len(Dump(i)) <= Extent(program[i])
         /\ IsPrefix(Dump(i), Memory(run, i - 1, program[i]))
<1> DEFINE c == program[i]  m == Memory(run, i - 1, c)  k == Count(c, c.ranks, 0)
<1>1. c \in Calls /\ i - 1 \in 0..MaxCalls
  BY CallAssumption DEF CallAssumption
<1>2. m \in Seq(Element) /\ Len(m) = Extent(c) /\ Extent(c) \in Nat
  BY <1>1, MemoryType, ReceivedType
<1>3. k \in Int
  BY <1>1, CountFits
<1> HIDE DEF c, m, k
<1>4. Cut(m, k) \in Seq(Element) /\ Len(Cut(m, k)) <= Len(m)
      /\ \A j \in 1..Len(Cut(m, k)) : Cut(m, k)[j] = m[j]
  BY <1>2, <1>3, CutSeq
<1>5. IsPrefix(Cut(m, k), m)
  BY <1>2, <1>4, PrefixOf
<1>6. Dump(i) = Cut(m, k)
  BY DEF Dump, c, m, k
<1> QED BY <1>1, <1>2, <1>4, <1>5, <1>6 DEF c, m

LEMMA DumpedType ==
  ASSUME run \in 0..MaxRuns, program \in Seq(Calls), Len(program) <= MaxCalls,
         NEW c \in Calls
  PROVE  Dumped(c) \in Seq(Element) /\ Len(Dumped(c)) \in Nat
<1>1. Len(program) \in 0..MaxCalls
  BY CallAssumption DEF CallAssumption
<1>2. Memory(run, Len(program), c) \in Seq(Element) /\ Count(c, c.ranks, 0) \in Int
  BY <1>1, MemoryType, CountFits
<1>3. Dumped(c) \in Seq(Element)
  BY <1>2, CutSeq DEF Dumped, cpt_write
<1> QED BY <1>3

(* A call of which k elements of the dump reach its file. *)
LEMMA WriteStep ==
  ASSUME run \in 0..MaxRuns, program \in Seq(Calls), run' = run,
         \A f \in DOMAIN files : files[f] \in Seq(Element),
         NEW c \in Calls, Calling(c), NEW k \in 0..Len(Dumped(c)),
         write_in_file(c, k), outpath' = outpath,
         NEW n, n = Len(program) + 1
  PROVE  LET f == LogFile(n)
         IN  /\ n \in 1..MaxCalls /\ n - 1 = Len(program)
             /\ program' \in Seq(Calls) /\ Len(program') = n
             /\ \A i \in 1..Len(program) :
                  program'[i] = program[i] /\ Dump(i)' = Dump(i)
             /\ \A i : LogFile(i)' = LogFile(i)
             /\ DOMAIN files' = DOMAIN files \cup {f}
             /\ \A g \in DOMAIN files : g # f => files'[g] = files[g]
             /\ files'[f] \in Seq(Element)
             /\ Dump(n)' = Dumped(c) /\ Dumped(c) \in Seq(Element)
             /\ k = Len(Dumped(c)) => IsPrefix(Dump(n)', files'[f])
             /\ f \notin DOMAIN files => IsPrefix(files'[f], Dump(n)')
<1> DEFINE f == LogFile(n)
           old == IF f \in DOMAIN files THEN files[f] ELSE <<>>
           new == SubSeq(Dumped(c), 1, k)
<1>1. /\ Len(program) \in Nat /\ Len(program) < MaxCalls /\ MaxCalls \in Nat
      /\ program' = Append(program, c)
  BY CallAssumption DEF Calling, CallAssumption
<1>2. /\ n \in 1..MaxCalls /\ n - 1 = Len(program)
      /\ program' \in Seq(Calls) /\ Len(program') = n /\ program'[n] = c
      /\ \A i \in 1..Len(program) : program'[i] = program[i]
  BY <1>1
<1>3. \A i \in 1..Len(program) : Dump(i)' = Dump(i)
  BY <1>2 DEF Dump, Memory, Count
<1>4. Dump(n)' = Dumped(c)
  <2>1. Dump(n)' = Cut(Memory(run, n - 1, c), Count(c, c.ranks, 0))
    BY <1>2 DEF Dump, Memory, Count
  <2> QED BY <1>2, <2>1 DEF Dumped, cpt_write
<1>5. Dumped(c) \in Seq(Element)
  BY <1>1, DumpedType
<1>6. old \in Seq(Element)
  OBVIOUS
<1>7. /\ new \in Seq(Element) /\ IsPrefix(new, Dumped(c))
      /\ k = Len(Dumped(c)) => new = Dumped(c)
  <2> DEFINE d == Dumped(c)
  <2> HIDE DEF d
  <2>1. d \in Seq(Element) /\ k \in 0..Len(d)
    BY <1>5 DEF d
  <2>2. SubSeq(d, 1, k) \in Seq(Element) /\ Len(SubSeq(d, 1, k)) = k
        /\ \A i \in 1..k : SubSeq(d, 1, k)[i] = d[i]
    BY <2>1
  <2>3. k = Len(d) => SubSeq(d, 1, k) = d
    BY <2>1, <2>2
  <2>4. IsPrefix(SubSeq(d, 1, k), d)
    <3> DEFINE e == SubSeq(d, 1, k)
    <3>1. /\ e \in Seq(Element) /\ Len(e) <= Len(d)
          /\ \A i \in 1..Len(e) : e[i] = d[i]
      BY <2>1, <2>2
    <3> HIDE DEF e
    <3>2. IsPrefix(e, d)
      BY <2>1, <3>1, PrefixOf
    <3> QED BY <3>2 DEF e
  <2> QED BY <2>2, <2>3, <2>4 DEF d
<1>8. files' = Put(files, f, Overwritten(old, new))
  <2>1. f = <<Dir(outpath), cpt_write>>
    BY <1>2 DEF LogFile, cpt_write
  <2> QED BY <2>1 DEF write_in_file
<1>9. /\ Overwritten(old, new) \in Seq(Element)
      /\ IsPrefix(new, Overwritten(old, new))
      /\ old = <<>> => Overwritten(old, new) = new
  <2> HIDE DEF old, new
  <2> QED BY <1>6, <1>7, Overwrites
<1>10. /\ DOMAIN files' = DOMAIN files \cup {f}
       /\ \A g \in DOMAIN files : g # f => files'[g] = files[g]
       /\ files'[f] = Overwritten(old, new)
  <2> HIDE DEF f, old, new
  <2> QED BY <1>8 DEF Put
<1>11. \A i : LogFile(i)' = LogFile(i)
  BY DEF LogFile
<1>12. f \notin DOMAIN files => old = <<>>
  OBVIOUS
<1> HIDE DEF f, old, new
<1> QED BY <1>2, <1>3, <1>4, <1>5, <1>7, <1>9, <1>10, <1>11, <1>12 DEF f

-----------------------------------------------------------------------------
(* Types, and what holds at each stage of a capture: only one that wrote   *)
(* nprocs has calls, a torn one was its last, only a replay has read, and  *)
(* the log files in its directory were there before or are its own.        *)

StageInv ==
  /\ saved # "size" => program = <<>>
  /\ phase = "running" => saved = "size" /\ ~torn
  /\ torn => program # <<>>
  /\ phase # "replay" => cpt_read = 0
  /\ \A f \in DOMAIN files :
       saved # "no" /\ f[1] = Dir(outpath) => f[2] \in before \/ f[2] < Len(program)
  /\ \A i \in 1..Len(program) : LogFile(i) \in DOMAIN files

LEMMA StartType ==
  ASSUME TypeOK, StageInv, NEW q \in Paths, NEW n \in Sizes, Start(q, n)
  PROVE  TypeOK' /\ StageInv'
<1>1. /\ path' = q /\ outpath' = Cut(q, CapLen) /\ dirs' = dirs
      /\ run' = run + 1 /\ run < MaxRuns /\ size' = n /\ saved' = "no"
      /\ program' = <<>> /\ before' = {} /\ torn' = FALSE
      /\ UNCHANGED <<nprocs, files, MPIre_size, cpt_read, got>>
      /\ phase \in {"none", "stopped", "exited"}
  BY DEF Start, StartCapture, replayVars
<1>2. Len(outpath') \in Nat
  <2>1. IsPath(q) /\ CapLen \in Nat
    BY PathsArePaths, PathAssumption DEF PathAssumption
  <2>2. IsPath(Cut(q, CapLen))
    BY <2>1, CutPath
  <2> QED BY <1>1, <2>2 DEF IsPath
<1>3. /\ phase' \in {"mkpath", "open", "exited"}
      /\ p' \in 0..Len(outpath') /\ (phase' = "mkpath" <=> p' > 0)
  <2>1. CASE phase' \in {"open", "exited"} /\ p' = 0
    BY <1>2, <2>1
  <2>2. CASE NextSlash(outpath', 0)
    <3>1. IsPath(outpath')
      BY <1>1, PathsArePaths, PathAssumption, CutPath DEF PathAssumption
    <3>2. CASE phase' = "open"
      BY <1>2, <2>2, <3>2 DEF NextSlash
    <3>3. CASE phase' # "open"
      BY <1>2, <2>2, <3>1, <3>3, NextSlashStep
    <3> QED BY <3>2, <3>3
  <2> QED BY <2>1, <2>2 DEF Start, StartCapture
<1>4. cpt_read' = 0 /\ 0 \in 0..Len(<<>>) /\ run' \in 0..MaxRuns
  BY <1>1, PathAssumption DEF TypeOK, StageInv, PathAssumption
<1>5. TypeOK'
  <2>1. /\ program' \in Seq(Calls) /\ Len(program') <= MaxCalls
        /\ cpt_read' \in 0..Len(program')
    BY <1>1, <1>4, CallAssumption DEF CallAssumption
  <2>2. \A f \in DOMAIN files' : /\ f \in (DOMAIN nprocs') \X (0..(MaxCalls - 1))
                                /\ files'[f] \in Seq(Element)
    BY <1>1 DEF TypeOK
  <2>3. torn' \in BOOLEAN
    BY <1>1, Zenon
  <2> QED BY <1>1, <1>3, <1>4, <2>1, <2>2, <2>3 DEF TypeOK
<1>6. StageInv'
  BY <1>1, <1>3, <1>4 DEF StageInv
<1> QED BY <1>5, <1>6

LEMMA MkdirType ==
  ASSUME PathInv, TypeOK, StageInv, Mkdir, UNCHANGED <<captureVars, replayVars>>
  PROVE  TypeOK' /\ StageInv'
<1> DEFINE d == SubSeq(outpath, 1, p - 1)
<1>1. /\ IsPath(outpath) /\ Len(outpath) \in Nat /\ phase = "mkpath"
      /\ IsPath(path) /\ outpath = Cut(path, CapLen) /\ CapLen \in Nat
      /\ p \in 2..Len(outpath) /\ outpath[p] = Slash
      /\ UNCHANGED <<path, outpath, run, nprocs, files, size, saved, program,
                     before, torn, MPIre_size, cpt_read, got>>
      /\ dirs \subseteq dirs' /\ dirs' \subseteq dirs \cup {d}
  BY OutpathPath, PathAssumption
     DEF PathInv, PathType, Mkdir, captureVars, replayVars, PathAssumption
<1>2. \E q \in Paths, i \in 0..CapLen : d = Cut(q, i)
  <2>1. Len(outpath) <= CapLen /\ Len(outpath) <= Len(path)
        /\ (\A n \in 0..Len(outpath) : SubSeq(outpath, 1, n) = SubSeq(path, 1, n))
    <3>1. CASE CapLen >= Len(path)
      <4>1. outpath = path
        BY <1>1, <3>1, CutPath
      <4> QED BY <1>1, <3>1, <4>1
    <3>2. CASE CapLen < Len(path)
      <4>1. outpath = SubSeq(path, 1, CapLen) /\ Len(outpath) = CapLen
        BY <1>1, <3>2, CutPath
      <4>2. \A n \in 0..CapLen : SubSeq(SubSeq(path, 1, CapLen), 1, n) = SubSeq(path, 1, n)
        BY <1>1, <3>2 DEF IsPath
      <4> QED BY <1>1, <3>2, <4>1, <4>2
    <3> QED BY <1>1, <3>1, <3>2 DEF IsPath
  <2>2. p - 1 \in 0..CapLen /\ p - 1 < Len(path) /\ p - 1 \in 0..Len(outpath)
    BY <1>1, <2>1
  <2>3. d = SubSeq(path, 1, p - 1)
    BY <2>1, <2>2
  <2>4. Cut(path, p - 1) = SubSeq(path, 1, p - 1)
    <3>1. p - 1 \in Nat
      BY <1>1
    <3> QED BY <1>1, <2>2, <3>1, CutPath
  <2>5. path \in Paths
    <3>1. path # <<>>
      BY <1>1, <2>2
    <3> QED BY <3>1 DEF TypeOK
  <2> QED BY <2>2, <2>3, <2>4, <2>5
<1>3. /\ phase' \in {"mkpath", "open"}
      /\ p' \in 0..Len(outpath) /\ (phase' = "mkpath" <=> p' > 0)
  <2>1. CASE phase' = "open" /\ p' = 0
    BY <1>1, <2>1
  <2>2. CASE NextSlash(outpath, p)
    <3>1. CASE phase' = "open"
      BY <1>1, <2>2, <3>1 DEF NextSlash
    <3>2. CASE phase' # "open"
      <4>1. p \in Nat
        BY <1>1
      <4> QED BY <1>1, <2>2, <3>2, <4>1, NextSlashStep
    <3> QED BY <3>1, <3>2
  <2> QED BY <2>1, <2>2 DEF Mkdir
<1> HIDE DEF d
<1>4. TypeOK'
  <2>1. dirs' \subseteq {Root} \cup Locked \cup Others
                        \cup {Cut(q, i) : q \in Paths, i \in 0..CapLen}
    BY <1>1, <1>2 DEF TypeOK
  <2>2. DOMAIN nprocs' \subseteq dirs'
    BY <1>1 DEF TypeOK
  <2> QED BY <1>1, <1>3, <2>1, <2>2, SMTT(30) DEF TypeOK
<1>5. StageInv'
  BY <1>1, <1>3 DEF StageInv, LogFile
<1> QED BY <1>4, <1>5

LEMMA OpenType ==
  ASSUME PathInv, SizeInv, TypeOK, StageInv, OpenNprocs
  PROVE  TypeOK' /\ StageInv'
<1>1. UNCHANGED <<dirs, path, outpath, p, run, files, size, program, torn,
                  MPIre_size, cpt_read, got>> /\ phase = "open"
  BY DEF OpenNprocs, replayVars
<1>2. CASE phase' = "exited"
  <2>1. UNCHANGED <<nprocs, saved, before>>
    BY <1>2 DEF OpenNprocs
  <2>2. TypeOK'
    BY <1>1, <1>2, <2>1 DEF TypeOK
  <2>3. StageInv'
    BY <1>1, <1>2, <2>1 DEF StageInv, LogFile
  <2> QED BY <2>2, <2>3
<1>3. CASE phase' = "write"
  <2>1. /\ Dir(outpath) \in dirs /\ nprocs' = Put(nprocs, Dir(outpath), 0)
        /\ saved' = "empty"
        /\ before' = {f[2] : f \in {f \in DOMAIN files : f[1] = Dir(outpath)}}
    BY <1>3 DEF OpenNprocs, Exists
  <2>2. /\ DOMAIN nprocs' = DOMAIN nprocs \cup {Dir(outpath)}
        /\ Range(nprocs') \subseteq Range(nprocs) \cup {0}
    BY <2>1 DEF Put, Range
  <2>3. before' \subseteq 0..(MaxCalls - 1)
    BY <2>1 DEF TypeOK
  <2>4. \A f \in DOMAIN files : f[1] = Dir(outpath) => f[2] \in before'
    BY <2>1
  <2>5. saved = "no"
    BY <1>1 DEF SizeInv
  <2>6. TypeOK'
    BY <1>1, <1>3, <2>1, <2>2, <2>3 DEF TypeOK
  <2>7. StageInv'
    BY <1>1, <1>3, <2>1, <2>4, <2>5 DEF StageInv, LogFile
  <2> QED BY <2>6, <2>7
<1> QED BY <1>2, <1>3 DEF OpenNprocs

(* What a call leaves in types and stages, whether or not it is torn.      *)
LEMMA WriteType ==
  ASSUME SizeInv, TypeOK, StageInv, NEW c \in Calls, Calling(c),
         NEW k \in 0..Len(Dumped(c)), write_in_file(c, k),
         UNCHANGED <<dirs, path, outpath, p, run, nprocs, size, saved, before,
                     MPIre_size, cpt_read, got>>,
         torn' \in BOOLEAN,
         \/ phase' = "running" /\ ~torn'
         \/ phase' = "stopped"
  PROVE  TypeOK' /\ StageInv'
<1>1. PICK n : n = Len(program) + 1
  OBVIOUS
<1> DEFINE f == LogFile(n)
<1>2. /\ n \in 1..MaxCalls /\ n - 1 = Len(program)
      /\ program' \in Seq(Calls) /\ Len(program') = n
      /\ DOMAIN files' = DOMAIN files \cup {f}
      /\ \A g \in DOMAIN files : g # f => files'[g] = files[g]
      /\ files'[f] \in Seq(Element)
  <2>1. /\ run \in 0..MaxRuns /\ program \in Seq(Calls) /\ run' = run
        /\ outpath' = outpath
        /\ \A g \in DOMAIN files : files[g] \in Seq(Element)
    BY DEF TypeOK
  <2>2. /\ n \in 1..MaxCalls /\ n - 1 = Len(program)
        /\ program' \in Seq(Calls) /\ Len(program') = n
    BY <1>1, <2>1, WriteStep
  <2>3. DOMAIN files' = DOMAIN files \cup {f}
    BY <1>1, <2>1, WriteStep
  <2>4. \A g \in DOMAIN files : g # f => files'[g] = files[g]
    BY <1>1, <2>1, WriteStep
  <2>5. files'[f] \in Seq(Element)
    BY <1>1, <2>1, WriteStep
  <2> QED BY <2>2, <2>3, <2>4, <2>5
<1>3. phase = "running" /\ saved = "size" /\ Dir(outpath) \in DOMAIN nprocs
  BY DEF Calling, StageInv, SizeInv
<1>4. f \in (DOMAIN nprocs) \X (0..(MaxCalls - 1)) /\ f[2] = n - 1
  BY <1>2, <1>3, CallAssumption DEF LogFile, CallAssumption
<1>5. cpt_read = 0 /\ program' # <<>>
  BY <1>2, <1>3 DEF StageInv
<1> HIDE DEF f
<1>6. TypeOK'
  <2>1. /\ dirs' = dirs /\ path' = path /\ outpath' = outpath /\ p' = p
        /\ run' = run /\ nprocs' = nprocs /\ size' = size /\ saved' = saved
        /\ before' = before /\ MPIre_size' = MPIre_size /\ got' = got
        /\ cpt_read' = cpt_read
    OBVIOUS
  <2>2. \A g \in DOMAIN files' : /\ g \in (DOMAIN nprocs) \X (0..(MaxCalls - 1))
                                 /\ files'[g] \in Seq(Element)
    <3>1. \A g \in DOMAIN files : /\ g \in (DOMAIN nprocs) \X (0..(MaxCalls - 1))
                                  /\ files[g] \in Seq(Element)
      BY DEF TypeOK
    <3>2. SUFFICES ASSUME NEW g \in DOMAIN files'
                   PROVE  /\ g \in (DOMAIN nprocs) \X (0..(MaxCalls - 1))
                          /\ files'[g] \in Seq(Element)
      OBVIOUS
    <3>3. CASE g = f
      BY <1>2, <1>4, <3>3, Zenon
    <3>4. CASE g # f
      <4>1. g \in DOMAIN files /\ files'[g] = files[g]
        BY <1>2, <3>4
      <4> QED BY <3>1, <4>1, Zenon
    <3> QED BY <3>3, <3>4
  <2>3. program' \in Seq(Calls) /\ Len(program') <= MaxCalls
        /\ cpt_read' \in 0..Len(program')
    BY <1>2, <1>5, <2>1, CallAssumption DEF CallAssumption
  <2>4. phase' \in {"running", "stopped"} /\ phase' # "mkpath" /\ phase # "mkpath"
    BY <1>3
  <2>5. /\ dirs' \subseteq {Root} \cup Locked \cup Others
                          \cup {Cut(q, i) : q \in Paths, i \in 0..CapLen}
        /\ path' \in Paths \cup {<<>>}
        /\ DOMAIN nprocs' \subseteq dirs' /\ Range(nprocs') \subseteq Sizes \cup {0}
    <3>1. /\ dirs \subseteq {Root} \cup Locked \cup Others
                            \cup {Cut(q, i) : q \in Paths, i \in 0..CapLen}
          /\ path \in Paths \cup {<<>>}
          /\ DOMAIN nprocs \subseteq dirs /\ Range(nprocs) \subseteq Sizes \cup {0}
      BY DEF TypeOK
    <3>2. dirs' = dirs /\ path' = path /\ nprocs' = nprocs
      BY <2>1
    <3> QED BY <3>1, <3>2
  <2>6. /\ phase' \in {"none", "mkpath", "open", "write", "running", "stopped",
                       "exited", "replay", "replay_exited"}
        /\ p' \in 0..Len(outpath') /\ (phase' = "mkpath" <=> p' > 0)
    BY <2>1, <2>4 DEF TypeOK
  <2>7. /\ run' \in 0..MaxRuns
        /\ size' \in Sizes \cup {0} /\ saved' \in {"no", "empty", "size"}
        /\ before' \subseteq 0..(MaxCalls - 1) /\ torn' \in BOOLEAN
        /\ MPIre_size' \in Sizes \cup {0} /\ got' \in Seq(Element)
    BY <2>1 DEF TypeOK
  <2>8. DOMAIN nprocs' = DOMAIN nprocs
    BY <2>1
  <2> QED BY <2>2, <2>3, <2>5, <2>6, <2>7, <2>8, SMTT(30) DEF TypeOK
<1>7. StageInv'
  <2>1. \A i \in 1..n : LogFile(i)' \in DOMAIN files'
    <3>1. ASSUME NEW i \in 1..n PROVE LogFile(i)' \in DOMAIN files'
      <4>1. LogFile(i)' = LogFile(i)
        BY DEF LogFile
      <4>2. CASE i = n
        BY <1>2, <4>1, <4>2 DEF f
      <4>3. CASE i \in 1..Len(program)
        BY <1>2, <4>1, <4>3 DEF StageInv
      <4> QED BY <1>1, <1>2, <4>2, <4>3
    <3> QED BY <3>1
  <2>2. saved' = "size" /\ program' # <<>> /\ cpt_read' = 0
        /\ (phase' = "running" => ~torn')
    BY <1>3, <1>5
  <2>3. ASSUME NEW g \in DOMAIN files', saved' # "no", g[1] = Dir(outpath)'
        PROVE  g[2] \in before' \/ g[2] < Len(program')
    <3>1. CASE g \in DOMAIN files
      <4>1. g[2] \in before \/ g[2] < Len(program)
        BY <1>3, <2>3, <3>1 DEF StageInv, Dir
      <4>2. Len(program) < Len(program')
        BY <1>2
      <4>3. g[2] \in Int /\ Len(program) \in Int /\ Len(program') \in Int
        BY <1>2, <3>1 DEF TypeOK
      <4> QED BY <4>1, <4>2, <4>3
    <3>2. CASE g = f
      BY <1>2, <1>4, <3>2
    <3> QED BY <1>2, <3>1, <3>2
  <2>4. \A i \in 1..Len(program') : LogFile(i)' \in DOMAIN files'
    BY <1>2, <2>1
  <2> QED BY <2>2, <2>3, <2>4 DEF StageInv
<1> QED BY <1>6, <1>7

(* Where a replay has calls to repeat, it reads in the directory of the    *)
(* capture and has its size.                                               *)
LEMMA ReplayDirectory ==
  ASSUME PathInv, SizeInv, ReplayInv, StageInv, phase = "replay", program # <<>>
  PROVE  Dir(path) = Dir(outpath) /\ MPIre_size = size
<1>1. saved = "size"
  BY DEF StageInv
<1>2. /\ IsPath(path) /\ outpath = Cut(path, CapLen) /\ CapLen \in Nat
      /\ outpath # <<>> /\ Len(Dir(path)) <= CapLen
  BY <1>1, PathAssumption DEF PathInv, PathType, SizeInv, ReplayInv, PathAssumption
<1>3. Dir(path) = Dir(outpath)
  BY <1>2, SameDirectory
<1> QED BY <1>1, <1>3 DEF SizeInv, ReplayInv

LEMMA LoadType ==
  ASSUME PathInv, SizeInv, ReplayInv, TypeOK, StageInv, ReplayCall
  PROVE  TypeOK' /\ StageInv'
<1> DEFINE c == program[cpt_read + 1]
           f == <<Dir(path), cpt_read>>
<1>1. /\ phase = "replay" /\ phase' = phase /\ program # <<>>
      /\ cpt_read \in Nat /\ cpt_read + 1 \in 1..Len(program)
      /\ cpt_read' = cpt_read + 1 /\ c \in Calls
      /\ UNCHANGED <<dirs, phase, path, outpath, p, run, nprocs, files, size,
                     saved, program, before, torn, MPIre_size>>
  BY DEF ReplayCall, TypeOK, pathVars, captureVars
<1>2. PICK stray \in Ints : got' = Loaded(f, Count(c, MPIre_size, stray))
  BY DEF ReplayCall
<1>3. files[f] \in Seq(Element)
  <2>1. f = LogFile(cpt_read + 1)
    BY <1>1, ReplayDirectory DEF LogFile
  <2>2. f \in DOMAIN files
    BY <1>1, <2>1 DEF StageInv
  <2> HIDE DEF f
  <2> QED BY <2>2 DEF TypeOK
<1>4. Count(c, MPIre_size, stray) \in Int
  <2>1. MPIre_size \in Nat /\ stray \in Int
    BY CallAssumption, HalfPositive DEF TypeOK, CallAssumption, Ints
  <2> HIDE DEF c
  <2> QED BY <1>1, <2>1, CountType
<1>5. got' \in Seq(Element)
  <2> HIDE DEF f, c
  <2> QED BY <1>2, <1>3, <1>4, CutSeq DEF Loaded
<1>6. TypeOK'
  BY <1>1, <1>5 DEF TypeOK
<1>7. StageInv'
  BY <1>1 DEF StageInv, LogFile
<1> QED BY <1>6, <1>7

LEMMA TypeStep ==
  ASSUME PathInv, SizeInv, ReplayInv, TypeOK, StageInv, [Next]_vars
  PROVE  TypeOK' /\ StageInv'
<1>1. ASSUME NEW q \in Paths, NEW n \in Sizes, Start(q, n)
      PROVE  TypeOK' /\ StageInv'
  BY <1>1, StartType
<1>2. CASE Mkdir /\ UNCHANGED <<captureVars, replayVars>>
  BY <1>2, MkdirType
<1>3. ASSUME NEW d \in Others, OtherMkdir(d), UNCHANGED <<captureVars, replayVars>>
      PROVE  TypeOK' /\ StageInv'
  <2>1. /\ dirs' = dirs \cup {d}
        /\ UNCHANGED <<phase, path, outpath, p, run, nprocs, files, size, saved,
                       program, before, torn, MPIre_size, cpt_read, got>>
    BY <1>3 DEF OtherMkdir, captureVars, replayVars
  <2> QED BY <2>1 DEF TypeOK, StageInv, LogFile
<1>4. CASE OpenNprocs
  BY <1>4, OpenType
<1>5. CASE WriteNprocs
  <2>1. /\ UNCHANGED <<dirs, path, outpath, p, run, files, size, program, before,
                       torn, MPIre_size, cpt_read, got>>
        /\ phase = "write" /\ phase' = "running" /\ saved' = "size"
        /\ nprocs' = [nprocs EXCEPT ![Dir(outpath)] = size]
        /\ saved = "empty"
    BY <1>5 DEF WriteNprocs, replayVars, SizeInv
  <2>2. /\ DOMAIN nprocs' = DOMAIN nprocs
        /\ Range(nprocs') \subseteq Range(nprocs) \cup {size}
    BY <2>1 DEF Range
  <2>3. TypeOK'
    <3>1. Range(nprocs') \subseteq Sizes \cup {0}
      BY <2>2 DEF TypeOK
    <3>2. p' \in 0..Len(outpath') /\ (phase' = "mkpath" <=> p' > 0)
      BY <2>1 DEF TypeOK
    <3>3. \A f \in DOMAIN files' : /\ f \in (DOMAIN nprocs') \X (0..(MaxCalls - 1))
                                  /\ files'[f] \in Seq(Element)
      BY <2>1, <2>2 DEF TypeOK
    <3>4. /\ UNCHANGED <<dirs, path, outpath, run, size, program, before, torn,
                         MPIre_size, cpt_read, got>>
          /\ phase' = "running" /\ saved' = "size"
      BY <2>1
    <3> QED BY <2>2, <3>1, <3>2, <3>3, <3>4 DEF TypeOK
  <2>4. ~torn
    BY <2>1 DEF StageInv
  <2>5. StageInv'
    BY <2>1, <2>4 DEF StageInv, LogFile
  <2> QED BY <2>3, <2>5
<1>6. ASSUME NEW c \in Calls, Call(c)
      PROVE  TypeOK' /\ StageInv'
  <2>1. /\ Calling(c) /\ write_in_file(c, Len(Dumped(c)))
        /\ UNCHANGED <<dirs, path, outpath, p, run, nprocs, size, saved, before,
                       MPIre_size, cpt_read, got>>
        /\ phase' = "running" /\ torn' = torn
    BY <1>6 DEF Call, Calling, pathVars, replayVars
  <2>2. Len(Dumped(c)) \in 0..Len(Dumped(c))
    BY DumpedType DEF TypeOK
  <2>3. ~torn'
    BY <2>1 DEF StageInv, Calling
  <2>4. torn' \in BOOLEAN
    BY <2>1 DEF TypeOK
  <2> QED BY <2>1, <2>2, <2>3, <2>4, WriteType
<1>7. ASSUME NEW c \in Calls, TornCall(c)
      PROVE  TypeOK' /\ StageInv'
  <2>1. PICK k \in 0..(Len(Dumped(c)) - 1) : write_in_file(c, k)
    BY <1>7 DEF TornCall
  <2>2. k \in 0..Len(Dumped(c))
    BY DumpedType DEF TypeOK
  <2>3. /\ Calling(c)
        /\ UNCHANGED <<dirs, path, outpath, p, run, nprocs, size, saved, before,
                       MPIre_size, cpt_read, got>>
        /\ phase' = "stopped"
    BY <1>7 DEF TornCall, replayVars
  <2>4. torn' \in BOOLEAN
    BY <1>7, Zenon DEF TornCall
  <2> QED BY <2>1, <2>2, <2>3, <2>4, WriteType
<1>8. CASE Stop
  <2>1. /\ phase' = "stopped" /\ p' = 0 /\ phase # "replay"
        /\ UNCHANGED <<dirs, path, outpath, run, nprocs, files, size, saved,
                       program, before, torn, MPIre_size, cpt_read, got>>
    BY <1>8 DEF Stop, captureVars, replayVars
  <2>2. 0 \in 0..Len(outpath)
    BY OutpathPath DEF PathInv
  <2> QED BY <2>1, <2>2 DEF TypeOK, StageInv, LogFile
<1>9. CASE StartReplay
  <2>1. /\ phase' \in {"replay", "replay_exited"}
        /\ phase \in {"stopped", "exited"}
        /\ MPIre_size' \in Range(nprocs) \cup {MPIre_size}
        /\ UNCHANGED <<dirs, path, outpath, p, run, nprocs, files, size, saved,
                       program, before, torn, cpt_read, got>>
    BY <1>9 DEF StartReplay, captureVars, Range
  <2>2. TypeOK'
    BY <2>1 DEF TypeOK
  <2>3. StageInv'
    BY <2>1 DEF StageInv, LogFile
  <2> QED BY <2>2, <2>3
<1>10. CASE ReplayCall
  BY <1>10, LoadType
<1>11. CASE UNCHANGED vars
  BY <1>11 DEF vars, pathVars, captureVars, replayVars, TypeOK, StageInv, LogFile
<1> QED BY <1>1, <1>2, <1>3, <1>4, <1>5, <1>6, <1>7, <1>8, <1>9, <1>10, <1>11
        DEF Next

-----------------------------------------------------------------------------
(* What the log files hold: at least what their calls dumped, if these     *)
(* returned, and no more, if the files were new.  What a replay loaded.    *)

LogInv ==
  \A i \in 1..Len(program) :
    /\ Returned(i - 1) => IsPrefix(Dump(i), files[LogFile(i)])
    /\ Fresh(i - 1) => IsPrefix(files[LogFile(i)], Dump(i))

GotInv ==
  phase = "replay" /\ cpt_read > 0 =>
    \E stray \in Ints :
      got = Loaded(<<Dir(path), cpt_read - 1>>,
                   Count(program[cpt_read], MPIre_size, stray))

(* A call leaves the files of the earlier ones alone and dumps into its    *)
(* own, all of it unless it is torn.                                       *)
LEMMA WriteLog ==
  ASSUME TypeOK, StageInv, LogInv, NEW c \in Calls, Calling(c),
         NEW k \in 0..Len(Dumped(c)), write_in_file(c, k),
         run' = run, outpath' = outpath, before' = before,
         k = Len(Dumped(c)) \/ torn'
  PROVE  LogInv'
<1>1. PICK n : n = Len(program) + 1
  OBVIOUS
<1> DEFINE f == LogFile(n)
<1>2. /\ run \in 0..MaxRuns /\ program \in Seq(Calls)
      /\ \A g \in DOMAIN files : files[g] \in Seq(Element)
      /\ Len(program) \in Nat
  BY DEF TypeOK
<1>3. /\ n - 1 = Len(program) /\ Len(program') = n
      /\ \A i \in 1..Len(program) : Dump(i)' = Dump(i)
      /\ \A i : LogFile(i)' = LogFile(i)
  BY <1>1, <1>2, WriteStep
<1>4. /\ \A g \in DOMAIN files : g # f => files'[g] = files[g]
      /\ k = Len(Dumped(c)) => IsPrefix(Dump(n)', files'[f])
      /\ f \notin DOMAIN files => IsPrefix(files'[f], Dump(n)')
  BY <1>1, <1>2, WriteStep
<1>5. saved = "size" /\ ~torn
  BY DEF Calling, StageInv
<1>6. ASSUME NEW i \in 1..Len(program)
      PROVE  /\ Returned(i - 1)' => IsPrefix(Dump(i), files[LogFile(i)])'
             /\ Fresh(i - 1)' => IsPrefix(files[LogFile(i)], Dump(i))'
  <2>1. LogFile(i) # f
    BY <1>2, <1>3 DEF LogFile
  <2>2. LogFile(i) \in DOMAIN files
    BY DEF StageInv
  <2>3. files'[LogFile(i)] = files[LogFile(i)]
    BY <1>4, <2>1, <2>2
  <2>4. (Returned(i - 1) => IsPrefix(Dump(i), files[LogFile(i)]))
        /\ (Fresh(i - 1) => IsPrefix(files[LogFile(i)], Dump(i)))
    BY DEF LogInv
  <2>5. Returned(i - 1)
    BY <1>5 DEF Returned
  <2>6. Fresh(i - 1)' => Fresh(i - 1)
    BY DEF Fresh
  <2>7. Dump(i)' = Dump(i) /\ files'[LogFile(i)'] = files[LogFile(i)]
    BY <1>3, <2>3
  <2> QED BY <2>4, <2>5, <2>6, <2>7 DEF IsPrefix
<1>7. Returned(n - 1)' => IsPrefix(Dump(n)', files'[LogFile(n)'])
  <2>1. ASSUME torn' PROVE ~Returned(n - 1)'
    BY <1>1, <1>2, <1>3, <2>1 DEF Returned, cpt_write
  <2> QED BY <1>3, <1>4, <2>1
<1>8. Fresh(n - 1)' => IsPrefix(files'[LogFile(n)'], Dump(n)')
  <2>1. ASSUME f \in DOMAIN files PROVE n - 1 \in before
    <3>1. f[1] = Dir(outpath) /\ f[2] = n - 1
      BY DEF LogFile
    <3> HIDE DEF f
    <3>2. f[2] \in before \/ f[2] < Len(program)
      BY <1>5, <2>1, <3>1 DEF StageInv
    <3> QED BY <1>2, <1>3, <3>1, <3>2
  <2> QED BY <1>3, <1>4, <2>1 DEF Fresh
<1>9. \A i \in 1..n : i \in 1..Len(program) \/ i = n
  BY <1>1, <1>2
<1> QED BY <1>3, <1>6, <1>7, <1>8, <1>9 DEF LogInv, IsPrefix

LEMMA LogFrame ==
  ASSUME LogInv, UNCHANGED <<outpath, run, files, program, before, torn>>
  PROVE  LogInv'
<1>1. Len(program') = Len(program)
  OBVIOUS
<1>2. \A i : Returned(i)' = Returned(i) /\ Fresh(i)' = Fresh(i)
  BY DEF Returned, Fresh, cpt_write
<1>3. \A i : LogFile(i)' = LogFile(i)
  BY DEF LogFile
<1>4. \A i : Dump(i)' = Dump(i)
  BY DEF Dump, Memory, Count
<1>5. \A i : files'[LogFile(i)] = files[LogFile(i)]
  OBVIOUS
<1> QED BY <1>1, <1>2, <1>3, <1>4, <1>5 DEF LogInv, IsPrefix

LEMMA ContentStep ==
  ASSUME SizeInv, TypeOK, StageInv, LogInv, GotInv, [Next]_vars
  PROVE  LogInv' /\ GotInv'
<1>1. CASE phase' # "replay" /\ program' = <<>>
  BY <1>1 DEF LogInv, GotInv
<1>2. CASE /\ UNCHANGED <<outpath, run, files, program, before, torn>>
           /\ \/ phase' # "replay"
              \/ cpt_read' = 0
              \/ UNCHANGED <<phase, path, MPIre_size, cpt_read, got>>
  <2>1. LogInv'
    BY <1>2, LogFrame
  <2>2. CASE phase' # "replay" \/ cpt_read' = 0
    BY <2>1, <2>2 DEF GotInv
  <2>3. CASE UNCHANGED <<phase, path, MPIre_size, cpt_read, got>>
    <3>1. /\ \A f, n : Loaded(f, n)' = Loaded(f, n)
          /\ \A c, m, stray : Count(c, m, stray)' = Count(c, m, stray)
      BY <1>2 DEF Loaded, Count
    <3>2. GotInv'
      BY <1>2, <2>3, <3>1 DEF GotInv, Loaded
    <3> QED BY <2>1, <3>2
  <2> QED BY <1>2, <2>2, <2>3
<1>3. ASSUME NEW q \in Paths, NEW n \in Sizes, Start(q, n)
      PROVE  LogInv' /\ GotInv'
  BY <1>1, <1>3 DEF Start, StartCapture, NextSlash
<1>4. CASE Mkdir /\ UNCHANGED <<captureVars, replayVars>>
  BY <1>2, <1>4 DEF Mkdir, NextSlash, captureVars
<1>5. ASSUME NEW d \in Others, OtherMkdir(d), UNCHANGED <<captureVars, replayVars>>
      PROVE  LogInv' /\ GotInv'
  BY <1>2, <1>5 DEF OtherMkdir, captureVars
<1>6. CASE OpenNprocs
  <2>1. program' = <<>> /\ phase' # "replay"
    BY <1>6 DEF OpenNprocs, SizeInv, StageInv
  <2> QED BY <1>1, <2>1
<1>7. CASE WriteNprocs \/ Stop
  BY <1>2, <1>7 DEF WriteNprocs, Stop, captureVars
<1>8. ASSUME NEW c \in Calls, Call(c)
      PROVE  LogInv' /\ GotInv'
  <2>1. Len(Dumped(c)) \in 0..Len(Dumped(c))
    BY DumpedType DEF TypeOK
  <2>2. LogInv'
    BY <1>8, <2>1, WriteLog DEF Call, pathVars
  <2>3. phase' = "running"
    BY <1>8 DEF Call, Calling, pathVars
  <2> QED BY <2>2, <2>3 DEF GotInv
<1>9. ASSUME NEW c \in Calls, TornCall(c)
      PROVE  LogInv' /\ GotInv'
  <2>1. PICK k \in 0..(Len(Dumped(c)) - 1) : write_in_file(c, k)
    BY <1>9 DEF TornCall
  <2>2. k \in 0..Len(Dumped(c))
    BY DumpedType DEF TypeOK
  <2>3. /\ Calling(c) /\ torn' /\ phase' = "stopped"
        /\ run' = run /\ outpath' = outpath /\ before' = before
    BY <1>9 DEF TornCall
  <2>4. LogInv'
    BY <2>1, <2>2, <2>3, WriteLog
  <2> QED BY <2>3, <2>4 DEF GotInv
<1>10. CASE StartReplay
  <2>1. cpt_read' = 0
    BY <1>10 DEF StartReplay, StageInv
  <2> QED BY <1>2, <1>10, <2>1 DEF StartReplay, captureVars
<1>11. CASE ReplayCall
  <2>1. /\ UNCHANGED <<path, outpath, run, files, program, before, torn, MPIre_size>>
        /\ cpt_read' = cpt_read + 1 /\ cpt_read \in Nat
        /\ cpt_read' - 1 = cpt_read
    <3>1. /\ UNCHANGED <<path, outpath, run, files, program, before, torn, MPIre_size>>
          /\ cpt_read' = cpt_read + 1
      BY <1>11 DEF ReplayCall, pathVars, captureVars
    <3>2. cpt_read \in Nat
      BY DEF TypeOK
    <3> QED BY <3>1, <3>2
  <2>2. LogInv'
    BY <2>1, LogFrame
  <2>3. PICK stray \in Ints :
          got' = Loaded(<<Dir(path), cpt_read>>,
                        Count(program[cpt_read + 1], MPIre_size, stray))
    BY <1>11 DEF ReplayCall
  <2>4. GotInv'
    BY <2>1, <2>3 DEF GotInv, Loaded, Count
  <2> QED BY <2>2, <2>4
<1>12. CASE UNCHANGED vars
  BY <1>2, <1>12 DEF vars, pathVars, captureVars, replayVars
<1> QED BY <1>3, <1>4, <1>5, <1>6, <1>7, <1>8, <1>9, <1>10, <1>11, <1>12 DEF Next

ContentInv ==
  /\ PathInv /\ SizeInv /\ ReplayInv
  /\ TypeOK /\ StageInv /\ LogInv /\ GotInv

LEMMA ContentInvariant == Spec => []ContentInv
<1>1. Init => TypeOK /\ StageInv /\ LogInv /\ GotInv
  <2> SUFFICES ASSUME Init PROVE TypeOK /\ StageInv /\ LogInv /\ GotInv
    OBVIOUS
  <2>1. torn \in BOOLEAN /\ ~torn
    BY Zenon DEF Init
  <2>2. MaxRuns \in Nat /\ MaxCalls \in Nat
    BY PathAssumption, CallAssumption DEF PathAssumption, CallAssumption
  <2>3. TypeOK
    BY <2>1, <2>2 DEF Init, PathInit, TypeOK, Range
  <2>4. StageInv /\ LogInv /\ GotInv
    BY <2>1 DEF Init, PathInit, StageInv, LogInv, GotInv
  <2> QED BY <2>3, <2>4
<1>2. DirectoryInv /\ TypeOK /\ StageInv /\ LogInv /\ GotInv /\ [Next]_vars =>
        TypeOK' /\ StageInv' /\ LogInv' /\ GotInv'
  BY TypeStep, ContentStep DEF DirectoryInv
<1>3. DirectoryInv /\ TypeOK /\ StageInv /\ LogInv /\ GotInv => ContentInv
  BY DEF DirectoryInv, ContentInv
<1> QED BY <1>1, <1>2, <1>3, DirectoryInvariant, PTL DEF Spec

-----------------------------------------------------------------------------
(* The theorems. *)

(* A replayed call loads from the file its captured counterpart wrote; on  *)
(* the whole world it asks for as many elements as that dumped.            *)
LEMMA LoadedFrom ==
  ASSUME ContentInv, NEW i \in 0..(MaxCalls - 1), NEW c, Replayed(i, c)
  PROVE  /\ i + 1 \in 1..Len(program) /\ c = program[i + 1] /\ c \in Calls
         /\ files[LogFile(i + 1)] \in Seq(Element)
         /\ Dump(i + 1) = Cut(Memory(run, i, c), Count(c, c.ranks, 0))
         /\ \E n \in Int : /\ got = Cut(files[LogFile(i + 1)], n)
                           /\ World(c) => n = Count(c, c.ranks, 0)
<1>1. /\ MaxCalls \in Nat /\ i \in Nat /\ cpt_read = i + 1
      /\ cpt_read \in 1..Len(program) /\ c = program[cpt_read]
      /\ phase = "replay" /\ program \in Seq(Calls) /\ program # <<>>
  BY CallAssumption DEF Replayed, ContentInv, TypeOK, CallAssumption
<1>2. c \in Calls
  BY <1>1
<1>3. Dir(path) = Dir(outpath) /\ MPIre_size = size
  BY <1>1, ReplayDirectory DEF ContentInv
<1>4. LogFile(i + 1) = <<Dir(path), cpt_read - 1>> /\ i + 1 - 1 = i
  BY <1>1, <1>3 DEF LogFile
<1>5. files[LogFile(i + 1)] \in Seq(Element)
  <2>1. LogFile(i + 1) \in DOMAIN files
    BY <1>1 DEF ContentInv, StageInv
  <2> QED BY <2>1 DEF ContentInv, TypeOK
<1>6. PICK stray \in Ints :
        got = Loaded(<<Dir(path), cpt_read - 1>>, Count(c, MPIre_size, stray))
  BY <1>1 DEF ContentInv, GotInv
<1> DEFINE n == Count(c, MPIre_size, stray)
<1>7. n \in Int
  <2>1. stray \in Int /\ MPIre_size \in Nat
    BY HalfPositive, CallAssumption DEF Ints, ContentInv, TypeOK, CallAssumption
  <2> QED BY <1>2, <2>1, CountType
<1>8. World(c) => n = Count(c, c.ranks, 0)
  <2>1. /\ c.op \in {"MPI_Recv", "MPI_Alltoall", "MPI_Alltoallv"}
        /\ c.ranks \in Nat
    BY <1>2, CallAssumption DEF CallAssumption
  <2>2. CASE c.op = "MPI_Recv"
    BY <2>2 DEF Count
  <2>3. CASE c.ranks = size /\ c.op # "MPI_Recv"
    <3>1. ~(c.ranks > c.ranks)
      BY <2>1
    <3> QED BY <1>3, <2>1, <2>3, <3>1 DEF Count
  <2> QED BY <2>2, <2>3 DEF World
<1>9. got = Cut(files[LogFile(i + 1)], n)
  BY <1>4, <1>6 DEF Loaded
<1>10. Dump(i + 1) = Cut(Memory(run, i, c), Count(c, c.ranks, 0))
  BY <1>1, <1>4 DEF Dump
<1> HIDE DEF n
<1> QED BY <1>1, <1>2, <1>5, <1>7, <1>8, <1>9, <1>10

(* The state is what the variables of the capture, the replay and the file *)
(* system can be: files of numbers below the bound in directories that     *)
(* exist and hold a file nprocs, directories that are beginnings of paths. *)
THEOREM LogTypes == Spec => []TypeOK
<1>1. ContentInv => TypeOK
  BY DEF ContentInv
<1> QED BY <1>1, ContentInvariant, PTL

(* What the replay loads is never longer than the receive buffer of the    *)
(* call, if that is on the whole world or its file was new: the count the  *)
(* wrapper computes wraps to a smaller number, never to a larger one.      *)
THEOREM NeverOverruns == Spec => []NoOverrun
<1>1. ContentInv => NoOverrun
  <2> SUFFICES ASSUME ContentInv, NEW i \in 0..(MaxCalls - 1),
                      NEW c \in Range(program), Replayed(i, c),
                      World(c) \/ Fresh(i)
               PROVE  Len(got) <= Extent(c)
    BY DEF NoOverrun
  <2> DEFINE f == files[LogFile(i + 1)]
  <2>1. /\ i + 1 \in 1..Len(program) /\ c = program[i + 1] /\ c \in Calls
        /\ f \in Seq(Element) /\ i + 1 - 1 = i
    BY LoadedFrom, CallAssumption DEF CallAssumption
  <2>2. PICK n \in Int : /\ got = Cut(f, n)
                         /\ World(c) => n = Count(c, c.ranks, 0)
    BY LoadedFrom
  <2> HIDE DEF f
  <2>3. /\ Len(got) <= Len(f) /\ Len(got) \in Nat
        /\ n >= 0 => Len(got) <= n
        /\ n < 0 => Len(got) = 0
    BY <2>1, <2>2, CutSeq
  <2>4. Extent(c) \in Nat
    BY <2>1, ReceivedType
  <2>5. CASE World(c)
    <3>1. n <= Extent(c)
      BY <2>1, <2>2, <2>5, CountFits
    <3> QED BY <2>3, <2>4, <3>1
  <2>6. CASE Fresh(i)
    <3>1. IsPrefix(f, Dump(i + 1))
      BY <2>1, <2>6 DEF f, ContentInv, LogInv
    <3>2. Dump(i + 1) \in Seq(Element) /\ Len(Dump(i + 1)) <= Extent(c)
      BY <2>1, DumpType DEF ContentInv, TypeOK
    <3>3. Len(f) <= Len(Dump(i + 1))
      BY <3>1 DEF IsPrefix
    <3> QED BY <2>1, <2>3, <2>4, <3>2, <3>3
  <2> QED BY <2>5, <2>6
<1> QED BY <1>1, ContentInvariant, PTL

(* What the replay loads is what the captured process had received in the  *)
(* same places, for a call that returned on the whole world, and for every *)
(* call whose file was new, torn or on a smaller communicator: nothing of  *)
(* an earlier capture shows, though no file is truncated.                  *)
THEOREM LoadsWhatWasCaptured == Spec => []LoadedIsCaptured
<1>1. ContentInv => LoadedIsCaptured
  <2> SUFFICES ASSUME ContentInv, NEW i \in 0..(MaxCalls - 1),
                      NEW c \in Range(program), Replayed(i, c),
                      (World(c) /\ Returned(i)) \/ Fresh(i)
               PROVE  IsPrefix(got, Memory(run, i, c))
    BY DEF LoadedIsCaptured
  <2> DEFINE f == files[LogFile(i + 1)]
             m == Memory(run, i, c)
             d == Dump(i + 1)
  <2>1. /\ i + 1 \in 1..Len(program) /\ c = program[i + 1] /\ c \in Calls
        /\ f \in Seq(Element) /\ i + 1 - 1 = i
        /\ d = Cut(m, Count(c, c.ranks, 0))
    <3>1. i + 1 - 1 = i
      BY CallAssumption DEF CallAssumption
    <3>2. /\ i + 1 \in 1..Len(program) /\ c = program[i + 1] /\ c \in Calls
          /\ f \in Seq(Element) /\ d = Cut(m, Count(c, c.ranks, 0))
      BY LoadedFrom, Zenon
    <3> QED BY <3>1, <3>2
  <2>2. PICK n \in Int : /\ got = Cut(f, n)
                         /\ World(c) => n = Count(c, c.ranks, 0)
    BY LoadedFrom
  <2>3. /\ m \in Seq(Element) /\ Len(m) = Extent(c) /\ Extent(c) \in Nat
        /\ d \in Seq(Element) /\ IsPrefix(d, m)
    <3>1. run \in 0..MaxRuns /\ program \in Seq(Calls) /\ Len(program) <= MaxCalls
      BY DEF ContentInv, TypeOK
    <3>2. /\ Memory(run, i + 1 - 1, program[i + 1]) \in Seq(Element)
          /\ Len(Memory(run, i + 1 - 1, program[i + 1])) = Extent(program[i + 1])
          /\ Extent(program[i + 1]) \in Nat /\ Dump(i + 1) \in Seq(Element)
          /\ IsPrefix(Dump(i + 1), Memory(run, i + 1 - 1, program[i + 1]))
      BY <2>1, <3>1, DumpType
    <3> QED BY <2>1, <3>2, Zenon
  <2>4. /\ Returned(i) => IsPrefix(d, f)
        /\ Fresh(i) => IsPrefix(f, d)
    BY <2>1 DEF ContentInv, LogInv
  <2> HIDE DEF f, m, d
  <2>5. /\ got \in Seq(Element) /\ Len(got) <= Len(f) /\ Len(got) \in Nat
        /\ Len(got) = IF n < 0 THEN 0 ELSE IF n < Len(f) THEN n ELSE Len(f)
        /\ \A j \in 1..Len(got) : got[j] = f[j]
    <3>1. /\ Cut(f, n) \in Seq(Element)
          /\ Len(Cut(f, n)) = IF n < 0 THEN 0 ELSE IF n < Len(f) THEN n ELSE Len(f)
          /\ \A j \in 1..Len(Cut(f, n)) : Cut(f, n)[j] = f[j]
      BY <2>1, CutSeq
    <3>2. Len(f) \in Nat
      BY <2>1
    <3>3. /\ got \in Seq(Element)
          /\ Len(got) = IF n < 0 THEN 0 ELSE IF n < Len(f) THEN n ELSE Len(f)
          /\ \A j \in 1..Len(got) : got[j] = f[j]
      BY <2>2, <3>1, Zenon
    <3> QED BY <3>2, <3>3
  <2>6. Len(d) <= Len(m) /\ \A j \in 1..Len(d) : d[j] = m[j]
    BY <2>3, PrefixOf
  <2>7. Len(got) <= Len(d) /\ \A j \in 1..Len(got) : got[j] = d[j]
    <3>1. CASE Fresh(i)
      <4>1. Len(f) <= Len(d) /\ \A j \in 1..Len(f) : f[j] = d[j]
        BY <2>1, <2>3, <2>4, <3>1, PrefixOf
      <4>2. Len(f) \in Nat /\ Len(d) \in Nat
        BY <2>1, <2>3
      <4>3. Len(got) <= Len(d)
        BY <2>5, <4>1, <4>2
      <4> QED BY <2>5, <4>1, <4>2, <4>3
    <3>2. CASE World(c) /\ Returned(i)
      <4>1. Len(d) <= Len(f) /\ \A j \in 1..Len(d) : d[j] = f[j]
        BY <2>1, <2>3, <2>4, <3>2, PrefixOf
      <4>2. n <= Len(m)
        BY <2>1, <2>2, <2>3, <3>2, CountFits
      <4>3. n >= 0 => Len(d) = n
        <5>1. d = Cut(m, n)
          BY <2>1, <2>2, <3>2
        <5>2. Len(d) = IF n < 0 THEN 0 ELSE IF n < Len(m) THEN n ELSE Len(m)
          BY <2>3, <5>1, CutSeq
        <5> QED BY <2>3, <4>2, <5>2
      <4> QED BY <2>1, <2>3, <2>5, <4>1, <4>3
    <3> QED BY <3>1, <3>2
  <2>8. Len(got) <= Len(m) /\ \A j \in 1..Len(got) : got[j] = m[j]
    BY <2>3, <2>5, <2>6, <2>7
  <2>9. IsPrefix(got, m)
    BY <2>3, <2>5, <2>8, PrefixOf
  <2> QED BY <2>9 DEF m
<1> QED BY <1>1, ContentInvariant, PTL

(* It loads all of that, if the blocks leave no gaps and an int holds the  *)
(* count: the capture takes the size from the communicator, the replay     *)
(* from the file nprocs, and the two counts agree.                         *)
THEOREM RestoresAll == Spec => []Restored
<1>1. ContentInv => Restored
  <2> SUFFICES ASSUME ContentInv, NEW i \in 0..(MaxCalls - 1),
                      NEW c \in Range(program), Replayed(i, c),
                      World(c), Returned(i),
                      Received(c) = 1..Extent(c), Extent(c) < Half
               PROVE  got = Memory(run, i, c)
    BY DEF Restored
  <2> DEFINE f == files[LogFile(i + 1)]
             m == Memory(run, i, c)
             d == Dump(i + 1)
  <2>1. /\ i + 1 \in 1..Len(program) /\ c = program[i + 1] /\ c \in Calls
        /\ f \in Seq(Element) /\ i + 1 - 1 = i
        /\ d = Cut(m, Count(c, c.ranks, 0))
    <3>1. i + 1 - 1 = i
      BY CallAssumption DEF CallAssumption
    <3>2. /\ i + 1 \in 1..Len(program) /\ c = program[i + 1] /\ c \in Calls
          /\ f \in Seq(Element) /\ d = Cut(m, Count(c, c.ranks, 0))
      BY LoadedFrom, Zenon
    <3> QED BY <3>1, <3>2
  <2>2. PICK n \in Int : got = Cut(f, n) /\ n = Count(c, c.ranks, 0)
    BY LoadedFrom
  <2>3. /\ m \in Seq(Element) /\ Len(m) = Extent(c) /\ Extent(c) \in Nat
        /\ d \in Seq(Element)
    <3>1. run \in 0..MaxRuns /\ program \in Seq(Calls) /\ Len(program) <= MaxCalls
      BY DEF ContentInv, TypeOK
    <3>2. /\ Memory(run, i + 1 - 1, program[i + 1]) \in Seq(Element)
          /\ Len(Memory(run, i + 1 - 1, program[i + 1])) = Extent(program[i + 1])
          /\ Extent(program[i + 1]) \in Nat /\ Dump(i + 1) \in Seq(Element)
          /\ IsPrefix(Dump(i + 1), Memory(run, i + 1 - 1, program[i + 1]))
      BY <2>1, <3>1, DumpType
    <3> QED BY <2>1, <3>2, Zenon
  <2>4. IsPrefix(d, f)
    BY <2>1 DEF ContentInv, LogInv
  <2>5. n = Extent(c)
    BY <2>1, <2>2, CountFits
  <2> HIDE DEF f, m, d
  <2>6. d = m
    BY <2>1, <2>2, <2>3, <2>5, CutSeq
  <2>7. Len(m) <= Len(f) /\ \A j \in 1..Len(m) : m[j] = f[j]
    BY <2>1, <2>3, <2>4, <2>6, PrefixOf
  <2>8. /\ got \in Seq(Element)
        /\ Len(got) = IF n < 0 THEN 0 ELSE IF n < Len(f) THEN n ELSE Len(f)
        /\ \A j \in 1..Len(got) : got[j] = f[j]
    <3>1. /\ Cut(f, n) \in Seq(Element)
          /\ Len(Cut(f, n)) = IF n < 0 THEN 0 ELSE IF n < Len(f) THEN n ELSE Len(f)
          /\ \A j \in 1..Len(Cut(f, n)) : Cut(f, n)[j] = f[j]
      BY <2>1, CutSeq
    <3> QED BY <2>2, <3>1, Zenon
  <2>9. Len(got) = Len(m) /\ \A j \in 1..Len(m) : got[j] = m[j]
    <3>1. Len(m) \in Nat /\ Len(f) \in Nat /\ n = Len(m)
      BY <2>1, <2>3, <2>5
    <3>2. Len(got) = Len(m)
      BY <2>7, <2>8, <3>1
    <3> QED BY <2>7, <2>8, <3>1, <3>2
  <2>10. got = m
    BY <2>3, <2>8, <2>9
  <2> QED BY <2>10 DEF m
<1> QED BY <1>1, ContentInvariant, PTL
=============================================================================
