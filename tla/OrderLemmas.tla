-------------------------------- MODULE OrderLemmas --------------------------------
(***************************************************************************)
(* Facts about the naturals and finite sets that several of the proofs     *)
(* rest on: the least number of a set, the greatest of a finite one, the   *)
(* enumeration of a finite set in ascending order, functions defined by    *)
(* recursion over an interval, and sums over finite sets.  The least       *)
(* number stands for induction: it follows from the subsets of a finite    *)
(* set being well-founded, a fact without operator parameters.             *)
(***************************************************************************)
EXTENDS Integers, FiniteSetTheorems, TLAPS

LEMMA LeastExists ==
  ASSUME NEW S, S \subseteq Nat, S # {}
  PROVE  \E m \in S : \A k \in S : m <= k
<1> DEFINE Initial == {1 .. m : m \in S}
           R == StrictSubsetOrdering(Nat)
<1>1. Initial \subseteq FiniteSubsetsOf(Nat)
  <2> SUFFICES ASSUME NEW m \in S
               PROVE  1 .. m \in FiniteSubsetsOf(Nat)
    OBVIOUS
  <2> QED
    BY FS_Interval DEF FiniteSubsetsOf
<1>2. IsWellFoundedOn(R, FiniteSubsetsOf(Nat))
  BY FS_StrictSubsetOrderingWellFounded
<1>3. Initial # {}
  OBVIOUS
<1>4. PICK x \in Initial : \A y \in Initial : <<y, x>> \notin R
  BY <1>1, <1>2, <1>3, WFMin
<1>5. PICK m \in S : x = 1 .. m
  OBVIOUS
<1>6. ASSUME NEW k \in S, k < m
      PROVE  FALSE
  <2>1. m \in Nat /\ k \in Nat /\ 1 .. k \in Initial
    BY <1>6
  <2>2. 1 .. k \subseteq 1 .. m /\ m \in 1 .. m /\ m \notin 1 .. k
    BY <1>6, <2>1
  <2>3. <<1 .. k, 1 .. m>> \in R
    BY <2>2 DEF StrictSubsetOrdering
  <2> QED
    BY <1>4, <1>5, <2>1, <2>3
<1>7. \A k \in S : m <= k
  BY <1>6
<1> QED
  BY <1>7

(* Induction over an interval, for what holds of the numbers in a set.     *)
LEMMA IntervalInduction ==
  ASSUME NEW n \in Nat, NEW H, 0 \in H, \A k \in 0 .. n - 1 : k \in H => k + 1 \in H
  PROVE  0 .. n \subseteq H
<1> DEFINE Bad == (0 .. n) \ H
<1> SUFFICES ASSUME Bad # {}
             PROVE  FALSE
  OBVIOUS
<1>1. Bad \subseteq Nat
  OBVIOUS
<1>2. PICK m \in Bad : \A k \in Bad : m <= k
  BY <1>1, LeastExists
<1>3. m \in 1 .. n
  BY <1>2
<1>4. m - 1 \in H /\ m - 1 \in 0 .. n - 1 /\ (m - 1) + 1 = m
  BY <1>2, <1>3
<1> QED
  BY <1>2, <1>4

LEMMA GreatestExists ==
  ASSUME NEW n \in Nat, NEW S, S \subseteq 0 .. n, S # {}
  PROVE  \E m \in S : \A k \in S : k <= m
<1> DEFINE Down == {n - k : k \in S}
<1>0. \A k \in S : k \in 0 .. n
  OBVIOUS
<1>1. Down \subseteq Nat /\ Down # {}
  <2>1. PICK k \in S : TRUE
    OBVIOUS
  <2>2. n - k \in Down
    OBVIOUS
  <2> QED
    BY <1>0, <2>2
<1>2. PICK d \in Down : \A k \in Down : d <= k
  BY <1>1, LeastExists
<1> HIDE DEF Down
<1>3. PICK m \in S : d = n - m
  BY DEF Down
<1>4. ASSUME NEW k \in S
      PROVE  k <= m
  <2>1. n - k \in Down
    BY DEF Down
  <2>2. n - m <= n - k
    BY <1>2, <1>3, <2>1
  <2> QED
    BY <2>2
<1> QED
  BY <1>4

(* A finite set of numbers, in ascending order: a number comes after those  *)
(* below it.                                                               *)
UpTo(S, x) == {y \in S : y <= x}

LEMMA AscendingExists ==
  ASSUME NEW S, S \subseteq Nat, IsFiniteSet(S), NEW n, n = Cardinality(S)
  PROVE  \E q \in [1 .. n -> S] : \A i, j \in DOMAIN q : i < j => q[i] < q[j]
<1> DEFINE rank == [x \in S |-> Cardinality(UpTo(S, x))]
           q    == [k \in 1 .. n |-> CHOOSE x \in S : rank[x] = k]
<1>1. n \in Nat
  BY FS_CardinalityType
<1>2. ASSUME NEW x \in S
      PROVE  IsFiniteSet(UpTo(S, x)) /\ rank[x] \in 1 .. n
  <2>1. UpTo(S, x) \subseteq S /\ x \in UpTo(S, x)
    BY <1>2 DEF UpTo
  <2>2. IsFiniteSet(UpTo(S, x)) /\ Cardinality(UpTo(S, x)) <= n
    BY <2>1, FS_Subset
  <2>3. Cardinality(UpTo(S, x)) \in Nat /\ Cardinality(UpTo(S, x)) # 0
    BY <2>1, <2>2, FS_CardinalityType, FS_EmptySet
  <2> QED
    BY <1>1, <2>2, <2>3
<1>3. ASSUME NEW x \in S, NEW y \in S, x < y
      PROVE  rank[x] < rank[y]
  <2>0. x \in Nat /\ y \in Nat /\ \A z \in S : z \in Nat
    BY <1>3
  <2>4. y <= y /\ ~(y <= x) /\ \A z \in S : z <= x => z <= y
    BY <1>3, <2>0
  <2>1. UpTo(S, x) \subseteq UpTo(S, y) /\ y \in UpTo(S, y) /\ y \notin UpTo(S, x)
    BY ONLY <2>4, x \in S, y \in S DEF UpTo
  <2>2. IsFiniteSet(UpTo(S, y)) /\ rank[x] \in Nat /\ rank[y] \in Nat
    BY <1>1, <1>2
  <2>3. rank[x] <= rank[y] /\ rank[x] # rank[y]
    BY <2>1, <2>2, FS_Subset
  <2> QED
    BY <2>2, <2>3
<1>4. rank \in [S -> 1 .. n]
  BY <1>2
<1> HIDE DEF rank
<1>5. \A x, y \in S : rank[x] = rank[y] => x = y
  <2> SUFFICES ASSUME NEW x \in S, NEW y \in S, rank[x] = rank[y]
               PROVE  x = y
    OBVIOUS
  <2>1. rank[x] \in Nat /\ rank[y] \in Nat /\ x \in Nat /\ y \in Nat
    BY <1>1, <1>4
  <2>2. ~(x < y) /\ ~(y < x)
    BY <1>3, <2>1
  <2> QED
    BY <2>1, <2>2
<1>6. rank \in Injection(S, 1 .. n)
  BY <1>4, <1>5 DEF Injection, IsInjective
<1>7. IsFiniteSet(1 .. n) /\ Cardinality(1 .. n) = n
  BY <1>1, FS_Interval
<1>8. rank \in Surjection(S, 1 .. n)
  BY <1>6, <1>7, FS_Injection
<1>9. \A k \in 1 .. n : q[k] \in S /\ rank[q[k]] = k
  BY <1>8 DEF Surjection
<1>10. q \in [1 .. n -> S]
  BY <1>9
<1> HIDE DEF q
<1>11. ASSUME NEW i \in 1 .. n, NEW j \in 1 .. n, i < j
       PROVE  q[i] < q[j]
  <2>1. q[i] \in S /\ q[j] \in S /\ q[i] \in Nat /\ q[j] \in Nat /\ rank[q[i]] = i /\ rank[q[j]] = j
    BY <1>9
  <2>2. ~(q[j] < q[i]) /\ q[i] # q[j]
    BY <1>1, <1>3, <1>11, <2>1
  <2> QED
    BY <2>1, <2>2
<1> QED
  BY <1>10, <1>11

(* A set of subsets of a finite set has a member with no smaller one in it. *)
LEMMA MinimalExists ==
  ASSUME NEW F, IsFiniteSet(F), NEW C, C \subseteq SUBSET F, C # {}
  PROVE  \E T \in C : \A U \in C : U \subseteq T => U = T
<1> DEFINE R == StrictSubsetOrdering(F)
<1>1. IsWellFoundedOn(R, SUBSET F)
  <2>1. IsWellFoundedOn(R, FiniteSubsetsOf(F)) /\ FiniteSubsetsOf(F) = SUBSET F
    BY FS_StrictSubsetOrderingWellFounded, FS_FiniteSubsetsOfFinite
  <2> QED
    BY <2>1
<1>2. PICK T \in C : \A U \in C : <<U, T>> \notin R
  BY <1>1, WFMin
<1>3. ASSUME NEW U \in C, U \subseteq T, U # T
      PROVE  FALSE
  <2>1. PICK x \in T : x \notin U
    BY <1>3
  <2>2. <<U, T>> \in R
    BY <1>3, <2>1 DEF StrictSubsetOrdering
  <2> QED
    BY <1>2, <2>2
<1> QED
  BY <1>3

(* Functions defined by recursion over an interval.                        *)
Recurs(f, n, base, step) ==
  f[0] = base /\ \A k \in 1 .. n : f[k] = step[<<f[k - 1], k>>]

LEMMA RecursionExists ==
  ASSUME NEW n \in Nat, NEW D, NEW base \in D, NEW step \in [D \X (1 .. n) -> D]
  PROVE  \E f \in [0 .. n -> D] : Recurs(f, n, base, step)
<1> DEFINE H == {m \in 0 .. n : \E f \in [0 .. m -> D] : Recurs(f, m, base, step)}
<1>1. 0 \in H
  <2>1. [k \in 0 .. 0 |-> base] \in [0 .. 0 -> D]
    OBVIOUS
  <2>2. Recurs([k \in 0 .. 0 |-> base], 0, base, step)
    BY DEF Recurs
  <2> QED
    BY <2>1, <2>2
<1>2. ASSUME NEW m \in 0 .. n - 1, m \in H
      PROVE  m + 1 \in H
  <2>1. PICK f \in [0 .. m -> D] : Recurs(f, m, base, step)
    BY <1>2
  <2> DEFINE g == [k \in 0 .. m + 1 |-> IF k = m + 1 THEN step[<<f[m], m + 1>>] ELSE f[k]]
  <2>2. m \in Nat /\ m + 1 \in 1 .. n /\ f[m] \in D /\ <<f[m], m + 1>> \in D \X (1 .. n)
    BY <2>1
  <2>3. step[<<f[m], m + 1>>] \in D
    BY <2>2
  <2>4. g \in [0 .. m + 1 -> D]
    BY <2>1, <2>2, <2>3
  <2>5. g[0] = f[0] /\ g[m + 1] = step[<<f[m], m + 1>>] /\ \A k \in 0 .. m : g[k] = f[k]
    BY <2>2
  <2>6. \A k \in 1 .. m + 1 : k = m + 1 \/ (k \in 1 .. m /\ k \in 0 .. m /\ k - 1 \in 0 .. m)
    BY <2>2
  <2>7. (m + 1) - 1 = m /\ m \in 0 .. m
    BY <2>2
  <2> HIDE DEF g
  <2>8. Recurs(g, m + 1, base, step)
    BY <2>1, <2>5, <2>6, <2>7 DEF Recurs
  <2> QED
    BY <2>2, <2>4, <2>8
<1>3. 0 .. n \subseteq H
  <2> HIDE DEF H
  <2>1. \A m \in 0 .. n - 1 : m \in H => m + 1 \in H
    BY <1>2
  <2> QED
    BY ONLY n \in Nat, <1>1, <2>1, IntervalInduction
<1>4. n \in H
  <2>1. n \in 0 .. n
    OBVIOUS
  <2> QED
    BY ONLY <1>3, <2>1
<1> QED
  BY <1>4

(* The sums of the first k numbers, for each k.                            *)
Sums(f, n, a) == f = [k \in 0 .. n |-> IF k = 0 THEN 0 ELSE f[k - 1] + a[k]]

LEMMA SumsExist ==
  ASSUME NEW n \in Nat, NEW a, \A k \in 1 .. n : a[k] \in Nat
  PROVE  \E f \in [0 .. n -> Nat] : Sums(f, n, a)
<1> DEFINE step == [p \in Nat \X (1 .. n) |-> p[1] + a[p[2]]]
<1>1. step \in [Nat \X (1 .. n) -> Nat]
  OBVIOUS
<1>2. \A x \in Nat, k \in 1 .. n : step[<<x, k>>] = x + a[k]
  OBVIOUS
<1> HIDE DEF step
<1>3. PICK f \in [0 .. n -> Nat] : Recurs(f, n, 0, step)
  BY <1>1, RecursionExists
<1>4. ASSUME NEW k \in 0 .. n
      PROVE  f[k] = IF k = 0 THEN 0 ELSE f[k - 1] + a[k]
  <2>1. CASE k = 0
    BY <1>3, <2>1 DEF Recurs
  <2>2. CASE k # 0
    <3>1. k \in 1 .. n /\ k - 1 \in 0 .. n
      BY <2>2
    <3>2. f[k - 1] \in Nat
      BY <1>3, <3>1
    <3>3. f[k] = step[<<f[k - 1], k>>]
      BY <1>3, <3>1 DEF Recurs
    <3> QED
      BY <1>2, <2>2, <3>1, <3>2, <3>3
  <2> QED
    BY <2>1, <2>2
<1>5. f = [k \in 0 .. n |-> IF k = 0 THEN 0 ELSE f[k - 1] + a[k]]
  BY <1>3, <1>4
<1> QED
  BY <1>3, <1>5 DEF Sums

LEMMA SumsAre ==
  ASSUME NEW n \in Nat, NEW a, \A k \in 1 .. n : a[k] \in Nat, NEW f, Sums(f, n, a)
  PROVE  /\ f \in [0 .. n -> Nat] /\ f[0] = 0
         /\ \A k \in 1 .. n : f[k] = f[k - 1] + a[k]
<1> DEFINE H == {k \in 0 .. n : f[k] \in Nat}
<1>1. DOMAIN f = 0 .. n /\ f = [k \in 0 .. n |-> f[k]]
  BY DEF Sums
<1>2. f[0] = 0
  BY DEF Sums
<1>3. \A k \in 1 .. n : f[k] = f[k - 1] + a[k]
  <2> SUFFICES ASSUME NEW k \in 1 .. n
               PROVE  f[k] = f[k - 1] + a[k]
    OBVIOUS
  <2>1. k \in 0 .. n /\ k # 0
    OBVIOUS
  <2> QED
    BY <2>1 DEF Sums
<1>4. 0 \in H
  BY <1>2
<1>5. ASSUME NEW k \in 0 .. n - 1, k \in H
      PROVE  k + 1 \in H
  <2>1. k + 1 \in 1 .. n /\ k + 1 \in 0 .. n /\ (k + 1) - 1 = k
    OBVIOUS
  <2>2. f[k + 1] = f[k] + a[k + 1]
    BY <1>3, <2>1
  <2> QED
    BY <1>5, <2>1, <2>2
<1>6. 0 .. n \subseteq H
  <2> HIDE DEF H
  <2>1. \A k \in 0 .. n - 1 : k \in H => k + 1 \in H
    BY <1>5
  <2> QED
    BY ONLY n \in Nat, <1>4, <2>1, IntervalInduction
<1>7. \A k \in 0 .. n : f[k] \in Nat
  BY <1>6
<1> QED
  BY <1>1, <1>2, <1>3, <1>7

===============================================================================
