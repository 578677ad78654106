---------------------------- MODULE SharedFacts -----------------------------
(***************************************************************************)
(* Facts the proofs share: about natural numbers, about running sums,      *)
(* about finite sets in the order of a key, and about what decompose and   *)
(* the counts of calls give for every number of processes, every size and  *)
(* every chunk.                                                            *)
(***************************************************************************)
EXTENDS Decompose, Chunking, Sequences, FiniteSetsExt, FiniteSetTheorems,
        WellFoundedInduction, TLAPS

-----------------------------------------------------------------------------
(***************************************************************************)
(* A set of naturals that is not empty has a least element.                *)
(***************************************************************************)
LEMMA LeastNat ==
  ASSUME NEW T \in SUBSET Nat, T # {}
  PROVE  \E x \in T : \A y \in T : x <= y
<1> DEFINE R == OpToRel(<, Nat)
<1>1. \E x \in T : \A y \in T : ~(<<y, x>> \in R)
  BY NatLessThanWellFounded, WFMin
<1>2. \A x, y \in T : y < x => <<y, x>> \in R
  BY DEF OpToRel
<1> HIDE DEF R
<1>3. PICK x \in T : \A y \in T : ~(<<y, x>> \in R)
  BY <1>1
<1>4. \A y \in T : ~(y < x)
  BY <1>2, <1>3
<1>5. \A y \in T : x <= y
  BY <1>4
<1> QED BY <1>5

(***************************************************************************)
(* A set of naturals with a bound, that is not empty, has a greatest       *)
(* element.                                                                *)
(***************************************************************************)
LEMMA GreatestNat ==
  ASSUME NEW T \in SUBSET Nat, T # {}, NEW b \in Nat, \A x \in T : x <= b
  PROVE  \E x \in T : \A y \in T : y <= x
<1> DEFINE U == {b - x : x \in T}
<1>1. U \in SUBSET Nat /\ U # {}
  <2>1. ASSUME NEW x \in T
        PROVE  b - x \in Nat
    OBVIOUS
  <2>2. PICK x \in T : TRUE
    OBVIOUS
  <2>3. b - x \in U
    OBVIOUS
  <2> QED BY <2>1, <2>3
<1>2. PICK u \in U : \A v \in U : u <= v
  BY <1>1, LeastNat
<1>3. PICK x \in T : u = b - x
  OBVIOUS
<1>4. ASSUME NEW y \in T
      PROVE  y <= x
  <2>1. b - x <= b - y
    BY <1>2, <1>3
  <2>2. x \in Nat /\ y \in Nat
    OBVIOUS
  <2> QED BY <2>1, <2>2
<1> QED BY <1>4

(***************************************************************************)
(* Division with a positive divisor.                                       *)
(***************************************************************************)
LEMMA DivFacts ==
  ASSUME NEW n \in Nat, NEW m \in Nat \ {0}
  PROVE  /\ n \div m \in Nat /\ n % m \in Nat
         /\ n = m * (n \div m) + (n % m)
         /\ n % m < m
  BY SMT

\* The product with a positive factor is not smaller.
LEMMA TimesPositive ==
  ASSUME NEW a \in Nat, NEW k \in Nat, k > 0
  PROVE  a * k \in Nat /\ a <= a * k
  BY SMT

LEMMA TimesNat ==
  ASSUME NEW a \in Nat, NEW k \in Nat
  PROVE  a * k \in Nat
  BY SMT

LEMMA TimesStep ==
  ASSUME NEW a \in Nat, NEW j \in Nat, NEW k \in Nat, j < k
  PROVE  a * j + a <= a * k
  BY SMT

LEMMA TimesMonotone ==
  ASSUME NEW a \in Nat, NEW j \in Nat, NEW k \in Nat, j <= k
  PROVE  a * j <= a * k
  BY SMT

(***************************************************************************)
(* Quotient and remainder are unique.                                      *)
(***************************************************************************)
LEMMA DivUnique ==
  ASSUME NEW n \in Nat, NEW m \in Nat \ {0}, NEW q \in Nat, NEW r \in Nat,
         n = m * q + r, r < m
  PROVE  n \div m = q /\ n % m = r
  BY SMT

-----------------------------------------------------------------------------
(***************************************************************************)
(* What the recursive definition of a sum gives, for any numbers added.    *)
(***************************************************************************)
LEMMA SumExists ==
  ASSUME NEW d \in [Nat -> Nat]
  PROVE  \E f \in [Nat -> Nat] : f = [k \in Nat |-> IF k = 0 THEN 0 ELSE f[k - 1] + d[k - 1]]
<1> DEFINE Upto(g, n) == /\ g[0] = 0
                         /\ \A k \in 1 .. n : g[k] = g[k - 1] + d[k - 1]
           Has(n) == \E g \in [0 .. n -> Nat] : Upto(g, n)
<1>1. Has(0)
  <2> DEFINE g == [k \in 0 .. 0 |-> 0]
  <2>1. g \in [0 .. 0 -> Nat] /\ Upto(g, 0)
    OBVIOUS
  <2> QED BY <2>1
<1>2. ASSUME NEW n \in Nat, Has(n)
      PROVE  Has(n + 1)
  <2>1. PICK g \in [0 .. n -> Nat] : Upto(g, n)
    BY <1>2
  <2> DEFINE h == [k \in 0 .. n + 1 |-> IF k = n + 1 THEN g[n] + d[n] ELSE g[k]]
  <2>2. /\ 0 \in 0 .. n /\ n \in 0 .. n /\ n + 1 # 0
        /\ \A k \in 0 .. n + 1 : k # n + 1 => k \in 0 .. n
        /\ \A k \in 1 .. n + 1 : k # n + 1 => k \in 1 .. n
        /\ \A k \in 1 .. n + 1 : k - 1 \in 0 .. n /\ k - 1 # n + 1 /\ k \in 0 .. n + 1
    OBVIOUS
  <2>3. g[n] + d[n] \in Nat /\ \A k \in 0 .. n : g[k] \in Nat
    <3>1. g \in [0 .. n -> Nat]
      BY <2>1
    <3>2. g[n] \in Nat /\ d[n] \in Nat
      BY <3>1, <2>2
    <3>3. g[n] + d[n] \in Nat
      BY ONLY <3>2
    <3> QED BY <3>1, <3>3
  <2>4. h \in [0 .. n + 1 -> Nat]
    BY <2>2, <2>3
  <2>5. /\ h[n + 1] = g[n] + d[n]
        /\ \A k \in 0 .. n : h[k] = g[k]
    <3>1. n + 1 \in 0 .. n + 1
      OBVIOUS
    <3>2. \A k \in 0 .. n : k \in 0 .. n + 1 /\ k # n + 1
      OBVIOUS
    <3> QED BY <3>1, <3>2
  <2> HIDE DEF h
  <2>6. ASSUME NEW k \in 1 .. n + 1
        PROVE  h[k] = h[k - 1] + d[k - 1]
    <3>1. CASE k = n + 1
      <4>1. k - 1 = n
        BY <3>1
      <4> QED BY <3>1, <4>1, <2>2, <2>5
    <3>2. CASE k # n + 1
      <4>1. k \in 1 .. n /\ k \in 0 .. n /\ k - 1 \in 0 .. n
        BY <3>2, <2>2
      <4> QED BY <4>1, <2>1, <2>5
    <3> QED BY <3>1, <3>2
  <2>7. Upto(h, n + 1)
    BY <2>1, <2>2, <2>5, <2>6
  <2> QED BY <2>4, <2>7
<1>3. \A n \in Nat : Has(n)
  <2> DEFINE Missing == {n \in Nat : ~Has(n)}
  <2> SUFFICES ASSUME Missing # {} PROVE FALSE
    OBVIOUS
  <2> HIDE DEF Has
  <2>1. PICK m \in Missing : \A x \in Missing : m <= x
    BY LeastNat
  <2>2. m # 0 /\ m - 1 \in Nat /\ m = (m - 1) + 1
    BY <1>1
  <2>3. Has(m - 1)
    BY <2>1, <2>2
  <2> QED BY <2>2, <2>3, <1>2
<1> DEFINE part == [n \in Nat |-> CHOOSE g \in [0 .. n -> Nat] : Upto(g, n)]
<1>4. \A n \in Nat : part[n] \in [0 .. n -> Nat] /\ Upto(part[n], n)
  BY <1>3
<1> HIDE DEF part
<1>5. ASSUME NEW n \in Nat
      PROVE  \A k \in 0 .. n : part[n + 1][k] = part[n][k]
  <2> DEFINE Wrong == {k \in 0 .. n : part[n + 1][k] # part[n][k]}
  <2> SUFFICES ASSUME Wrong # {} PROVE FALSE
    OBVIOUS
  <2>0. Wrong \in SUBSET Nat
    OBVIOUS
  <2>1. PICK m \in Wrong : \A x \in Wrong : m <= x
    BY <2>0, LeastNat
  <2>2. n + 1 \in Nat /\ m \in 0 .. n /\ part[n + 1][m] # part[n][m]
    OBVIOUS
  <2>3. /\ part[n][0] = 0 /\ part[n + 1][0] = 0
        /\ \A k \in 1 .. n : part[n][k] = part[n][k - 1] + d[k - 1]
        /\ \A k \in 1 .. n + 1 : part[n + 1][k] = part[n + 1][k - 1] + d[k - 1]
    BY <1>4, <2>2
  <2>4. m # 0
    BY <2>2, <2>3
  <2>5. m - 1 \in 0 .. n /\ m \in 1 .. n /\ m \in 1 .. n + 1 /\ ~(m <= m - 1)
    BY <2>2, <2>4
  <2>6. part[n + 1][m - 1] = part[n][m - 1]
    BY <2>1, <2>5
  <2> QED BY <2>2, <2>3, <2>5, <2>6
<1> DEFINE f == [n \in Nat |-> part[n][n]]
<1>6. f \in [Nat -> Nat]
  <2>1. ASSUME NEW n \in Nat
        PROVE  part[n][n] \in Nat
    <3>1. part[n] \in [0 .. n -> Nat] /\ n \in 0 .. n
      BY <1>4
    <3> QED BY <3>1
  <2> QED BY <2>1
<1>7. ASSUME NEW n \in Nat
      PROVE  f[n] = IF n = 0 THEN 0 ELSE f[n - 1] + d[n - 1]
  <2>1. CASE n = 0
    BY <2>1, <1>4
  <2>2. CASE n # 0
    <3>1. n - 1 \in Nat /\ (n - 1) + 1 = n /\ n - 1 \in 0 .. n - 1 /\ n \in 1 .. n
      BY <2>2
    <3>2. part[n][n - 1] = part[n - 1][n - 1]
      BY <3>1, <1>5
    <3>3. part[n][n] = part[n][n - 1] + d[n - 1]
      BY <3>1, <1>4
    <3> QED BY <2>2, <3>1, <3>2, <3>3
  <2> QED BY <2>1, <2>2
<1> QED BY <1>6, <1>7

LEMMA SumStep ==
  ASSUME NEW v, \A k \in DOMAIN v : v[k] \in Nat
  PROVE  /\ SumBelow(v, 0) = 0
         /\ \A n \in Nat :
              /\ SumBelow(v, n) \in Nat
              /\ SumBelow(v, n + 1) = SumBelow(v, n) + (IF n \in DOMAIN v THEN v[n] ELSE 0)
<1> DEFINE d == [k \in Nat |-> IF k \in DOMAIN v THEN v[k] ELSE 0]
           IsSum(s) == s = [k \in Nat |-> IF k = 0 THEN 0
                              ELSE s[k - 1] + (IF k - 1 \in DOMAIN v THEN v[k - 1] ELSE 0)]
           sum == CHOOSE s : IsSum(s)
<1>1. d \in [Nat -> Nat]
  OBVIOUS
<1>2. PICK f \in [Nat -> Nat] : f = [k \in Nat |-> IF k = 0 THEN 0 ELSE f[k - 1] + d[k - 1]]
  BY <1>1, SumExists
<1>3. \A n \in Nat : SumBelow(v, n) = sum[n]
  BY DEF SumBelow
<1>4. \A k \in Nat : k # 0 => d[k - 1] = IF k - 1 \in DOMAIN v THEN v[k - 1] ELSE 0
  OBVIOUS
<1>5. IsSum(f)
  BY <1>2, <1>4
<1>6. IsSum(sum)
  BY <1>5
<1> HIDE DEF sum, d
<1>7. sum[0] = 0
  BY <1>6
<1>8. \A n \in Nat : sum[n + 1] = sum[n] + (IF n \in DOMAIN v THEN v[n] ELSE 0)
  BY <1>6
<1>9. \A n \in Nat : sum[n] \in Nat
  <2> DEFINE Wrong == {n \in Nat : sum[n] \notin Nat}
  <2> SUFFICES ASSUME Wrong # {} PROVE FALSE
    OBVIOUS
  <2>1. PICK m \in Wrong : \A x \in Wrong : m <= x
    BY LeastNat
  <2>2. m # 0 /\ m - 1 \in Nat /\ (m - 1) + 1 = m
    BY <1>7
  <2>3. sum[m - 1] \in Nat
    BY <2>1, <2>2
  <2> HIDE DEF Wrong
  <2>4. (IF m - 1 \in DOMAIN v THEN v[m - 1] ELSE 0) \in Nat
    OBVIOUS
  <2>5. sum[m] = sum[m - 1] + (IF m - 1 \in DOMAIN v THEN v[m - 1] ELSE 0)
    BY <2>2, <1>8
  <2>6. sum[m] \in Nat
    BY <2>3, <2>4, <2>5
  <2> QED BY <2>6 DEF Wrong
<1> HIDE DEF IsSum
<1> QED BY <1>3, <1>7, <1>8, <1>9

(***************************************************************************)
(* Running sums ascend, and each place below the total lies in one summand.*)
(***************************************************************************)
LEMMA SumMonotone ==
  ASSUME NEW v, \A k \in DOMAIN v : v[k] \in Nat,
         NEW m \in Nat, NEW n \in Nat, m <= n
  PROVE  /\ SumBelow(v, m) <= SumBelow(v, n)
         /\ m \in DOMAIN v /\ m < n => SumBelow(v, m) + v[m] <= SumBelow(v, n)
<1> DEFINE S(k) == SumBelow(v, k)
<1>1. \A k \in Nat : S(k) \in Nat /\ S(k) <= S(k + 1)
  <2> SUFFICES ASSUME NEW k \in Nat
               PROVE  S(k) \in Nat /\ S(k) <= S(k + 1)
    OBVIOUS
  <2>1. S(k) \in Nat /\ S(k + 1) = S(k) + (IF k \in DOMAIN v THEN v[k] ELSE 0)
    BY SumStep
  <2>2. (IF k \in DOMAIN v THEN v[k] ELSE 0) \in Nat
    OBVIOUS
  <2> HIDE DEF S
  <2> QED BY <2>1, <2>2
<1> HIDE DEF S
<1>2. \A a, b \in Nat : a <= b => S(a) <= S(b)
  <2> SUFFICES ASSUME NEW a \in Nat
               PROVE  \A b \in Nat : a <= b => S(a) <= S(b)
    OBVIOUS
  <2> DEFINE Wrong == {b \in Nat : a <= b /\ ~(S(a) <= S(b))}
  <2> SUFFICES ASSUME Wrong # {} PROVE FALSE
    OBVIOUS
  <2>1. PICK b \in Wrong : \A x \in Wrong : b <= x
    BY LeastNat
  <2>2. b # a /\ b \in Nat /\ a <= b
    BY <1>1
  <2>3. b - 1 \in Nat /\ a <= b - 1 /\ (b - 1) + 1 = b
    BY <2>2
  <2>4. S(a) <= S(b - 1)
    BY <2>1, <2>3
  <2>5. S(b - 1) <= S(b) /\ S(a) \in Nat /\ S(b) \in Nat /\ S(b - 1) \in Nat
    BY <2>3, <1>1
  <2>6. S(a) <= S(b)
    BY <2>4, <2>5
  <2> QED BY <2>6
<1>3. SumBelow(v, m) <= SumBelow(v, n)
  BY <1>2 DEF S
<1>4. ASSUME m \in DOMAIN v, m < n
      PROVE  SumBelow(v, m) + v[m] <= SumBelow(v, n)
  <2>1. SumBelow(v, m + 1) = SumBelow(v, m) + v[m]
    BY <1>4, SumStep
  <2>2. SumBelow(v, m + 1) <= SumBelow(v, n)
    <3>1. m + 1 \in Nat /\ m + 1 <= n
      BY <1>4
    <3> QED BY <3>1, <1>2 DEF S
  <2> QED BY <2>1, <2>2
<1> QED BY <1>3, <1>4

LEMMA SumFind ==
  ASSUME NEW v, \A k \in DOMAIN v : v[k] \in Nat,
         NEW n \in Nat, NEW t \in Nat, t < SumBelow(v, n)
  PROVE  \E k \in DOMAIN v : /\ k \in Nat /\ k < n
                            /\ SumBelow(v, k) <= t /\ t < SumBelow(v, k) + v[k]
<1> DEFINE Above == {k \in Nat : t < SumBelow(v, k)}
<1>1. n \in Above
  OBVIOUS
<1>2. PICK m \in Above : \A x \in Above : m <= x
  BY <1>1, LeastNat
<1>3. m # 0
  BY SumStep
<1>4. m \in Nat /\ m <= n /\ t < SumBelow(v, m)
  BY <1>1, <1>2
<1>5. m - 1 \in Nat /\ (m - 1) + 1 = m /\ m - 1 < n
  BY <1>3, <1>4
<1>6. ~(t < SumBelow(v, m - 1))
  BY <1>2, <1>5
<1>7. /\ SumBelow(v, m - 1) \in Nat
      /\ SumBelow(v, m) = SumBelow(v, m - 1) + (IF m - 1 \in DOMAIN v THEN v[m - 1] ELSE 0)
  BY <1>5, SumStep
<1>8. SumBelow(v, m - 1) <= t
  BY <1>6, <1>7
<1>9. m - 1 \in DOMAIN v
  BY <1>4, <1>7, <1>8
<1> QED BY <1>4, <1>5, <1>7, <1>8, <1>9

-----------------------------------------------------------------------------
(***************************************************************************)
(* The number of members below one, in a finite set with a strict order    *)
(* between any two members, counts the set in that order.                  *)
(***************************************************************************)
StrictOrder(T, low) ==
  /\ \A x \in T : x \notin low[x]
  /\ \A x, y, z \in T : x \in low[y] /\ y \in low[z] => x \in low[z]
  /\ \A x, y \in T : x = y \/ x \in low[y] \/ y \in low[x]

LEMMA RankingBy ==
  ASSUME NEW T, IsFiniteSet(T), NEW low \in [T -> SUBSET T], StrictOrder(T, low)
  PROVE  /\ \A x \in T : Cardinality(low[x]) \in 0 .. Cardinality(T) - 1
         /\ \A x, y \in T : /\ Cardinality(low[x]) = Cardinality(low[y]) => x = y
                            /\ x \in low[y] <=> Cardinality(low[x]) < Cardinality(low[y])
         /\ \A k \in 0 .. Cardinality(T) - 1 : \E x \in T : Cardinality(low[x]) = k
<1> DEFINE n == Cardinality(T)
           rank == [x \in T |-> Cardinality(low[x])]
<1>0. /\ \A x \in T : x \notin low[x]
      /\ \A x, y, z \in T : x \in low[y] /\ y \in low[z] => x \in low[z]
      /\ \A x, y \in T : x = y \/ x \in low[y] \/ y \in low[x]
  BY DEF StrictOrder
<1>1. n \in Nat
  BY FS_CardinalityType
<1>2. ASSUME NEW x \in T
      PROVE  /\ IsFiniteSet(low[x]) /\ rank[x] \in 0 .. n - 1
  <2>1. x \notin low[x]
    BY <1>0
  <2>2. low[x] \in SUBSET T
    OBVIOUS
  <2>3. /\ IsFiniteSet(low[x]) /\ Cardinality(low[x]) <= n /\ Cardinality(low[x]) \in Nat
        /\ Cardinality(low[x]) # n
    BY <2>1, <2>2, FS_Subset, FS_CardinalityType
  <2> QED BY <1>1, <2>3
<1>3. ASSUME NEW x \in T, NEW y \in T, x \in low[y]
      PROVE  rank[x] < rank[y]
  <2>1. /\ \A z \in low[x] : z \in low[y]
        /\ x \in low[y] /\ x \notin low[x]
    <3>1. \A z \in low[x] : z \in T
      OBVIOUS
    <3> QED BY <3>1, <1>0, <1>3
  <2>2. IsFiniteSet(low[y]) /\ IsFiniteSet(low[x])
    BY <1>2
  <2>3. /\ Cardinality(low[x]) <= Cardinality(low[y])
        /\ Cardinality(low[x]) # Cardinality(low[y])
    BY <2>1, <2>2, FS_Subset
  <2>4. Cardinality(low[x]) \in Nat /\ Cardinality(low[y]) \in Nat
    BY <2>2, FS_CardinalityType
  <2> QED BY <2>3, <2>4
<1>4. ASSUME NEW x \in T, NEW y \in T
      PROVE  /\ rank[x] = rank[y] => x = y
             /\ x \in low[y] <=> rank[x] < rank[y]
  <2>1. rank[x] \in Int /\ rank[y] \in Int
    <3>1. rank[x] \in 0 .. n - 1 /\ rank[y] \in 0 .. n - 1
      BY <1>2
    <3> HIDE DEF rank, n
    <3> QED BY <3>1, <1>1
  <2>3. x \in low[y] \/ y \in low[x] \/ x = y
    BY <1>0
  <2>4. /\ x \in low[y] => rank[x] < rank[y]
        /\ y \in low[x] => rank[y] < rank[x]
    BY <1>3
  <2> HIDE DEF rank
  <2> QED BY <2>1, <2>3, <2>4
<1>5. rank \in [T -> 0 .. n - 1]
  BY <1>2
<1> HIDE DEF rank
<1>6. rank \in Injection(T, 0 .. n - 1)
  BY <1>4, <1>5 DEF Injection, IsInjective
<1>7. IsFiniteSet(0 .. n - 1) /\ Cardinality(0 .. n - 1) = n
  <2>1. n - 1 \in Int /\ 0 \in Int
    BY <1>1
  <2>2. Cardinality(0 .. n - 1) = IF 0 > n - 1 THEN 0 ELSE (n - 1) - 0 + 1
    BY <2>1, FS_Interval
  <2> HIDE DEF n
  <2>3. Cardinality(0 .. n - 1) = n
    BY <1>1, <2>2
  <2> QED BY <2>1, <2>3, FS_Interval
<1>8. rank \in Surjection(T, 0 .. n - 1)
  BY <1>6, <1>7, FS_Injection
<1>9. \A k \in 0 .. n - 1 : \E x \in T : rank[x] = k
  BY <1>8 DEF Surjection
<1>10. \A x \in T : rank[x] = Cardinality(low[x])
  BY DEF rank
<1> QED BY <1>2, <1>4, <1>9, <1>10

\* The order may be that of a key which no two members share.
LEMMA Ranking ==
  ASSUME NEW T, IsFiniteSet(T), NEW key \in [T -> Int],
         \A x, y \in T : key[x] = key[y] => x = y,
         NEW low \in [T -> SUBSET T],
         \A x, y \in T : y \in low[x] <=> key[y] < key[x]
  PROVE  /\ \A x \in T : Cardinality(low[x]) \in 0 .. Cardinality(T) - 1
         /\ \A x, y \in T : /\ Cardinality(low[x]) = Cardinality(low[y]) => x = y
                            /\ key[x] < key[y] <=> Cardinality(low[x]) < Cardinality(low[y])
         /\ \A k \in 0 .. Cardinality(T) - 1 : \E x \in T : Cardinality(low[x]) = k
<1>1. \A x \in T : key[x] \in Int
  OBVIOUS
<1>2. StrictOrder(T, low)
  BY <1>1 DEF StrictOrder
<1> QED BY <1>2, RankingBy

\* A finite set of naturals has a greatest element.
LEMMA FiniteMax ==
  ASSUME NEW T, T \subseteq Nat, T # {}, IsFiniteSet(T)
  PROVE  \E x \in T : \A y \in T : y <= x
<1> DEFINE n == Cardinality(T)
<1>1. PICK key \in [T -> Int] : \A x \in T : key[x] = x
  <2>1. [x \in T |-> x] \in [T -> Int]
    OBVIOUS
  <2> QED BY <2>1
<1>2. PICK low \in [T -> SUBSET T] : \A x \in T : low[x] = {y \in T : y < x}
  <2>1. [x \in T |-> {y \in T : y < x}] \in [T -> SUBSET T]
    OBVIOUS
  <2> QED BY <2>1
<1>3. /\ \A x, y \in T : key[x] = key[y] => x = y
      /\ \A x, y \in T : y \in low[x] <=> key[y] < key[x]
  BY <1>1, <1>2
<1>4. \A x, y \in T : x < y <=> Cardinality(low[x]) < Cardinality(low[y])
  <2>1. \A x, y \in T : key[x] < key[y] <=> Cardinality(low[x]) < Cardinality(low[y])
    BY <1>3, Ranking
  <2> QED BY <1>1, <2>1
<1>5. /\ \A x \in T : Cardinality(low[x]) \in 0 .. Cardinality(T) - 1
      /\ \A k \in 0 .. Cardinality(T) - 1 : \E x \in T : Cardinality(low[x]) = k
  BY ONLY IsFiniteSet(T), <1>3, Ranking
<1>6. n \in Nat /\ n > 0
  BY FS_CardinalityType, FS_EmptySet
<1>7. PICK x \in T : Cardinality(low[x]) = n - 1
  BY <1>5, <1>6
<1>8. ASSUME NEW y \in T
      PROVE  y <= x
  <2>1. ~(Cardinality(low[x]) < Cardinality(low[y]))
    BY <1>5, <1>6, <1>7
  <2>2. ~(x < y)
    BY <1>4, <2>1
  <2> QED BY <2>2
<1> QED BY <1>8

(***************************************************************************)
(* A sequence that has at each place the member with as many below it is   *)
(* the set in its order: every member once.                                *)
(***************************************************************************)
Ordering(s, T, low) ==
  /\ s \in Seq(T) /\ Len(s) = Cardinality(T) /\ Cardinality(T) \in Nat
  /\ \A j, k \in 1 .. Cardinality(T) : /\ j < k <=> s[j] \in low[s[k]]
                                       /\ s[j] = s[k] => j = k
  /\ \A e \in T : \E k \in 1 .. Cardinality(T) : s[k] = e

LEMMA OrderedBy ==
  ASSUME NEW T, IsFiniteSet(T), NEW low \in [T -> SUBSET T], StrictOrder(T, low),
         NEW s, s = [k \in 1 .. Cardinality(T) |-> s[k]],
         \A k \in 1 .. Cardinality(T) : (\E e \in T : Cardinality(low[e]) = k - 1) =>
           s[k] \in T /\ Cardinality(low[s[k]]) = k - 1
  PROVE  Ordering(s, T, low)
<1> DEFINE n == Cardinality(T)
<1>1. n \in Nat
  BY FS_CardinalityType
<1>2. /\ \A x \in T : Cardinality(low[x]) \in 0 .. n - 1
      /\ \A x, y \in T : /\ Cardinality(low[x]) = Cardinality(low[y]) => x = y
                         /\ x \in low[y] <=> Cardinality(low[x]) < Cardinality(low[y])
      /\ \A k \in 0 .. n - 1 : \E x \in T : Cardinality(low[x]) = k
  BY RankingBy
<1> HIDE DEF n
<1>3. ASSUME NEW k \in 1 .. n
      PROVE  s[k] \in T /\ Cardinality(low[s[k]]) = k - 1
  <2>1. k - 1 \in 0 .. n - 1
    BY <1>1
  <2> QED BY <1>2, <2>1 DEF n
<1>4. s \in Seq(T) /\ Len(s) = n
  <2>1. s = [k \in 1 .. n |-> s[k]]
    BY DEF n
  <2>2. s \in [1 .. n -> T]
    BY <1>3, <2>1
  <2> QED BY ONLY <1>1, <2>2
<1>5. ASSUME NEW j \in 1 .. n, NEW k \in 1 .. n
      PROVE  (j < k <=> s[j] \in low[s[k]]) /\ (s[j] = s[k] => j = k)
  <2>1. /\ s[j] \in T /\ Cardinality(low[s[j]]) = j - 1
        /\ s[k] \in T /\ Cardinality(low[s[k]]) = k - 1
    BY <1>3
  <2>2. s[j] \in low[s[k]] <=> j - 1 < k - 1
    BY <1>2, <2>1
  <2>3. s[j] = s[k] => j - 1 = k - 1
    BY <2>1
  <2>4. (j < k <=> j - 1 < k - 1) /\ (j - 1 = k - 1 => j = k)
    BY <1>1
  <2> QED BY <2>2, <2>3, <2>4
<1>6. ASSUME NEW e \in T
      PROVE  \E k \in 1 .. n : s[k] = e
  <2> DEFINE c == Cardinality(low[e])
  <2>1. c \in 0 .. n - 1
    BY <1>2
  <2> HIDE DEF c
  <2>2. c + 1 \in 1 .. n /\ (c + 1) - 1 = c
    BY <1>1, <2>1
  <2>3. s[c + 1] \in T /\ Cardinality(low[s[c + 1]]) = c
    BY <1>3, <2>2
  <2>4. s[c + 1] = e
    BY <1>2, <2>3 DEF c
  <2> QED BY <2>2, <2>4
<1> QED BY <1>1, <1>4, <1>5, <1>6 DEF Ordering, n

-----------------------------------------------------------------------------
(***************************************************************************)
(* The end of the items that are left never cuts a share: each is the      *)
(* quotient, and one more on the first processes.                          *)
(***************************************************************************)
LEMMA ShareIs ==
  ASSUME NEW sz \in Nat, NEW r \in Rank
  PROVE  /\ r \in Nat /\ sz \div NumRank \in Nat /\ sz % NumRank \in Nat
         /\ First(sz, r) \in Nat
         /\ Share(sz, r) = (sz \div NumRank) + (IF r < sz % NumRank THEN 1 ELSE 0)
         /\ First(sz, r) + Share(sz, r) = First(sz, r + 1)
         /\ First(sz, r + 1) <= sz
<1> DEFINE q == sz \div NumRank
           m == sz % NumRank
           one == IF r < m THEN 1 ELSE 0
<1>1. /\ q \in Nat /\ m \in Nat /\ m < NumRank /\ sz = NumRank * q + m
      /\ NumRank \in Nat
  BY NumRankAssumption, DivFacts
<1>2. r \in Nat /\ r < NumRank
  BY <1>1 DEF Rank
<1> HIDE DEF q, m
<1>3. /\ Least(r, m) \in Nat /\ Least(r + 1, m) \in Nat
      /\ Least(r, m) + one = Least(r + 1, m) /\ Least(r + 1, m) <= m
  BY <1>1, <1>2 DEF Least
<1>4. /\ q * r \in Nat /\ q * (r + 1) = q * r + q /\ q * (r + 1) <= q * NumRank
      /\ q * NumRank = NumRank * q
  BY <1>1, <1>2, TimesMonotone
<1>5. First(sz, r) = q * r + Least(r, m) /\ First(sz, r + 1) = q * (r + 1) + Least(r + 1, m)
  BY DEF First, q, m
<1>6. First(sz, r) + (q + one) = First(sz, r + 1)
  BY <1>1, <1>3, <1>4, <1>5
<1>7. First(sz, r + 1) <= sz
  BY <1>1, <1>3, <1>4, <1>5
<1>8. Share(sz, r) = Least(sz - First(sz, r), q + one)
  BY DEF Share, q, m
<1>9. Share(sz, r) = q + one
  BY <1>1, <1>3, <1>4, <1>5, <1>6, <1>7, <1>8 DEF Least
<1> QED BY <1>1, <1>2, <1>3, <1>4, <1>5, <1>6, <1>7, <1>9 DEF q, m

(***************************************************************************)
(* The blocks decompose deals out begin at 0, lie end to end in the order  *)
(* of the ranks, and end at sz.                                            *)
(***************************************************************************)
THEOREM BlocksEndToEnd ==
  ASSUME NEW sz \in Nat, NEW r \in Rank
  PROVE  /\ First(sz, r) \in Nat /\ Share(sz, r) \in Nat
         /\ First(sz, 0) = 0
         /\ First(sz, r) + Share(sz, r) = First(sz, r + 1)
         /\ First(sz, NumRank) = sz
<1>1. /\ sz \div NumRank \in Nat /\ sz % NumRank \in Nat
      /\ sz % NumRank < NumRank /\ sz = NumRank * (sz \div NumRank) + (sz % NumRank)
      /\ NumRank \in Nat
  BY NumRankAssumption, DivFacts
<1>2. First(sz, 0) = 0
  <2>1. Least(0, sz % NumRank) = 0 /\ (sz \div NumRank) * 0 = 0
    BY <1>1 DEF Least
  <2> QED BY <2>1 DEF First
<1>3. First(sz, NumRank) = sz
  <2>1. /\ Least(NumRank, sz % NumRank) = sz % NumRank
        /\ (sz \div NumRank) * NumRank = NumRank * (sz \div NumRank)
    BY <1>1 DEF Least
  <2> QED BY <1>1, <2>1 DEF First
<1>4. Share(sz, r) \in Nat
  BY ShareIs
<1> QED BY <1>2, <1>3, <1>4, ShareIs

(***************************************************************************)
(* The shares differ by at most one, and lower ranks have the larger ones. *)
(***************************************************************************)
THEOREM SharesBalanced ==
  ASSUME NEW sz \in Nat, NEW r \in Rank, NEW s \in Rank
  PROVE  /\ Share(sz, r) <= Share(sz, s) + 1
         /\ r <= s => Share(sz, s) <= Share(sz, r)
  BY ShareIs

(***************************************************************************)
(* A block that begins later does not overlap one that begins earlier.     *)
(***************************************************************************)
LEMMA LaterBlocks ==
  ASSUME NEW sz \in Nat, NEW r \in Rank, NEW s \in Rank, r < s
  PROVE  First(sz, r) + Share(sz, r) <= First(sz, s)
<1> DEFINE q == sz \div NumRank
           m == sz % NumRank
<1>1. q \in Nat /\ m \in Nat /\ r \in Nat /\ s \in Nat
  BY ShareIs
<1>2. q * (r + 1) <= q * s /\ q * (r + 1) \in Nat /\ q * s \in Nat
  BY <1>1, TimesMonotone
<1>3. Least(r + 1, m) <= Least(s, m) /\ Least(r + 1, m) \in Nat /\ Least(s, m) \in Nat
  BY <1>1 DEF Least
<1>4. First(sz, r + 1) = q * (r + 1) + Least(r + 1, m) /\ First(sz, s) = q * s + Least(s, m)
  BY DEF First
<1> HIDE DEF q, m
<1>5. First(sz, r + 1) <= First(sz, s)
  BY <1>2, <1>3, <1>4
<1> QED BY <1>5, ShareIs

(***************************************************************************)
(* Every item has exactly one owner: no trace of a file is worked on by    *)
(* two processes, and none is left out, also when there are fewer traces   *)
(* than processes.                                                         *)
(***************************************************************************)
Owns(sz, r, t) == First(sz, r) <= t /\ t < First(sz, r) + Share(sz, r)

THEOREM OneOwner ==
  ASSUME NEW sz \in Nat, NEW t \in 0 .. sz - 1
  PROVE  \E r \in Rank : Owns(sz, r, t) /\ \A s \in Rank : Owns(sz, s, t) => s = r
<1>1. NumRank \in Nat /\ NumRank > 0 /\ t \in Nat /\ t < sz
  BY NumRankAssumption
<1> DEFINE T == {r \in Rank : First(sz, r) <= t}
<1>2. T \in SUBSET Nat /\ \A x \in T : x <= NumRank
  BY <1>1 DEF Rank
<1>3. 0 \in T
  <2>1. 0 \in Rank
    BY <1>1 DEF Rank
  <2> QED BY <1>1, <2>1, BlocksEndToEnd
<1>4. PICK r \in T : \A y \in T : y <= r
  BY <1>1, <1>2, <1>3, GreatestNat
<1>5. r \in Rank /\ First(sz, r) <= t
  OBVIOUS
<1>6. t < First(sz, r) + Share(sz, r)
  <2>1. CASE r = LastRank
    <3>1. r + 1 = NumRank
      BY <1>1, <2>1 DEF LastRank
    <3> QED BY <1>1, <1>5, <3>1, BlocksEndToEnd
  <2>2. CASE r # LastRank
    <3>1. r + 1 \in Rank
      BY <1>1, <1>5, <2>2 DEF Rank, LastRank
    <3>2. r + 1 \notin T
      BY <1>1, <1>2, <1>4
    <3>3. First(sz, r + 1) \in Nat /\ ~(First(sz, r + 1) <= t)
      BY <3>1, <3>2, BlocksEndToEnd
    <3> QED BY <1>1, <1>5, <3>3, BlocksEndToEnd
  <2> QED BY <2>1, <2>2
<1>7. ASSUME NEW s \in Rank, Owns(sz, s, t)
      PROVE  s = r
  <2>1. s \in Nat /\ r \in Nat
    BY <1>5, ShareIs
  <2>2. /\ First(sz, s) \in Nat /\ First(sz, r) \in Nat
        /\ Share(sz, s) \in Nat /\ Share(sz, r) \in Nat
    BY <1>5, BlocksEndToEnd
  <2>3. ~(s < r)
    <3>1. s < r => First(sz, s) + Share(sz, s) <= First(sz, r)
      BY <1>5, LaterBlocks
    <3> QED BY <1>1, <1>5, <1>7, <2>2, <3>1 DEF Owns
  <2>4. ~(r < s)
    <3>1. r < s => First(sz, r) + Share(sz, r) <= First(sz, s)
      BY <1>5, LaterBlocks
    <3> QED BY <1>1, <1>6, <1>7, <2>2, <3>1 DEF Owns
  <2> QED BY <2>1, <2>3, <2>4
<1> QED BY <1>5, <1>6, <1>7 DEF Owns
-----------------------------------------------------------------------------
(***************************************************************************)
(* A chunk takes one call off what is left.                                *)
(***************************************************************************)
LEMMA CallsLeft ==
  ASSUME NEW n \in Nat, NEW max \in Nat \ {0}
  PROVE  /\ Calls(n, max) \in Nat
         /\ Calls(0, max) = 0
         /\ n > 0 => Calls(n, max) = 1 + Calls(IF n < max THEN 0 ELSE n - max, max)
<1>1. Calls(n, max) \in Nat
  BY DivFacts DEF Calls
<1>2. Calls(0, max) = 0
  <2>1. 0 \div max = 0 /\ 0 % max = 0
    BY DivUnique
  <2> QED BY <2>1 DEF Calls
<1>3. ASSUME n > 0, n < max
      PROVE  Calls(n, max) = 1
  <2>1. n \div max = 0 /\ n % max = n
    BY <1>3, DivUnique
  <2> QED BY <1>3, <2>1 DEF Calls
<1>4. ASSUME ~(n < max)
      PROVE  Calls(n, max) = 1 + Calls(n - max, max)
  <2> DEFINE k == n - max
             q == k \div max
             m == k % max
  <2>1. k \in Nat
    BY <1>4
  <2>2. q \in Nat /\ m \in Nat /\ k = max * q + m /\ m < max
    BY <2>1, DivFacts
  <2> HIDE DEF q, m
  <2>3. n = max * (q + 1) + m
    BY <2>1, <2>2
  <2>4. n \div max = q + 1 /\ n % max = m
    BY <2>2, <2>3, DivUnique
  <2>5. Calls(n, max) = (q + 1) + (IF m > 0 THEN 1 ELSE 0)
    BY <2>4 DEF Calls
  <2>6. Calls(k, max) = q + (IF m > 0 THEN 1 ELSE 0)
    BY DEF Calls, q, m
  <2> QED BY <2>2, <2>5, <2>6
<1> QED BY <1>1, <1>2, <1>3, <1>4

(***************************************************************************)
(* The count of empty calls is never negative (the code computes it with   *)
(* unsigned numbers), and with them every process makes as many calls as   *)
(* the busiest one.                                                        *)
(***************************************************************************)
THEOREM SameNumberOfCalls ==
  ASSUME NEW sz \in Nat, NEW most \in Nat, sz <= most, NEW max \in Nat \ {0}
  PROVE  /\ RemCall(sz, max, most) \in Nat
         /\ Calls(sz, max) + RemCall(sz, max, most) = Calls(most, max)
<1> DEFINE q == sz \div max
           m == sz % max
           p == most \div max
           l == most % max
<1>1. q \in Nat /\ m \in Nat /\ sz = max * q + m /\ m < max
  BY DivFacts
<1>2. p \in Nat /\ l \in Nat /\ most = max * p + l /\ l < max
  BY DivFacts
<1>3. Calls(sz, max) = q + (IF m > 0 THEN 1 ELSE 0)
  BY DEF Calls
<1>4. Calls(most, max) = p + (IF l > 0 THEN 1 ELSE 0)
  BY DEF Calls
<1> HIDE DEF q, m, p, l
<1>5. q <= p
  <2>1. ASSUME p < q
        PROVE  FALSE
    <3>1. max * (p + 1) <= max * q /\ max * (p + 1) = max * p + max
      BY <1>1, <1>2, <2>1, TimesMonotone
    <3> QED BY <1>1, <1>2, <3>1
  <2> QED BY <1>1, <1>2, <2>1
<1>6. q = p => m <= l
  BY <1>1, <1>2
<1>7. Calls(sz, max) <= Calls(most, max)
  BY <1>1, <1>2, <1>3, <1>4, <1>5, <1>6
<1>8. Calls(sz, max) \in Nat /\ Calls(most, max) \in Nat
  BY <1>1, <1>2, <1>3, <1>4
<1> QED BY <1>7, <1>8 DEF RemCall

(***************************************************************************)
(* The busiest process: the sizes the processes have have a greatest one.  *)
(***************************************************************************)
LEMMA Busiest ==
  ASSUME NEW s \in [Rank -> Nat]
  PROVE  LET most == Max({s[r] : r \in Rank})
         IN  /\ most \in Nat /\ \A r \in Rank : s[r] <= most
             /\ \E r \in Rank : s[r] = most
<1> DEFINE T == {s[r] : r \in Rank}
           Bound(n, b) == \A r \in 0 .. n : s[r] <= b
           Bad == {n \in Rank : ~\E b \in Nat : Bound(n, b)}
<1>1. NumRank \in Nat /\ NumRank > 0 /\ Rank \in SUBSET Nat /\ 0 \in Rank
  BY NumRankAssumption DEF Rank
<1>2. ASSUME Bad # {}
      PROVE  FALSE
  <2>1. PICK n \in Bad : \A k \in Bad : n <= k
    BY <1>1, <1>2, LeastNat
  <2>2. n \in Nat /\ n \in Rank
    BY <1>1
  <2>3. CASE n = 0
    <3>1. Bound(0, s[0]) /\ s[0] \in Nat
      <4>1. s[0] \in Nat
        BY <1>1
      <4> QED BY <4>1
    <3> QED BY <2>1, <2>3, <3>1
  <2>4. CASE n > 0
    <3>1. n - 1 \in Rank /\ ~(n <= n - 1)
      BY <1>1, <2>2, <2>4 DEF Rank
    <3>2. n - 1 \notin Bad
      BY <2>1, <3>1
    <3>3. PICK b \in Nat : Bound(n - 1, b)
      BY <3>1, <3>2
    <3> DEFINE c == IF s[n] > b THEN s[n] ELSE b
    <3>4. s[n] \in Nat
      BY <2>2
    <3>5. c \in Nat /\ b <= c /\ s[n] <= c
      BY <3>4
    <3>6. Bound(n, c)
      <4> SUFFICES ASSUME NEW r \in 0 .. n PROVE s[r] <= c
        OBVIOUS
      <4>1. CASE r = n
        BY <3>5, <4>1
      <4>2. CASE r # n
        <5>1. r \in 0 .. n - 1 /\ r \in Rank
          BY <2>2, <4>2, NumRankAssumption DEF Rank
        <5>2. s[r] <= b /\ s[r] \in Nat
          BY <3>3, <5>1
        <5> QED BY <3>5, <5>2
      <4> QED BY <4>1, <4>2
    <3> HIDE DEF c
    <3> QED BY <2>1, <3>5, <3>6
  <2> QED BY <2>2, <2>3, <2>4
<1>3. PICK b \in Nat : Bound(NumRank - 1, b)
  <2>1. NumRank - 1 \in Rank
    BY <1>1 DEF Rank
  <2> QED BY <1>2, <2>1
<1>4. T \in SUBSET Nat /\ T # {} /\ \A x \in T : x <= b
  BY <1>1, <1>3 DEF Rank
<1> DEFINE m == Max(T)
<1>5. m \in T /\ \A x \in T : x <= m
  <2>1. PICK x \in T : \A y \in T : y <= x
    BY <1>4, GreatestNat
  <2>2. x \in T /\ \A y \in T : x >= y
    BY <1>4, <2>1
  <2>3. m \in T /\ \A y \in T : m >= y
    BY <2>2 DEF Max
  <2> QED BY <1>4, <2>3
<1>6. m \in Nat /\ (\A r \in Rank : s[r] <= m) /\ \E r \in Rank : s[r] = m
  BY <1>4, <1>5
<1> QED BY <1>6

(***************************************************************************)
(* A list in ascending order has every number of its set, and none twice.  *)
(***************************************************************************)
Upward(s, M) == s = [k \in 1 .. Cardinality(M) |->
                          CHOOSE e \in M : Cardinality({d \in M : d < e}) = k - 1]

LEMMA UpwardIs ==
  ASSUME NEW M \in SUBSET Nat, IsFiniteSet(M), NEW s, Upward(s, M)
  PROVE  /\ s \in Seq(M) /\ Len(s) \in Nat /\ DOMAIN s = 1 .. Len(s)
         /\ \A e \in M : \E k \in 1 .. Len(s) : s[k] = e
         /\ \A j, k \in 1 .. Len(s) : s[j] = s[k] => j = k
<1> DEFINE low == [e \in M |-> {d \in M : d < e}]
<1>1. \A d, e \in M : d \in low[e] <=> d < e
  OBVIOUS
<1>2. \A e \in M : low[e] = {d \in M : d < e}
  OBVIOUS
<1>3. low \in [M -> SUBSET M]
  OBVIOUS
<1> HIDE DEF low
<1>4. StrictOrder(M, low)
  <2>1. \A e \in M : e \notin low[e]
    BY <1>1
  <2>2. \A d, e, f \in M : d \in low[e] /\ e \in low[f] => d \in low[f]
    BY <1>1
  <2>3. ASSUME NEW d \in M, NEW e \in M
        PROVE  d = e \/ d \in low[e] \/ e \in low[d]
    <3>1. d \in Nat /\ e \in Nat
      OBVIOUS
    <3>2. d = e \/ d < e \/ e < d
      BY <3>1
    <3> QED BY <1>1, <3>2
  <2> QED BY <2>1, <2>2, <2>3 DEF StrictOrder
<1>0. s = [k \in 1 .. Cardinality(M) |->
             CHOOSE e \in M : Cardinality({d \in M : d < e}) = k - 1]
  BY DEF Upward
<1>5. s = [k \in 1 .. Cardinality(M) |-> s[k]]
  <2> DEFINE place(k) == CHOOSE e \in M : Cardinality({d \in M : d < e}) = k - 1
  <2>1. s = [k \in 1 .. Cardinality(M) |-> place(k)]
    BY <1>0
  <2> HIDE DEF place
  <2> QED BY <2>1
<1>6. ASSUME NEW k \in 1 .. Cardinality(M), \E e \in M : Cardinality(low[e]) = k - 1
      PROVE  s[k] \in M /\ Cardinality(low[s[k]]) = k - 1
  <2>1. \E e \in M : Cardinality({d \in M : d < e}) = k - 1
    BY <1>2, <1>6
  <2>2. s[k] = CHOOSE e \in M : Cardinality({d \in M : d < e}) = k - 1
    BY <1>0
  <2>3. s[k] \in M /\ Cardinality({d \in M : d < s[k]}) = k - 1
    BY <2>1, <2>2
  <2> QED BY <1>2, <2>3
<1>7. Ordering(s, M, low)
  BY <1>3, <1>4, <1>5, <1>6, OrderedBy
<1>8. /\ s \in Seq(M) /\ Len(s) = Cardinality(M) /\ Cardinality(M) \in Nat
      /\ \A j, k \in 1 .. Cardinality(M) : s[j] = s[k] => j = k
      /\ \A e \in M : \E k \in 1 .. Cardinality(M) : s[k] = e
  BY <1>7 DEF Ordering
<1>9. DOMAIN s = 1 .. Len(s)
  BY <1>8
<1> QED BY <1>8, <1>9

\* Two sets whose members are matched one to one have as many.
LEMMA Matched ==
  ASSUME NEW S, NEW T, IsFiniteSet(S), NEW g \in [S -> T],
         \A x, y \in S : g[x] = g[y] => x = y,
         \A z \in T : \E x \in S : g[x] = z
  PROVE  IsFiniteSet(T) /\ Cardinality(T) = Cardinality(S)
<1>1. g \in Injection(S, T)
  BY DEF Injection, IsInjective
<1>2. g \in Surjection(S, T)
  BY DEF Surjection
<1>3. ExistsBijection(S, T)
  BY <1>1, <1>2 DEF ExistsBijection, Bijection
<1> QED BY <1>3, FS_Bijection
=============================================================================
