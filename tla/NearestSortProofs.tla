------------------------- MODULE NearestSortProofs -------------------------
(***************************************************************************)
(* The theorems about NearestSort, for any number of processes, any local  *)
(* lengths and any entries.  The inductive invariant IInv says that within *)
(* a round a work area is a function of the vectors the round began with.  *)
(*                                                                         *)
(* The first part has the facts about the operators NearestSort is built   *)
(* from: the size of the exchanged region, what std::sort with a strict    *)
(* comparator does to a range of a work area, and what the two phases of a *)
(* round do to the distributed vector.                                     *)
(***************************************************************************)
EXTENDS NearestSort, FiniteSetTheorems, SharedFacts, TLAPS

(***************************************************************************)
(* The exchanged region is at most a quarter of any process's entries, so  *)
(* the low and the high block of a process never overlap.                  *)
(***************************************************************************)
LEMMA RegionSzFits ==
  /\ RegionSz \in Nat
  /\ \A r \in Rank : 4 * RegionSz <= Lnt[r]
<1> DEFINE T == {Lnt[r] : r \in Rank}
           m == Min(T)
<1>1. T \in SUBSET Nat /\ T # {}
  BY NumRankAssumption, LntAssumption DEF Rank
<1>2. \E x \in T : \A y \in T : x <= y
  BY <1>1, LeastNat
<1>3. m \in T /\ \A y \in T : m <= y
  BY <1>2 DEF Min
<1>4. RegionSz = m \div 4
  BY DEF RegionSz
<1> HIDE DEF m
<1>5. m \in Nat /\ \A r \in Rank : m <= Lnt[r] /\ Lnt[r] \in Nat
  BY <1>1, <1>3, LntAssumption
<1>6. RegionSz \in Nat /\ 4 * RegionSz <= m
  BY <1>4, <1>5
<1> QED BY <1>5, <1>6

(***************************************************************************)
(* Sizes and edges are naturals; every work area holds the local entries   *)
(* and, unless it is the last, room for one block.                         *)
(***************************************************************************)
LEMMA SizeFacts ==
  ASSUME NEW r \in Rank
  PROVE  /\ r \in Nat /\ Lnt[r] \in Nat /\ RegionSz \in Nat /\ Size(r) \in Nat
         /\ Edge1(r) \in Nat /\ Edge2(r) \in Nat
         /\ 4 * RegionSz <= Lnt[r]
         /\ Size(r) = Lnt[r] + Edge2(r)
         /\ Edge1(r) <= RegionSz /\ Edge2(r) <= RegionSz
         /\ r = 0 => Edge1(r) = 0
         /\ r # 0 => Edge1(r) = RegionSz
         /\ r = LastRank => Edge2(r) = 0
         /\ r # LastRank => Edge2(r) = RegionSz
BY RegionSzFits, NumRankAssumption, LntAssumption DEF Rank, Size, Edge1, Edge2

\* The positions of lo..hi that std::sort puts in front of position i.
Smaller(f, lo, hi, i) == {j \in lo .. hi : Before(f, j, i)}

(***************************************************************************)
(* The places of the positions lo..hi are positions of lo..hi, and they    *)
(* are in the order Before gives the positions.                            *)
(***************************************************************************)
LEMMA PlaceOrder ==
  ASSUME NEW f, NEW lo \in Nat, NEW hi \in Nat,
         \A i \in lo .. hi : f[i] \in Row,
         NEW i \in lo .. hi, NEW j \in lo .. hi
  PROVE  /\ Place(f, lo, hi, i) \in lo .. hi
         /\ Before(f, i, j) => Place(f, lo, hi, i) < Place(f, lo, hi, j)
<1> DEFINE S(k) == Smaller(f, lo, hi, k)
<1>0. IsFiniteSet(lo .. hi) /\ Cardinality(lo .. hi) = hi - lo + 1
  BY FS_Interval
<1>1. \A k \in lo .. hi : IsFiniteSet(S(k)) /\ Cardinality(S(k)) \in Nat
  <2> TAKE k \in lo .. hi
  <2>1. S(k) \in SUBSET (lo .. hi)
    BY DEF Smaller
  <2> QED BY <2>1, <1>0, FS_Subset, FS_CardinalityType
<1>2. \A k \in lo .. hi : f[k].ord \in Nat
  BY DEF Row
<1>3. Cardinality(S(i)) <= hi - lo
  <2>1. S(i) \in SUBSET ((lo .. hi) \ {i})
    BY <1>2 DEF Smaller, Before, Comp
  <2>2. IsFiniteSet((lo .. hi) \ {i}) /\ Cardinality((lo .. hi) \ {i}) = hi - lo
    <3>1. Cardinality((lo .. hi) \ {i}) = Cardinality(lo .. hi) - 1
      BY <1>0, FS_RemoveElement, Zenon
    <3>2. IsFiniteSet((lo .. hi) \ {i})
      BY <1>0, FS_RemoveElement, Zenon
    <3> QED BY <3>1, <3>2, <1>0
  <2>3. Cardinality(S(i)) <= Cardinality((lo .. hi) \ {i})
    BY <2>1, <2>2, FS_Subset
  <2> QED BY <2>2, <2>3
<1>4. ASSUME Before(f, i, j)
      PROVE  Cardinality(S(i)) < Cardinality(S(j))
  <2>1. S(i) \in SUBSET S(j)
    BY <1>2, <1>4 DEF Smaller, Before, Comp
  <2>2. i \in S(j) /\ i \notin S(i)
    BY <1>2, <1>4 DEF Smaller, Before, Comp
  <2>3. Cardinality(S(i)) <= Cardinality(S(j)) /\ Cardinality(S(i)) # Cardinality(S(j))
    BY <1>1, <2>1, <2>2, FS_Subset
  <2> QED BY <1>1, <2>3
<1>5. \A k \in lo .. hi : Place(f, lo, hi, k) = lo + Cardinality(S(k))
  BY DEF Place, Smaller
<1> HIDE DEF S
<1> QED BY <1>1, <1>3, <1>4, <1>5

(***************************************************************************)
(* Every position of lo..hi is the place of exactly one position.          *)
(***************************************************************************)
LEMMA PlaceBijection ==
  ASSUME NEW f, NEW lo \in Nat, NEW hi \in Nat,
         \A i \in lo .. hi : f[i] \in Row
  PROVE  /\ \A i, j \in lo .. hi : Place(f, lo, hi, i) = Place(f, lo, hi, j) => i = j
         /\ \A k \in lo .. hi : \E i \in lo .. hi : Place(f, lo, hi, i) = k
<1> DEFINE P == [i \in lo .. hi |-> Place(f, lo, hi, i)]
<1>1. \A i, j \in lo .. hi : i # j => Before(f, i, j) \/ Before(f, j, i)
  BY DEF Before, Comp, Row
<1>2. \A i \in lo .. hi : Place(f, lo, hi, i) \in lo .. hi
  BY PlaceOrder
<1>3. \A i, j \in lo .. hi : Place(f, lo, hi, i) = Place(f, lo, hi, j) => i = j
  <2> SUFFICES ASSUME NEW i \in lo .. hi, NEW j \in lo .. hi, i # j
               PROVE  Place(f, lo, hi, i) # Place(f, lo, hi, j)
    OBVIOUS
  <2>1. CASE Before(f, i, j)
    BY <2>1, <1>2, PlaceOrder
  <2>2. CASE Before(f, j, i)
    BY <2>2, <1>2, PlaceOrder
  <2> QED BY <1>1, <2>1, <2>2
<1>4. P \in Injection(lo .. hi, lo .. hi)
  BY <1>2, <1>3 DEF Injection, IsInjective
<1>5. P \in Surjection(lo .. hi, lo .. hi)
  BY <1>4, FS_Interval, FS_Injection
<1>6. \A k \in lo .. hi : \E i \in lo .. hi : P[i] = k
  BY <1>5 DEF Surjection
<1> QED BY <1>3, <1>6

\* g has on the range the entries f has there.
Rearranges(g, f, lo, hi) == /\ \A k \in lo .. hi : \E i \in lo .. hi : g[k] = f[i]
                            /\ \A i \in lo .. hi : \E k \in lo .. hi : g[k] = f[i]

\* No two entries of the range tie; the entries of the range ascend.
Untied(f, lo, hi)    == \A i, j \in lo .. hi : i # j => f[i].ord # f[j].ord
Ascending(f, lo, hi) == \A k, l \in lo .. hi : k < l => Comp(f[k], f[l])

(***************************************************************************)
(* std::sort on the range lo..hi of a work area: it changes nothing        *)
(* outside the range, permutes the entries of the range, and leaves them   *)
(* in strictly ascending order if no two of them tie.                      *)
(***************************************************************************)
LEMMA SortRangeSorts ==
  ASSUME NEW n \in Nat, NEW f \in [1 .. n -> Row],
         NEW lo \in Nat, NEW hi \in Nat, 1 <= lo, hi <= n,
         NEW g, g = SortRange(f, lo, hi)
  PROVE  /\ g \in [1 .. n -> Row]
         /\ \A k \in (1 .. n) \ (lo .. hi) : g[k] = f[k]
         /\ Rearranges(g, f, lo, hi)
         /\ Untied(f, lo, hi) => Ascending(g, lo, hi)
<1> DEFINE src(k) == CHOOSE i \in lo .. hi : Place(f, lo, hi, i) = k
<1>1. \A i \in lo .. hi : i \in 1 .. n /\ f[i] \in Row
  OBVIOUS
<1>2. \A k \in lo .. hi : src(k) \in lo .. hi /\ Place(f, lo, hi, src(k)) = k
  BY <1>1, PlaceBijection
<1>3. \A i \in lo .. hi : Place(f, lo, hi, i) \in lo .. hi
  BY <1>1, PlaceOrder
<1>4. \A i \in lo .. hi : src(Place(f, lo, hi, i)) = i
  <2> TAKE i \in lo .. hi
  <2>1. src(Place(f, lo, hi, i)) \in lo .. hi
        /\ Place(f, lo, hi, src(Place(f, lo, hi, i))) = Place(f, lo, hi, i)
    BY <1>2, <1>3
  <2> HIDE DEF src
  <2> QED BY <2>1, <1>1, PlaceBijection
<1>5. g = [k \in 1 .. n |-> IF k \in lo .. hi THEN f[src(k)] ELSE f[k]]
  BY DEF SortRange
<1> HIDE DEF src
<1>6. \A k \in lo .. hi : g[k] = f[src(k)]
  BY <1>1, <1>5
<1>7. g \in [1 .. n -> Row]
  BY <1>1, <1>2, <1>5
<1>8. ASSUME Untied(f, lo, hi),
             NEW k \in lo .. hi, NEW l \in lo .. hi, k < l
      PROVE  Comp(g[k], g[l])
  <2> DEFINE a == src(k)
             b == src(l)
  <2>1. a \in lo .. hi /\ b \in lo .. hi
        /\ Place(f, lo, hi, a) = k /\ Place(f, lo, hi, b) = l
    BY <1>2
  <2> HIDE DEF a, b
  <2>2. ~Before(f, b, a)
    <3> SUFFICES ASSUME Before(f, b, a) PROVE FALSE
      OBVIOUS
    <3>1. \A i \in lo .. hi : f[i] \in Row
      BY <1>1
    <3>2. Place(f, lo, hi, b) < Place(f, lo, hi, a)
      BY <3>1, <2>1, PlaceOrder
    <3> QED BY <3>2, <2>1, <1>8
  <2>3. a # b
    BY <1>8, <2>1
  <2>4. f[a].ord \in Nat /\ f[b].ord \in Nat /\ f[a].ord # f[b].ord
    BY <1>1, <1>8, <2>1, <2>3 DEF Row, Untied
  <2>5. f[a].ord < f[b].ord
    BY <2>2, <2>4 DEF Before, Comp
  <2> QED BY <2>5, <1>6 DEF Comp, a, b
<1>9. \A i \in lo .. hi : \E k \in lo .. hi : g[k] = f[i]
  BY <1>3, <1>4, <1>6
<1>10. \A k \in lo .. hi : \E i \in lo .. hi : g[k] = f[i]
  BY <1>2, <1>6
<1>11. \A k \in (1 .. n) \ (lo .. hi) : g[k] = f[k]
  BY <1>5
<1> QED BY <1>7, <1>8, <1>9, <1>10, <1>11 DEF Ascending, Rearranges
-----------------------------------------------------------------------------
(***************************************************************************)
(* What one round of the nearest-neighbour sort does to the distributed    *)
(* vector a it begins with, for any number of processes and any lengths:   *)
(* it permutes the entries, it leaves every process locally sorted, and if *)
(* it moves nothing then a is sorted over all processes.                   *)
(***************************************************************************)

\* The work areas of all processes at the start of a round.
Areas(a) == \A r \in Rank : a[r] \in [1 .. Size(r) -> Row]

(***************************************************************************)
(* In a vector without duplicates different cells hold different entries.  *)
(***************************************************************************)
LEMMA DistinctCells ==
  ASSUME NEW a, Distinct(a),
         NEW r \in Rank, NEW s \in Rank,
         NEW i \in 1 .. Lnt[r], NEW j \in 1 .. Lnt[s],
         r # s \/ i # j
  PROVE  a[r][i].ord # a[s][j].ord /\ a[r][i].gtn # a[s][j].gtn
<1>1. r \in Int /\ s \in Int /\ i \in Int /\ j \in Int
  BY NumRankAssumption, LntAssumption DEF Rank
<1>2. Precedes(r, i, s, j) \/ Precedes(s, j, r, i)
  BY <1>1 DEF Precedes
<1> QED BY <1>2 DEF Distinct

\* The cells of a distributed vector, their order, and what one holds.
Cells      == UNION {{r} \X (1 .. Lnt[r]) : r \in Rank}
Earlier(x, y) == Precedes(x[1], x[2], y[1], y[2])
At(v, x)   == v[x[1]][x[2]]

\* There are finitely many cells, and Earlier is a strict total order on them.
LEMMA CellFacts ==
  /\ \A x \in Cells : /\ x[1] \in Rank /\ x[2] \in 1 .. Lnt[x[1]] /\ x = <<x[1], x[2]>>
                      /\ x[1] \in Nat /\ x[2] \in Nat
  /\ \A r \in Rank : \A i \in 1 .. Lnt[r] : <<r, i>> \in Cells
  /\ \A x, y \in Cells : x # y <=> Earlier(x, y) \/ Earlier(y, x)
  /\ \A x, y \in Cells : ~(Earlier(x, y) /\ Earlier(y, x))
  /\ IsFiniteSet(Cells)
<1>1. \A x \in Cells : x[1] \in Rank /\ x[2] \in 1 .. Lnt[x[1]] /\ x = <<x[1], x[2]>>
  BY DEF Cells
<1>2. \A r \in Rank : \A i \in 1 .. Lnt[r] : <<r, i>> \in Cells
  BY DEF Cells
<1>3. \A x \in Cells : x[1] \in Nat /\ x[2] \in Nat
  BY <1>1, SizeFacts
<1>4. ASSUME NEW x \in Cells, NEW y \in Cells
      PROVE  /\ x # y <=> Earlier(x, y) \/ Earlier(y, x)
             /\ ~(Earlier(x, y) /\ Earlier(y, x))
  <2>1. x = y <=> x[1] = y[1] /\ x[2] = y[2]
    BY <1>1
  <2>2. x[1] \in Nat /\ x[2] \in Nat /\ y[1] \in Nat /\ y[2] \in Nat
    BY <1>3
  <2> QED BY <2>1, <2>2 DEF Earlier, Precedes
<1>5. IsFiniteSet(Cells)
  <2> DEFINE strip == [r \in Rank |-> {r} \X (1 .. Lnt[r])]
             strips == {{r} \X (1 .. Lnt[r]) : r \in Rank}
  <2>1. ASSUME NEW r \in Rank
        PROVE  IsFiniteSet({r} \X (1 .. Lnt[r]))
    <3>1. Lnt[r] \in Int
      BY LntAssumption
    <3>2. IsFiniteSet(1 .. Lnt[r])
      BY <3>1, FS_Interval
    <3>3. IsFiniteSet({r})
      BY FS_Singleton
    <3> QED BY <3>2, <3>3, FS_Product
  <2>2. IsFiniteSet(Rank)
    BY NumRankAssumption, FS_Interval DEF Rank
  <2>3. strip \in Surjection(Rank, strips)
    BY DEF Surjection
  <2>4. IsFiniteSet(strips)
    BY <2>2, <2>3, FS_Surjection
  <2>5. \A T \in strips : IsFiniteSet(T)
    BY <2>1
  <2> QED BY <2>4, <2>5, FS_UNION DEF Cells
<1> QED BY <1>1, <1>2, <1>3, <1>4, <1>5

\* The entries of a vector are what its cells hold.
LEMMA RowsAt ==
  ASSUME NEW v
  PROVE  RowsOf(v) = {At(v, x) : x \in Cells}
<1>1. ASSUME NEW r \in Rank, NEW i \in 1 .. Lnt[r]
      PROVE  v[r][i] \in {At(v, x) : x \in Cells}
  <2> DEFINE y == <<r, i>>
  <2>1. y \in Cells /\ At(v, y) = v[r][i]
    BY CellFacts DEF At
  <2> HIDE DEF y
  <2> QED BY <2>1
<1>2. {At(v, x) : x \in Cells} \subseteq RowsOf(v)
  BY CellFacts DEF RowsOf, At
<1>3. RowsOf(v) \subseteq {At(v, x) : x \in Cells}
  BY <1>1 DEF RowsOf
<1> QED BY <1>2, <1>3

\* Without duplicates an entry has one cell.
LEMMA OneCell ==
  ASSUME NEW a, Distinct(a), NEW x \in Cells, NEW y \in Cells, x # y
  PROVE  At(a, x).ord # At(a, y).ord /\ At(a, x).gtn # At(a, y).gtn
<1>1. x[1] # y[1] \/ x[2] # y[2]
  BY CellFacts
<1> QED BY <1>1, CellFacts, DistinctCells DEF At

(***************************************************************************)
(* The left phase of r merges what r holds past Edge1(r) with the low      *)
(* block of r + 1.                                                         *)
(***************************************************************************)
LEMMA LeftPhase ==
  ASSUME NEW a, Areas(a), NEW r \in Rank
  PROVE  LET B == AfterLeft(a, r) IN
         /\ B \in [1 .. Size(r) -> Row]
         /\ \A k \in Edge1(r) + 1 .. Size(r) :
              \/ \E i \in Edge1(r) + 1 .. Lnt[r] : B[k] = a[r][i]
              \/ r # LastRank /\ \E i \in 1 .. RegionSz : B[k] = a[r + 1][i]
         /\ \A i \in Edge1(r) + 1 .. Lnt[r] :
              \E k \in Edge1(r) + 1 .. Size(r) : B[k] = a[r][i]
         /\ r # LastRank => \A i \in 1 .. RegionSz :
              \E k \in Edge1(r) + 1 .. Size(r) : B[k] = a[r + 1][i]
         /\ Distinct(a) => Ascending(B, Edge1(r) + 1, Size(r))
<1> DEFINE X == IF r # LastRank THEN WithHigh(r, a[r], LowBlock(a[r + 1])) ELSE a[r]
           B == AfterLeft(a, r)
           lo == Edge1(r) + 1
<1>1. B = SortRange(X, lo, Size(r))
  BY DEF AfterLeft
<1>2. /\ r \in Nat /\ Lnt[r] \in Nat /\ RegionSz \in Nat /\ Size(r) \in Nat /\ Edge1(r) \in Nat
      /\ Edge1(r) <= Lnt[r] /\ RegionSz <= Lnt[r]
      /\ r = LastRank => Size(r) = Lnt[r]
      /\ r # LastRank => Size(r) = Lnt[r] + RegionSz
  BY SizeFacts
<1>3. ASSUME r # LastRank
      PROVE  /\ r + 1 \in Rank
             /\ RegionSz <= Size(r + 1) /\ RegionSz <= Lnt[r + 1]
             /\ Lnt[r + 1] \in Nat /\ Size(r + 1) \in Nat
             /\ LowBlock(a[r + 1]) \in [1 .. RegionSz -> Row]
             /\ \A i \in 1 .. RegionSz : LowBlock(a[r + 1])[i] = a[r + 1][i]
  <2>1. r + 1 \in Rank
    BY <1>3, NumRankAssumption DEF Rank, LastRank
  <2>2. /\ Lnt[r + 1] \in Nat /\ Size(r + 1) \in Nat
        /\ RegionSz <= Lnt[r + 1] /\ RegionSz <= Size(r + 1)
    BY <2>1, SizeFacts
  <2>3. a[r + 1] \in [1 .. Size(r + 1) -> Row]
    BY <2>1 DEF Areas
  <2> QED BY <1>2, <2>1, <2>2, <2>3 DEF LowBlock
<1>4. a[r] \in [1 .. Size(r) -> Row]
  BY DEF Areas
<1>5. /\ X \in [1 .. Size(r) -> Row]
      /\ \A i \in 1 .. Lnt[r] : X[i] = a[r][i]
      /\ r # LastRank => \A i \in 1 .. RegionSz : X[Lnt[r] + i] = a[r + 1][i]
  <2>1. CASE r = LastRank
    BY <2>1, <1>2, <1>4
  <2>2. CASE r # LastRank
    <3> DEFINE b == LowBlock(a[r + 1])
    <3>1. b \in [1 .. RegionSz -> Row] /\ \A i \in 1 .. RegionSz : b[i] = a[r + 1][i]
      BY <2>2, <1>3
    <3> HIDE DEF b
    <3>2. WithHigh(r, a[r], b) = [k \in 1 .. Size(r) |-> IF k > Lnt[r] THEN b[k - Lnt[r]] ELSE a[r][k]]
      BY DEF WithHigh
    <3>3. WithHigh(r, a[r], b) \in [1 .. Size(r) -> Row]
      BY <2>2, <3>1, <3>2, <1>2, <1>4
    <3>4. \A i \in 1 .. Lnt[r] : WithHigh(r, a[r], b)[i] = a[r][i]
      BY <2>2, <3>2, <1>2
    <3>5. \A i \in 1 .. RegionSz : WithHigh(r, a[r], b)[Lnt[r] + i] = a[r + 1][i]
      <4> TAKE i \in 1 .. RegionSz
      <4>1. Lnt[r] + i \in 1 .. Size(r) /\ Lnt[r] + i > Lnt[r] /\ Lnt[r] + i - Lnt[r] = i
        BY <2>2, <1>2
      <4>2. WithHigh(r, a[r], b)[Lnt[r] + i] = b[Lnt[r] + i - Lnt[r]]
        BY <4>1, <3>2, <1>2
      <4> QED BY <4>1, <4>2, <3>1
    <3>6. X = WithHigh(r, a[r], b)
      BY <2>2 DEF b
    <3> QED BY <3>3, <3>4, <3>5, <3>6
  <2> QED BY <2>1, <2>2
<1> HIDE DEF X, B
<1>6. 1 <= lo /\ lo \in Nat /\ Size(r) <= Size(r)
  BY <1>2
<1>7. /\ B \in [1 .. Size(r) -> Row]
      /\ \A k \in lo .. Size(r) : \E i \in lo .. Size(r) : B[k] = X[i]
      /\ \A i \in lo .. Size(r) : \E k \in lo .. Size(r) : B[k] = X[i]
      /\ Untied(X, lo, Size(r)) => Ascending(B, lo, Size(r))
  <2> DEFINE n == Size(r)
  <2>1. n \in Nat /\ n <= n /\ lo \in Nat /\ 1 <= lo
    BY <1>2, <1>6
  <2>2. X \in [1 .. n -> Row] /\ B = SortRange(X, lo, n)
    BY <1>1, <1>5
  <2> HIDE DEF lo, n
  <2>3. /\ B \in [1 .. n -> Row]
        /\ Rearranges(B, X, lo, n)
        /\ Untied(X, lo, n) => Ascending(B, lo, n)
    BY <2>1, <2>2, SortRangeSorts
  <2> QED BY <2>3 DEF n, Rearranges
\* Where the entry at position i of the range comes from.
<1>8. \A i \in lo .. Size(r) :
        \/ i <= Lnt[r] /\ X[i] = a[r][i]
        \/ r # LastRank /\ i > Lnt[r] /\ i - Lnt[r] \in 1 .. RegionSz /\ X[i] = a[r + 1][i - Lnt[r]]
  <2> TAKE i \in lo .. Size(r)
  <2>1. CASE i <= Lnt[r]
    BY <2>1, <1>2, <1>5, <1>6
  <2>2. CASE ~(i <= Lnt[r])
    <3>1. r # LastRank /\ i > Lnt[r] /\ i - Lnt[r] \in 1 .. RegionSz
      BY <2>2, <1>2, <1>6
    <3>2. X[Lnt[r] + (i - Lnt[r])] = a[r + 1][i - Lnt[r]]
      BY <3>1, <1>5
    <3>3. Lnt[r] + (i - Lnt[r]) = i
      BY <1>2, <1>6
    <3> QED BY <3>1, <3>2, <3>3
  <2> QED BY <2>1, <2>2
<1>9. ASSUME Distinct(a), NEW i \in lo .. Size(r), NEW j \in lo .. Size(r), i # j
      PROVE  X[i].ord # X[j].ord
  <2>1. CASE i <= Lnt[r] /\ j <= Lnt[r]
    BY <2>1, <1>2, <1>6, <1>8, <1>9, DistinctCells
  <2>2. CASE i <= Lnt[r] /\ j > Lnt[r]
    <3>1. r # LastRank /\ j - Lnt[r] \in 1 .. RegionSz /\ X[j] = a[r + 1][j - Lnt[r]]
      BY <2>2, <1>2, <1>6, <1>8
    <3>2. j - Lnt[r] \in 1 .. Lnt[r + 1] /\ r + 1 \in Rank /\ r # r + 1
      BY <3>1, <1>2, <1>3
    <3>3. X[i] = a[r][i] /\ i \in 1 .. Lnt[r]
      BY <2>2, <1>2, <1>6, <1>8
    <3> QED BY <3>1, <3>2, <3>3, <1>9, DistinctCells
  <2>3. CASE i > Lnt[r] /\ j <= Lnt[r]
    <3>1. r # LastRank /\ i - Lnt[r] \in 1 .. RegionSz /\ X[i] = a[r + 1][i - Lnt[r]]
      BY <2>3, <1>2, <1>6, <1>8
    <3>2. i - Lnt[r] \in 1 .. Lnt[r + 1] /\ r + 1 \in Rank /\ r # r + 1
      BY <3>1, <1>2, <1>3
    <3>3. X[j] = a[r][j] /\ j \in 1 .. Lnt[r]
      BY <2>3, <1>2, <1>6, <1>8
    <3> QED BY <3>1, <3>2, <3>3, <1>9, DistinctCells
  <2>4. CASE i > Lnt[r] /\ j > Lnt[r]
    <3>1. /\ r # LastRank
          /\ i - Lnt[r] \in 1 .. RegionSz /\ X[i] = a[r + 1][i - Lnt[r]]
          /\ j - Lnt[r] \in 1 .. RegionSz /\ X[j] = a[r + 1][j - Lnt[r]]
      BY <2>4, <1>2, <1>6, <1>8
    <3>2. i \in Int /\ j \in Int /\ r + 1 \in Rank
          /\ Lnt[r + 1] \in Nat /\ RegionSz <= Lnt[r + 1]
      BY <3>1, <1>2, <1>3, <1>6
    <3>3. /\ i - Lnt[r] \in 1 .. Lnt[r + 1] /\ j - Lnt[r] \in 1 .. Lnt[r + 1]
          /\ i - Lnt[r] # j - Lnt[r]
      BY <3>1, <3>2, <1>2, <1>9
    <3> QED BY <3>1, <3>2, <3>3, <1>9, DistinctCells
  <2> QED BY <2>1, <2>2, <2>3, <2>4, <1>2, <1>6
<1>10. \A k \in lo .. Size(r) :
         \/ \E i \in lo .. Lnt[r] : B[k] = a[r][i]
         \/ r # LastRank /\ \E i \in 1 .. RegionSz : B[k] = a[r + 1][i]
  <2> TAKE k \in lo .. Size(r)
  <2>1. PICK i \in lo .. Size(r) : B[k] = X[i]
    BY <1>7
  <2>2. CASE i <= Lnt[r] /\ X[i] = a[r][i]
    BY <2>1, <2>2, <1>2, <1>6
  <2>3. CASE r # LastRank /\ i > Lnt[r] /\ i - Lnt[r] \in 1 .. RegionSz /\ X[i] = a[r + 1][i - Lnt[r]]
    BY <2>1, <2>3
  <2> QED BY <2>2, <2>3, <1>8
<1>11. \A i \in lo .. Lnt[r] : \E k \in lo .. Size(r) : B[k] = a[r][i]
  <2> TAKE i \in lo .. Lnt[r]
  <2>1. i \in lo .. Size(r) /\ X[i] = a[r][i]
    BY <1>2, <1>5, <1>6
  <2> QED BY <2>1, <1>7
<1>12. ASSUME r # LastRank, NEW i \in 1 .. RegionSz
       PROVE  \E k \in lo .. Size(r) : B[k] = a[r + 1][i]
  <2>1. Lnt[r] + i \in lo .. Size(r) /\ X[Lnt[r] + i] = a[r + 1][i]
    BY <1>2, <1>5, <1>6, <1>12
  <2> QED BY <2>1, <1>7
<1>13. Distinct(a) => Ascending(B, lo, Size(r))
  BY <1>7, <1>9 DEF Untied
<1> QED BY <1>7, <1>10, <1>11, <1>12, <1>13 DEF B

(***************************************************************************)
(* Entries at different places of an ascending range do not tie.           *)
(***************************************************************************)
LEMMA AscendingUntied ==
  ASSUME NEW f, NEW lo \in Int, NEW hi \in Int, Ascending(f, lo, hi),
         \A k \in lo .. hi : f[k] \in Row
  PROVE  Untied(f, lo, hi)
<1> SUFFICES ASSUME NEW i \in lo .. hi, NEW j \in lo .. hi, i # j
             PROVE  f[i].ord # f[j].ord
  BY DEF Untied
<1>1. i < j \/ j < i
  OBVIOUS
<1>2. f[i].ord < f[j].ord \/ f[j].ord < f[i].ord
  BY <1>1 DEF Ascending, Comp
<1>3. f[i].ord \in Nat /\ f[j].ord \in Nat
  BY DEF Row
<1> QED BY <1>2, <1>3

(***************************************************************************)
(* What the left phase leaves in the kept part of r and what it leaves in  *)
(* the high block of r - 1 come from different cells, so they do not tie.  *)
(***************************************************************************)
LEMMA KeptAndSentDiffer ==
  ASSUME NEW a, Areas(a), Distinct(a), NEW r \in Rank, r # 0,
         NEW j \in RegionSz + 1 .. Lnt[r], NEW i \in 1 .. RegionSz
  PROVE  AfterLeft(a, r)[j].ord # AfterLeft(a, r - 1)[Lnt[r - 1] + i].ord
<1> DEFINE B == AfterLeft(a, r)
           D == AfterLeft(a, r - 1)
           d == Lnt[r - 1] + i
<1>1. /\ r - 1 \in Rank /\ r - 1 # LastRank /\ r - 1 # r
      /\ r # LastRank => r + 1 \in Rank /\ r + 1 # r /\ r + 1 # r - 1
  BY NumRankAssumption DEF Rank, LastRank
<1>2. /\ Lnt[r] \in Nat /\ RegionSz \in Nat /\ RegionSz <= Lnt[r]
      /\ Edge1(r) = RegionSz /\ Lnt[r] <= Size(r) /\ Size(r) \in Nat
  BY SizeFacts
<1>3. /\ Lnt[r - 1] \in Nat /\ RegionSz <= Lnt[r - 1]
      /\ Size(r - 1) = Lnt[r - 1] + RegionSz
      /\ Edge1(r - 1) \in Nat /\ Edge1(r - 1) <= Lnt[r - 1]
  BY <1>1, SizeFacts
<1>4. r # LastRank => Lnt[r + 1] \in Nat /\ RegionSz <= Lnt[r + 1]
  BY <1>1, SizeFacts
<1>5. \/ \E y \in Edge1(r) + 1 .. Lnt[r] : B[j] = a[r][y]
      \/ r # LastRank /\ \E y \in 1 .. RegionSz : B[j] = a[r + 1][y]
  <2>1. j \in Edge1(r) + 1 .. Size(r)
    BY <1>2
  <2> QED BY <2>1, LeftPhase
<1>6. \/ \E x \in Edge1(r - 1) + 1 .. Lnt[r - 1] : D[d] = a[r - 1][x]
      \/ \E x \in 1 .. RegionSz : D[d] = a[r - 1 + 1][x]
  <2>1. d \in Edge1(r - 1) + 1 .. Size(r - 1)
    BY <1>2, <1>3
  <2> QED BY <2>1, <1>1, LeftPhase
<1> SUFFICES B[j].ord # D[d].ord
  OBVIOUS
<1> HIDE DEF B, D, d
<1>7. r - 1 + 1 = r
  BY NumRankAssumption DEF Rank
<1>8. CASE \E y \in Edge1(r) + 1 .. Lnt[r] : B[j] = a[r][y]
  <2>1. PICK y \in Edge1(r) + 1 .. Lnt[r] : B[j] = a[r][y]
    BY <1>8
  <2>2. y \in 1 .. Lnt[r] /\ y > RegionSz
    BY <1>2
  <2>3. ASSUME NEW x \in Edge1(r - 1) + 1 .. Lnt[r - 1], D[d] = a[r - 1][x]
        PROVE  B[j].ord # D[d].ord
    <3>1. x \in 1 .. Lnt[r - 1]
      BY <1>3
    <3> QED BY <2>1, <2>2, <2>3, <3>1, <1>1, DistinctCells
  <2>4. ASSUME NEW x \in 1 .. RegionSz, D[d] = a[r][x]
        PROVE  B[j].ord # D[d].ord
    <3>1. x \in 1 .. Lnt[r] /\ x # y
      BY <1>2, <2>2
    <3> QED BY <2>1, <2>2, <2>4, <3>1, DistinctCells
  <2> QED BY <2>3, <2>4, <1>6, <1>7
<1>9. CASE r # LastRank /\ \E y \in 1 .. RegionSz : B[j] = a[r + 1][y]
  <2>1. PICK y \in 1 .. RegionSz : B[j] = a[r + 1][y]
    BY <1>9
  <2>2. y \in 1 .. Lnt[r + 1] /\ r + 1 \in Rank /\ r + 1 # r /\ r + 1 # r - 1
    BY <1>1, <1>2, <1>4, <1>9
  <2>3. ASSUME NEW x \in Edge1(r - 1) + 1 .. Lnt[r - 1], D[d] = a[r - 1][x]
        PROVE  B[j].ord # D[d].ord
    <3>1. x \in 1 .. Lnt[r - 1]
      BY <1>3
    <3>2. a[r + 1][y].ord # a[r - 1][x].ord
      BY <2>2, <3>1, <1>1, DistinctCells
    <3> QED BY <2>1, <2>3, <3>2
  <2>4. ASSUME NEW x \in 1 .. RegionSz, D[d] = a[r][x]
        PROVE  B[j].ord # D[d].ord
    <3>1. x \in 1 .. Lnt[r]
      BY <1>2
    <3>2. a[r + 1][y].ord # a[r][x].ord
      BY <2>2, <3>1, DistinctCells
    <3> QED BY <2>1, <2>4, <3>2
  <2> QED BY <2>3, <2>4, <1>6, <1>7
<1> QED BY <1>5, <1>8, <1>9

(***************************************************************************)
(* The right phase of r merges what r kept in the left phase with the high *)
(* block of r - 1.                                                         *)
(***************************************************************************)
LEMMA RightPhase ==
  ASSUME NEW a, Areas(a), NEW r \in Rank
  PROVE  LET B == AfterLeft(a, r)
             D == AfterLeft(a, r - 1)
             C == AfterRight(a, r) IN
         /\ C \in [1 .. Size(r) -> Row]
         /\ \A k \in 1 .. Lnt[r] :
              \/ \E i \in Edge1(r) + 1 .. Lnt[r] : C[k] = B[i]
              \/ r # 0 /\ \E i \in 1 .. RegionSz : C[k] = D[Lnt[r - 1] + i]
         /\ \A i \in Edge1(r) + 1 .. Lnt[r] : \E k \in 1 .. Lnt[r] : C[k] = B[i]
         /\ r # 0 => \A i \in 1 .. RegionSz :
                       \E k \in 1 .. Lnt[r] : C[k] = D[Lnt[r - 1] + i]
         /\ Distinct(a) => Ascending(C, 1, Lnt[r])
<1> DEFINE B == AfterLeft(a, r)
           D == AfterLeft(a, r - 1)
           C == AfterRight(a, r)
           Y == IF r # 0 THEN WithLow(r, B, HighBlock(r - 1, D)) ELSE B
           m == Lnt[r]
           n == Size(r)
<1>1. /\ m \in Nat /\ RegionSz \in Nat /\ n \in Nat /\ RegionSz <= m /\ m <= n
      /\ n - Edge2(r) = m /\ Edge1(r) \in Nat
      /\ r = 0 => Edge1(r) = 0
      /\ r # 0 => Edge1(r) = RegionSz
  BY SizeFacts
<1>2. C = SortRange(Y, 1, m)
  BY <1>1 DEF AfterRight
<1>3. B \in [1 .. n -> Row] /\ (Distinct(a) => Ascending(B, Edge1(r) + 1, n))
  BY LeftPhase
<1>4. ASSUME r # 0
      PROVE  /\ r - 1 \in Rank
             /\ Lnt[r - 1] \in Nat /\ Edge1(r - 1) \in Nat /\ Edge1(r - 1) <= Lnt[r - 1]
             /\ Size(r - 1) = Lnt[r - 1] + RegionSz
             /\ D \in [1 .. Size(r - 1) -> Row]
             /\ Distinct(a) => Ascending(D, Edge1(r - 1) + 1, Size(r - 1))
  <2>1. r - 1 \in Rank /\ r - 1 # LastRank
    BY <1>4, NumRankAssumption DEF Rank, LastRank
  <2> QED BY <2>1, SizeFacts, LeftPhase
<1> HIDE DEF B, C, D, m, n
<1>5. ASSUME r # 0, NEW i \in 1 .. RegionSz
      PROVE  D[Lnt[r - 1] + i] \in Row
  <2>1. Lnt[r - 1] + i \in 1 .. Size(r - 1)
    BY <1>1, <1>4, <1>5
  <2> QED BY <2>1, <1>4, <1>5
<1>6. /\ Y \in [1 .. n -> Row]
      /\ \A i \in Edge1(r) + 1 .. n : Y[i] = B[i]
      /\ r # 0 => \A i \in 1 .. RegionSz : Y[i] = D[Lnt[r - 1] + i]
  <2>1. CASE r = 0
    BY <2>1, <1>1, <1>3
  <2>2. CASE r # 0
    <3> DEFINE b == HighBlock(r - 1, D)
    <3>1. b = [k \in 1 .. RegionSz |-> D[Lnt[r - 1] + k]]
      BY DEF HighBlock
    <3>2. Y = [k \in 1 .. n |-> IF k <= RegionSz THEN b[k] ELSE B[k]]
      BY <2>2 DEF WithLow, n
    <3> HIDE DEF b, Y
    <3>3. \A k \in 1 .. RegionSz : b[k] = D[Lnt[r - 1] + k] /\ b[k] \in Row
      BY <2>2, <3>1, <1>5
    <3>4. \A k \in 1 .. n : Y[k] \in Row
      BY <3>2, <3>3, <1>1, <1>3
    <3>5. \A i \in Edge1(r) + 1 .. n : Y[i] = B[i]
      BY <2>2, <3>2, <1>1
    <3>6. \A i \in 1 .. RegionSz : Y[i] = D[Lnt[r - 1] + i]
      BY <3>2, <3>3, <1>1
    <3> QED BY <3>2, <3>4, <3>5, <3>6
  <2> QED BY <2>1, <2>2
<1> HIDE DEF Y
<1>7. /\ C \in [1 .. n -> Row]
      /\ Rearranges(C, Y, 1, m)
      /\ Untied(Y, 1, m) => Ascending(C, 1, m)
  <2>1. 1 \in Nat /\ 1 <= 1
    OBVIOUS
  <2> QED BY <2>1, <1>1, <1>2, <1>6, SortRangeSorts
\* Where the entry at position i of the range comes from.
<1>8. \A i \in 1 .. m :
        \/ i \in Edge1(r) + 1 .. m /\ Y[i] = B[i]
        \/ r # 0 /\ i \in 1 .. RegionSz /\ Y[i] = D[Lnt[r - 1] + i]
  BY <1>1, <1>6
<1>9. ASSUME Distinct(a)
      PROVE  Untied(Y, 1, m)
  <2>0. Untied(B, Edge1(r) + 1, n)
    BY <1>1, <1>3, <1>9, AscendingUntied
  <2> SUFFICES ASSUME NEW i \in 1 .. m, NEW j \in 1 .. m, i # j
               PROVE  Y[i].ord # Y[j].ord
    BY DEF Untied
  <2>1. CASE i \in Edge1(r) + 1 .. m /\ j \in Edge1(r) + 1 .. m
    BY <2>0, <2>1, <1>1, <1>6 DEF Untied
  <2>2. CASE r # 0 /\ i \in 1 .. RegionSz /\ j \in 1 .. RegionSz
    <3>1. /\ Edge1(r - 1) + 1 \in Int /\ Size(r - 1) \in Int
          /\ \A k \in Edge1(r - 1) + 1 .. Size(r - 1) : D[k] \in Row
      BY <2>2, <1>1, <1>4
    <3>2. Untied(D, Edge1(r - 1) + 1, Size(r - 1))
      BY <2>2, <3>1, <1>4, <1>9, AscendingUntied
    <3>3. /\ Lnt[r - 1] + i \in Edge1(r - 1) + 1 .. Size(r - 1)
          /\ Lnt[r - 1] + j \in Edge1(r - 1) + 1 .. Size(r - 1)
          /\ Lnt[r - 1] + i # Lnt[r - 1] + j
      BY <2>2, <1>1, <1>4
    <3>4. D[Lnt[r - 1] + i].ord # D[Lnt[r - 1] + j].ord
      BY <3>2, <3>3 DEF Untied
    <3> QED BY <2>2, <3>4, <1>6
  <2>3. ASSUME r # 0, NEW x \in 1 .. RegionSz, NEW y \in RegionSz + 1 .. m
        PROVE  Y[x].ord # Y[y].ord
    <3>1. B[y].ord # D[Lnt[r - 1] + x].ord
      BY <2>3, <1>9, KeptAndSentDiffer DEF B, D, m
    <3>2. Y[y] = B[y] /\ Y[x] = D[Lnt[r - 1] + x]
      BY <2>3, <1>1, <1>6
    <3> QED BY <3>1, <3>2
  <2> QED BY <2>1, <2>2, <2>3, <1>1
<1>10. \A k \in 1 .. m :
         \/ \E i \in Edge1(r) + 1 .. m : C[k] = B[i]
         \/ r # 0 /\ \E i \in 1 .. RegionSz : C[k] = D[Lnt[r - 1] + i]
  <2> TAKE k \in 1 .. m
  <2>1. PICK i \in 1 .. m : C[k] = Y[i]
    BY <1>7 DEF Rearranges
  <2> QED BY <2>1, <1>8
<1>11. \A i \in Edge1(r) + 1 .. m : \E k \in 1 .. m : C[k] = B[i]
  <2> TAKE i \in Edge1(r) + 1 .. m
  <2>1. i \in 1 .. m /\ Y[i] = B[i]
    BY <1>1, <1>6
  <2> QED BY <2>1, <1>7 DEF Rearranges
<1>12. ASSUME r # 0, NEW i \in 1 .. RegionSz
       PROVE  \E k \in 1 .. m : C[k] = D[Lnt[r - 1] + i]
  <2>1. i \in 1 .. m /\ Y[i] = D[Lnt[r - 1] + i]
    BY <1>1, <1>6, <1>12
  <2> QED BY <2>1, <1>7 DEF Rearranges
<1>13. Distinct(a) => Ascending(C, 1, m)
  BY <1>7, <1>9
<1> QED BY <1>7, <1>10, <1>11, <1>12, <1>13 DEF B, C, D, m, n

(***************************************************************************)
(* A round is a permutation of the distributed vector: every entry of a is *)
(* found somewhere after the right phase, and nothing else is.             *)
(***************************************************************************)
LEMMA RoundKeepsRows ==
  ASSUME NEW a, Areas(a),
         NEW c, \A r \in Rank : \A k \in 1 .. Lnt[r] : c[r][k] = AfterRight(a, r)[k]
  PROVE  RowsOf(c) = RowsOf(a)
<1> DEFINE B(r) == AfterLeft(a, r)
           C(r) == AfterRight(a, r)
<1>1. \A r \in Rank :
        /\ r \in Nat /\ Lnt[r] \in Nat /\ RegionSz \in Nat /\ RegionSz <= Lnt[r]
        /\ Edge1(r) \in Nat /\ Edge1(r) <= Lnt[r] /\ Size(r) \in Nat
        /\ r = 0 => Edge1(r) = 0
        /\ r # 0 => Edge1(r) = RegionSz
        /\ r = LastRank => Size(r) = Lnt[r]
        /\ r # LastRank => Size(r) = Lnt[r] + RegionSz
  BY SizeFacts
<1>2. \A r \in Rank : /\ r # 0 => r - 1 \in Rank /\ r - 1 # LastRank /\ r - 1 + 1 = r
                      /\ r # LastRank => r + 1 \in Rank /\ r + 1 # 0 /\ (r + 1) - 1 = r
  BY NumRankAssumption DEF Rank, LastRank
\* After the left phase a work area holds entries of a only.
<1>3. ASSUME NEW r \in Rank, NEW k \in Edge1(r) + 1 .. Size(r)
      PROVE  B(r)[k] \in RowsOf(a)
  <2>1. CASE \E i \in Edge1(r) + 1 .. Lnt[r] : B(r)[k] = a[r][i]
    BY <2>1, <1>1 DEF RowsOf
  <2>2. CASE r # LastRank /\ \E i \in 1 .. RegionSz : B(r)[k] = a[r + 1][i]
    <3>1. PICK i \in 1 .. RegionSz : B(r)[k] = a[r + 1][i]
      BY <2>2
    <3>2. r + 1 \in Rank /\ i \in 1 .. Lnt[r + 1]
      BY <2>2, <1>1, <1>2
    <3> QED BY <3>1, <3>2 DEF RowsOf
  <2> QED BY <2>1, <2>2, LeftPhase
<1>4. ASSUME NEW r \in Rank, NEW k \in 1 .. Lnt[r]
      PROVE  C(r)[k] \in RowsOf(a)
  <2>1. CASE \E i \in Edge1(r) + 1 .. Lnt[r] : C(r)[k] = B(r)[i]
    <3>1. PICK i \in Edge1(r) + 1 .. Lnt[r] : C(r)[k] = B(r)[i]
      BY <2>1
    <3>2. i \in Edge1(r) + 1 .. Size(r)
      BY <1>1
    <3>3. B(r)[i] \in RowsOf(a)
      BY <3>2, <1>3
    <3> QED BY <3>1, <3>3
  <2>2. CASE r # 0 /\ \E i \in 1 .. RegionSz : C(r)[k] = B(r - 1)[Lnt[r - 1] + i]
    <3>1. PICK i \in 1 .. RegionSz : C(r)[k] = B(r - 1)[Lnt[r - 1] + i]
      BY <2>2
    <3>2. r - 1 \in Rank /\ r - 1 # LastRank
      BY <2>2, <1>2
    <3>3. Lnt[r - 1] + i \in Edge1(r - 1) + 1 .. Size(r - 1)
      BY <3>2, <1>1
    <3>4. B(r - 1)[Lnt[r - 1] + i] \in RowsOf(a)
      BY <3>2, <3>3, <1>3
    <3> QED BY <3>1, <3>4
  <2> QED BY <2>1, <2>2, RightPhase
\* What the sorted range of the left phase holds reaches some process.
<1>5. ASSUME NEW r \in Rank, NEW k \in Edge1(r) + 1 .. Size(r)
      PROVE  B(r)[k] \in RowsOf(c)
  <2>1. CASE k <= Lnt[r]
    <3>1. k \in Edge1(r) + 1 .. Lnt[r]
      BY <2>1, <1>1
    <3>2. PICK l \in 1 .. Lnt[r] : C(r)[l] = B(r)[k]
      BY <3>1, RightPhase
    <3> QED BY <3>2 DEF RowsOf
  <2>2. CASE k > Lnt[r]
    <3>1. r # LastRank /\ k - Lnt[r] \in 1 .. RegionSz /\ Lnt[r] + (k - Lnt[r]) = k
      BY <2>2, <1>1
    <3>2. PICK q \in Rank : q # 0 /\ q - 1 = r
      <4>1. r + 1 \in Rank /\ r + 1 # 0 /\ (r + 1) - 1 = r
        BY <3>1, <1>2
      <4> QED BY <4>1, Zenon
    <3>3. \A i \in 1 .. RegionSz :
             \E l \in 1 .. Lnt[q] : AfterRight(a, q)[l] = AfterLeft(a, q - 1)[Lnt[q - 1] + i]
      BY <3>2, RightPhase
    <3>4. PICK l \in 1 .. Lnt[q] : AfterRight(a, q)[l] = AfterLeft(a, r)[Lnt[r] + (k - Lnt[r])]
      BY <3>1, <3>2, <3>3
    <3> QED BY <3>1, <3>4 DEF RowsOf
  <2> QED BY <2>1, <2>2, <1>1
<1>6. ASSUME NEW r \in Rank, NEW i \in 1 .. Lnt[r]
      PROVE  a[r][i] \in RowsOf(c)
  <2>1. CASE i > Edge1(r)
    <3>1. i \in Edge1(r) + 1 .. Lnt[r]
      BY <2>1, <1>1
    <3>2. PICK k \in Edge1(r) + 1 .. Size(r) : B(r)[k] = a[r][i]
      BY <3>1, LeftPhase
    <3>3. B(r)[k] \in RowsOf(c)
      BY <1>5
    <3> QED BY <3>2, <3>3
  <2>2. CASE i <= Edge1(r)
    <3>1. r # 0 /\ i \in 1 .. RegionSz
      BY <2>2, <1>1
    <3>2. r - 1 \in Rank /\ r - 1 # LastRank /\ r - 1 + 1 = r
      BY <3>1, <1>2
    <3>3. \A j \in 1 .. RegionSz : \E k \in Edge1(r - 1) + 1 .. Size(r - 1) :
             B(r - 1)[k] = a[r - 1 + 1][j]
      BY <3>2, LeftPhase
    <3>4. PICK k \in Edge1(r - 1) + 1 .. Size(r - 1) : B(r - 1)[k] = a[r][i]
      BY <3>1, <3>2, <3>3
    <3>5. B(r - 1)[k] \in RowsOf(c)
      BY <3>2, <1>5
    <3> QED BY <3>4, <3>5
  <2> QED BY <2>1, <2>2, <1>1
<1>7. RowsOf(c) \subseteq RowsOf(a)
  BY <1>4 DEF RowsOf
<1>8. RowsOf(a) \subseteq RowsOf(c)
  BY <1>6 DEF RowsOf
<1> QED BY <1>7, <1>8

(***************************************************************************)
(* A distributed vector with the same entries as one without duplicates    *)
(* has no duplicates either: both have one cell per entry.                 *)
(***************************************************************************)
LEMMA SameRowsDistinct ==
  ASSUME NEW a, Distinct(a), NEW c, RowsOf(c) = RowsOf(a)
  PROVE  Distinct(c)
<1> DEFINE fa == [x \in Cells |-> At(a, x)]
           fc == [x \in Cells |-> At(c, x)]
<1>1. IsFiniteSet(Cells)
  BY CellFacts
<1>2. fa \in Surjection(Cells, RowsOf(a)) /\ fc \in Surjection(Cells, RowsOf(a))
  BY RowsAt DEF Surjection
<1>3. fa \in Injection(Cells, RowsOf(a))
  <2>1. ASSUME NEW x \in Cells, NEW y \in Cells, fa[x] = fa[y]
        PROVE  x = y
    BY <2>1, OneCell
  <2> QED BY <2>1, <1>2 DEF Injection, IsInjective, Surjection
<1>4. Cardinality(RowsOf(a)) = Cardinality(Cells)
  BY <1>1, <1>2, <1>3, FS_Surjection
<1>5. fc \in Injection(Cells, RowsOf(a))
  BY <1>1, <1>2, <1>4, FS_SurjSameCardinalityImpliesInj
<1> SUFFICES ASSUME NEW r \in Rank, NEW s \in Rank,
                    NEW i \in 1 .. Lnt[r], NEW j \in 1 .. Lnt[s], Precedes(r, i, s, j)
             PROVE  c[r][i].ord # c[s][j].ord /\ c[r][i].gtn # c[s][j].gtn
  BY DEF Distinct
<1> DEFINE x == <<r, i>>
           y == <<s, j>>
<1>6. /\ x \in Cells /\ y \in Cells /\ Earlier(x, y)
      /\ At(c, x) = c[r][i] /\ At(c, y) = c[s][j]
  BY CellFacts DEF Earlier, At
<1> HIDE DEF x, y
<1>7. x # y /\ fc[x] # fc[y]
  BY <1>5, <1>6, CellFacts DEF Injection, IsInjective
<1>8. PICK u \in Cells, w \in Cells : At(c, x) = At(a, u) /\ At(c, y) = At(a, w)
  BY <1>6, RowsAt
<1>9. u # w
  BY <1>6, <1>7, <1>8
<1> QED BY <1>6, <1>8, <1>9, OneCell

(***************************************************************************)
(* The stopping rule.  If a round leaves every entry where it was, the low *)
(* block each process received went back where it came from, so the last   *)
(* entry of a process is below the first entry of the next one.  A region  *)
(* of at least one entry is needed: without it nothing is ever compared    *)
(* across two processes.                                                   *)
(***************************************************************************)
LEMMA NothingMovedBoundary ==
  ASSUME NEW a, Areas(a), Distinct(a), RegionSz > 0,
         \A r \in Rank : \A k \in 1 .. Lnt[r] : AfterRight(a, r)[k] = a[r][k],
         NEW r \in Rank, r # LastRank
  PROVE  Comp(a[r][Lnt[r]], a[r + 1][1])
<1> DEFINE B == AfterLeft(a, r)
           m == Lnt[r]
           n == Size(r)
           lo == Edge1(r) + 1
           kept == lo .. m
<1>1. /\ r \in Nat /\ m \in Nat /\ RegionSz \in Nat /\ 4 * RegionSz <= m
      /\ Edge1(r) \in Nat /\ Edge1(r) <= RegionSz /\ n = m + RegionSz /\ n \in Nat
  BY SizeFacts
<1>2. r + 1 \in Rank /\ r + 1 # r
  BY NumRankAssumption DEF Rank, LastRank
<1>3. Lnt[r + 1] \in Nat /\ 4 * RegionSz <= Lnt[r + 1]
  BY <1>2, SizeFacts
<1>4. B \in [1 .. n -> Row] /\ Ascending(B, lo, n)
  BY LeftPhase
<1>5. \A k \in lo .. n :
        \/ \E i \in kept : B[k] = a[r][i]
        \/ \E i \in 1 .. RegionSz : B[k] = a[r + 1][i]
  BY LeftPhase
<1>6. \E k \in lo .. n : B[k] = a[r + 1][1]
  <2>1. 1 \in 1 .. RegionSz
    BY <1>1
  <2> QED BY <2>1, LeftPhase
<1>7. \A k \in kept : \E i \in 1 .. m : a[r][i] = B[k]
  <2> TAKE k \in kept
  <2>1. PICK i \in 1 .. m : AfterRight(a, r)[i] = B[k]
    BY RightPhase
  <2> QED BY <2>1
<1> HIDE DEF B, m, n
\* The entries of r and of r + 1 are different ones.
<1>8. \A i \in 1 .. m, j \in 1 .. RegionSz : a[r][i] # a[r + 1][j]
  <2> TAKE i \in 1 .. m, j \in 1 .. RegionSz
  <2>1. j \in 1 .. Lnt[r + 1] /\ i \in 1 .. Lnt[r]
    BY <1>1, <1>3 DEF m
  <2> QED BY <2>1, <1>2, DistinctCells
\* What r kept in the left phase are its own entries.
<1>9. \A k \in kept : \E i \in kept : B[k] = a[r][i]
  <2> TAKE k \in kept
  <2>1. k \in lo .. n
    BY <1>1
  <2>2. PICK i \in 1 .. m : a[r][i] = B[k]
    BY <1>7
  <2>3. ~\E j \in 1 .. RegionSz : B[k] = a[r + 1][j]
    BY <2>2, <1>8
  <2> QED BY <2>1, <2>3, <1>5
\* They are as many as the places they come from, so all of those are kept.
<1>10. \E k \in kept : B[k] = a[r][m]
  <2> DEFINE from == [k \in kept |-> CHOOSE i \in kept : B[k] = a[r][i]]
  <2>1. \A k \in kept : from[k] \in kept /\ B[k] = a[r][from[k]]
    BY <1>9
  <2>2. \A k, l \in kept : k # l => B[k].ord # B[l].ord
    <3>1. \A k \in lo .. n : B[k] \in Row
      BY <1>1, <1>4
    <3>2. Untied(B, lo, n)
      BY <1>1, <1>4, <3>1, AscendingUntied
    <3> QED BY <3>2, <1>1 DEF Untied
  <2> HIDE DEF from
  <2>3. \A k, l \in kept : from[k] = from[l] => k = l
    BY <2>1, <2>2
  <2>4. from \in Injection(kept, kept)
    <3>1. from \in [kept -> kept]
      BY <2>1 DEF from
    <3> QED BY <3>1, <2>3 DEF Injection, IsInjective
  <2>5. IsFiniteSet(kept)
    <3>1. lo \in Int /\ m \in Int
      BY <1>1
    <3> HIDE DEF lo
    <3> QED BY <3>1, FS_Interval
  <2>6. from \in Surjection(kept, kept)
    BY <2>4, <2>5, FS_Injection
  <2>7. m \in kept
    BY <1>1
  <2>8. \E k \in kept : from[k] = m
    BY <2>6, <2>7 DEF Surjection
  <2> QED BY <2>1, <2>8
<1>11. PICK k \in kept : B[k] = a[r][m]
  BY <1>10
<1>12. PICK l \in lo .. n : B[l] = a[r + 1][1]
  BY <1>6
<1>13. l \notin kept
  <2>1. 1 \in 1 .. RegionSz
    BY <1>1
  <2>2. \A i \in kept : i \in 1 .. m
    BY <1>1
  <2> QED BY <2>1, <2>2, <1>8, <1>9, <1>12
<1>14. k \in lo .. n /\ k < l
  BY <1>1, <1>11, <1>12, <1>13
<1>15. Comp(B[k], B[l])
  BY <1>4, <1>12, <1>14 DEF Ascending
<1> QED BY <1>11, <1>12, <1>15 DEF m

(***************************************************************************)
(* Processes that are sorted locally and in order at every boundary are in *)
(* order over any distance.                                                *)
(***************************************************************************)
LEMMA BoundariesSuffice ==
  ASSUME NEW a, Areas(a),
         \A r \in Rank : Lnt[r] > 0 /\ Ascending(a[r], 1, Lnt[r]),
         \A r \in Rank : r # LastRank => Comp(a[r][Lnt[r]], a[r + 1][1])
  PROVE  GloballySorted(a)
<1>1. \A r \in Rank : /\ r \in Nat /\ r < NumRank /\ Lnt[r] \in Nat
                      /\ \A i \in 1 .. Lnt[r] : a[r][i].ord \in Nat
  <2> TAKE r \in Rank
  <2>1. Lnt[r] <= Size(r) /\ Lnt[r] \in Nat /\ Size(r) \in Nat /\ r \in Nat
    BY SizeFacts
  <2>2. \A i \in 1 .. Lnt[r] : a[r][i] \in Row
    BY <2>1 DEF Areas
  <2> QED BY <2>1, <2>2, NumRankAssumption DEF Rank, Row
<1>2. ASSUME NEW r \in Rank, NEW i \in 1 .. Lnt[r], NEW j \in 1 .. Lnt[r], i <= j
      PROVE  a[r][i].ord <= a[r][j].ord
  <2>1. CASE i = j
    BY <2>1, <1>1
  <2>2. CASE i < j
    BY <2>2, <1>1 DEF Ascending, Comp
  <2> QED BY <2>1, <2>2, <1>2
\* By the least s that some r is not below.
<1>3. ASSUME NEW r \in Rank
      PROVE  \A s \in Rank : r < s => a[r][Lnt[r]].ord < a[s][1].ord
  <2> DEFINE Bad == {s \in Rank : r < s /\ ~(a[r][Lnt[r]].ord < a[s][1].ord)}
  <2> SUFFICES ASSUME Bad # {} PROVE FALSE
    OBVIOUS
  <2>1. Bad \in SUBSET Nat
    BY <1>1
  <2>2. PICK s \in Bad : \A t \in Bad : s <= t
    BY <2>1, LeastNat
  <2>3. s \in Rank /\ r < s /\ ~(a[r][Lnt[r]].ord < a[s][1].ord)
    BY <2>2
  <2>4. s - 1 \in Rank /\ s - 1 # LastRank /\ s - 1 + 1 = s /\ s - 1 < s /\ r <= s - 1
    BY <2>3, <1>1, NumRankAssumption DEF Rank, LastRank
  <2>5. a[s - 1][Lnt[s - 1]].ord < a[s][1].ord
    BY <2>4 DEF Comp
  <2>6. s - 1 \notin Bad
    BY <2>2, <2>3, <2>4, <1>1
  <2>7. /\ 1 \in 1 .. Lnt[s] /\ 1 \in 1 .. Lnt[s - 1] /\ Lnt[s - 1] \in 1 .. Lnt[s - 1]
        /\ 1 <= Lnt[s - 1] /\ Lnt[r] \in 1 .. Lnt[r]
    BY <2>3, <2>4, <1>1
  <2>8. /\ a[s][1].ord \in Nat /\ a[s - 1][1].ord \in Nat
        /\ a[s - 1][Lnt[s - 1]].ord \in Nat /\ a[r][Lnt[r]].ord \in Nat
    BY <2>3, <2>4, <2>7, <1>1
  <2>9. CASE r = s - 1
    BY <2>3, <2>5, <2>9
  <2>10. CASE r < s - 1
    <3>1. a[r][Lnt[r]].ord < a[s - 1][1].ord
      BY <2>4, <2>6, <2>10
    <3>2. a[s - 1][1].ord <= a[s - 1][Lnt[s - 1]].ord
      BY <2>4, <2>7, <1>2
    <3> QED BY <3>1, <3>2, <2>3, <2>5, <2>8
  <2> QED BY <2>4, <2>9, <2>10, <1>1
<1> SUFFICES ASSUME NEW r \in Rank, NEW s \in Rank,
                    NEW i \in 1 .. Lnt[r], NEW j \in 1 .. Lnt[s], Precedes(r, i, s, j)
             PROVE  a[r][i].ord < a[s][j].ord
  BY DEF GloballySorted, Comp
<1>4. CASE r = s /\ i < j
  BY <1>4 DEF Ascending, Comp
<1>5. CASE r < s
  <2>1. /\ Lnt[r] \in 1 .. Lnt[r] /\ i <= Lnt[r] /\ 1 \in 1 .. Lnt[s] /\ 1 <= j
    BY <1>1
  <2>2. a[r][i].ord <= a[r][Lnt[r]].ord /\ a[s][1].ord <= a[s][j].ord
    BY <2>1, <1>2
  <2>3. a[r][Lnt[r]].ord < a[s][1].ord
    BY <1>3, <1>5
  <2>4. /\ a[r][i].ord \in Nat /\ a[r][Lnt[r]].ord \in Nat
        /\ a[s][1].ord \in Nat /\ a[s][j].ord \in Nat
    BY <2>1, <1>1
  <2> QED BY <2>2, <2>3, <2>4
<1> QED BY <1>4, <1>5 DEF Precedes
-----------------------------------------------------------------------------
(***************************************************************************)
(* The shapes of blocks and work areas.                                    *)
(***************************************************************************)
LEMMA BlockTypes ==
  ASSUME NEW r \in Rank, NEW f \in [1 .. Size(r) -> Row]
  PROVE  /\ LowBlock(f) \in Block
         /\ r # LastRank => HighBlock(r, f) \in Block
<1>1. /\ Lnt[r] \in Nat /\ RegionSz \in Nat /\ Size(r) \in Nat
      /\ RegionSz <= Size(r) /\ (r # LastRank => Size(r) = Lnt[r] + RegionSz)
  BY SizeFacts
<1>2. LowBlock(f) \in Block
  BY <1>1 DEF LowBlock, Block
<1>3. ASSUME r # LastRank, NEW k \in 1 .. RegionSz
      PROVE  f[Lnt[r] + k] \in Row
  <2>1. Lnt[r] + k \in 1 .. Size(r)
    BY <1>1, <1>3
  <2> QED BY <2>1
<1> QED BY <1>2, <1>3 DEF HighBlock, Block

LEMMA AreaTypes ==
  ASSUME NEW r \in Rank, NEW f \in [1 .. Size(r) -> Row], NEW b \in Block
  PROVE  /\ r # LastRank => WithHigh(r, f, b) \in [1 .. Size(r) -> Row]
         /\ WithLow(r, f, b) \in [1 .. Size(r) -> Row]
         /\ SortRange(f, Edge1(r) + 1, Size(r)) \in [1 .. Size(r) -> Row]
         /\ SortRange(f, 1, Size(r) - Edge2(r)) \in [1 .. Size(r) -> Row]
<1>1. /\ Lnt[r] \in Nat /\ RegionSz \in Nat /\ Size(r) \in Nat
      /\ Edge1(r) \in Nat /\ Edge2(r) \in Nat /\ Size(r) - Edge2(r) = Lnt[r] /\ Lnt[r] <= Size(r)
      /\ (r # LastRank => Size(r) = Lnt[r] + RegionSz)
  BY SizeFacts
<1>2. ASSUME r # LastRank
      PROVE  WithHigh(r, f, b) \in [1 .. Size(r) -> Row]
  <2>1. ASSUME NEW k \in 1 .. Size(r), k > Lnt[r]
        PROVE  b[k - Lnt[r]] \in Row
    <3>1. k - Lnt[r] \in 1 .. RegionSz
      BY <1>1, <1>2, <2>1, SMTT(30)
    <3> QED BY <3>1 DEF Block
  <2> QED BY <2>1 DEF WithHigh
<1>3. WithLow(r, f, b) \in [1 .. Size(r) -> Row]
  <2>1. ASSUME NEW k \in 1 .. Size(r), k <= RegionSz
        PROVE  b[k] \in Row
    <3>1. k \in 1 .. RegionSz
      BY <1>1, <2>1
    <3> QED BY <3>1 DEF Block
  <2> QED BY <2>1 DEF WithLow
<1>4. ASSUME NEW lo \in Nat, NEW hi \in Nat, 1 <= lo, hi <= Size(r)
      PROVE  SortRange(f, lo, hi) \in [1 .. Size(r) -> Row]
  BY <1>1, <1>4, SortRangeSorts
<1>5. /\ Edge1(r) + 1 \in Nat /\ 1 <= Edge1(r) + 1 /\ Size(r) <= Size(r)
      /\ 1 \in Nat /\ 1 <= 1
  BY <1>1
<1>6. SortRange(f, Edge1(r) + 1, Size(r)) \in [1 .. Size(r) -> Row]
  BY <1>1, <1>4, <1>5
<1>7. SortRange(f, 1, Size(r) - Edge2(r)) \in [1 .. Size(r) -> Row]
  BY <1>1, <1>4, <1>5
<1> QED BY <1>2, <1>3, <1>6, <1>7

(***************************************************************************)
(* The neighbours of a rank.                                               *)
(***************************************************************************)
LEMMA Neighbours ==
  ASSUME NEW r \in Rank
  PROVE  /\ r \in Nat /\ LastRank \in Nat
         /\ r # LastRank => r + 1 \in Rank /\ r + 1 # 0 /\ (r + 1) - 1 = r /\ NumRank # 1
         /\ r # 0 => r - 1 \in Rank /\ r - 1 # LastRank /\ (r - 1) + 1 = r /\ NumRank # 1
BY NumRankAssumption DEF Rank, LastRank
-----------------------------------------------------------------------------
(***************************************************************************)
(* Type correctness: in particular every block fits the region it is       *)
(* copied into, and every sort stays inside the work area.                 *)
(***************************************************************************)
LEMMA InitType == Init => TypeOK
<1> SUFFICES ASSUME Init PROVE TypeOK
  OBVIOUS
<1>1. IsVector(dat)
  BY InputsAssumption DEF Init
<1>2. \A r \in Rank : [k \in 1 .. Size(r) |-> Blank] \in [1 .. Size(r) -> Row]
  BY DEF Blank, Row
<1> QED BY <1>1, <1>2 DEF Init, TypeOK

LEMMA NextType == TypeOK /\ [Next]_vars => TypeOK'
<1> SUFFICES ASSUME TypeOK, [Next]_vars PROVE TypeOK'
  OBVIOUS
<1> USE DEF TypeOK
<1>1. ASSUME NEW r \in Rank, LocalSort(r)
      PROVE  TypeOK'
  <2> DEFINE s == SortRange(dat[r], 1, Lnt[r])
             t == [k \in 1 .. Size(r) |-> IF k <= Lnt[r] THEN s[k] ELSE temp1[r][k]]
  <2>1. Lnt[r] \in Nat /\ Size(r) \in Nat /\ 1 \in Nat /\ 1 <= 1 /\ Lnt[r] <= Lnt[r]
    BY SizeFacts
  <2>2. s \in [1 .. Lnt[r] -> Row]
    BY <2>1, SortRangeSorts DEF IsVector
  <2> HIDE DEF s
  <2>3. t \in [1 .. Size(r) -> Row]
    BY <2>1, <2>2
  <2>4. temp1' = [temp1 EXCEPT ![r] = t]
    BY <1>1 DEF LocalSort, s
  <2> HIDE DEF t
  <2> QED BY <1>1, <2>3, <2>4 DEF LocalSort, Move, IsVector
<1>2. ASSUME NEW r \in Rank, BeginRound(r)
      PROVE  TypeOK'
  <2>1. LowBlock(temp1[r]) \in Block
    BY BlockTypes
  <2>2. left' \in [Rank -> Seq(Block)]
    BY <1>2, <2>1 DEF BeginRound, Post
  <2> QED BY <1>2, <2>2 DEF BeginRound, Move, IsVector
<1>3. ASSUME NEW r \in Rank, EndLeft(r)
      PROVE  TypeOK'
  <2> DEFINE got == IF r # LastRank THEN WithHigh(r, temp1[r], Head(left[r + 1])) ELSE temp1[r]
             sorted == SortRange(got, Edge1(r) + 1, Size(r))
  <2>1. r # LastRank => r + 1 \in Rank /\ left[r + 1] # <<>> /\ left[r + 1] \in Seq(Block)
    BY <1>3, Neighbours DEF EndLeft, LeftArrived
  <2>2. r # LastRank => Head(left[r + 1]) \in Block /\ Tail(left[r + 1]) \in Seq(Block)
    BY <2>1
  <2>3. got \in [1 .. Size(r) -> Row]
    BY <2>2, AreaTypes
  <2> HIDE DEF got
  <2>4. \E b : b \in Block
    BY BlockTypes
  <2>5. sorted \in [1 .. Size(r) -> Row]
    BY <2>3, <2>4, AreaTypes
  <2>6. temp1' = [temp1 EXCEPT ![r] = sorted]
    BY <1>3 DEF EndLeft, got
  <2>7. left' = IF r # LastRank THEN Take(left, r + 1) ELSE left
    BY <1>3 DEF EndLeft
  <2>8. right' = IF r # LastRank THEN Post(right, r, HighBlock(r, sorted)) ELSE right
    BY <1>3 DEF EndLeft, got
  <2> HIDE DEF sorted
  <2>9. left' \in [Rank -> Seq(Block)]
    BY <2>2, <2>7 DEF Take
  <2>10. r # LastRank => HighBlock(r, sorted) \in Block
    BY <2>5, BlockTypes
  <2>11. right' \in [Rank -> Seq(Block)]
    BY <2>8, <2>10 DEF Post
  <2> QED BY <1>3, <2>5, <2>6, <2>9, <2>11 DEF EndLeft, Move, IsVector
<1>4. ASSUME NEW r \in Rank, EndRight(r)
      PROVE  TypeOK'
  <2> DEFINE got == IF r # 0 THEN WithLow(r, temp1[r], Head(right[r - 1])) ELSE temp1[r]
             sorted == SortRange(got, 1, Size(r) - Edge2(r))
  <2>1. r # 0 => r - 1 \in Rank /\ right[r - 1] # <<>> /\ right[r - 1] \in Seq(Block)
    BY <1>4, Neighbours DEF EndRight, RightArrived
  <2>2. r # 0 => Head(right[r - 1]) \in Block /\ Tail(right[r - 1]) \in Seq(Block)
    BY <2>1
  <2>3. got \in [1 .. Size(r) -> Row]
    BY <2>2, AreaTypes
  <2> HIDE DEF got
  <2>4. \E b : b \in Block
    BY BlockTypes
  <2>5. sorted \in [1 .. Size(r) -> Row]
    BY <2>3, <2>4, AreaTypes
  <2>6. temp1' = [temp1 EXCEPT ![r] = sorted]
    BY <1>4 DEF EndRight, got
  <2>7. right' = IF r # 0 THEN Take(right, r - 1) ELSE right
    BY <1>4 DEF EndRight
  <2>8. vote' = [vote EXCEPT ![r] = Moved(r, sorted, temp2[r])]
    BY <1>4 DEF EndRight, got
  <2> HIDE DEF sorted
  <2>9. right' \in [Rank -> Seq(Block)]
    BY <2>2, <2>7 DEF Take
  <2>10. vote' \in [Rank -> BOOLEAN]
    BY <2>8 DEF Moved
  <2> QED BY <1>4, <2>5, <2>6, <2>9, <2>10 DEF EndRight, Move, IsVector
<1>5. ASSUME NEW r \in Rank, Return(r)
      PROVE  TypeOK'
  <2>1. Lnt[r] \in Nat /\ Lnt[r] <= Size(r) /\ Size(r) \in Nat
    BY SizeFacts
  <2>2. Local(r, temp1[r]) \in [1 .. Lnt[r] -> Row]
    BY <2>1 DEF Local
  <2> QED BY <1>5, <2>2 DEF Return, Move, IsVector
<1>6. CASE Allreduce
  BY <1>6 DEF Allreduce, IsVector
<1>7. CASE UNCHANGED vars
  BY <1>7 DEF vars, IsVector
<1> QED BY <1>1, <1>2, <1>3, <1>4, <1>5, <1>6, <1>7 DEF Next, Step, Finished

(***************************************************************************)
(* The type invariant holds in every run of the sort.                      *)
(***************************************************************************)
THEOREM TypeCorrect == Spec => []TypeOK
BY InitType, NextType, PTL DEF Spec
-----------------------------------------------------------------------------
(***************************************************************************)
(* The dataflow of a round.  A block is in flight from its post to its     *)
(* receipt, so a process that is past a phase has a neighbour that has     *)
(* begun the round, and no process begins the next round while a           *)
(* neighbour still needs this one's copy in temp2.                         *)
(***************************************************************************)
RoundInv == PhaseInv /\ ChannelInv /\ DataInv

LEMMA AfterLeftLocal ==
  ASSUME NEW a, NEW b, NEW r \in Rank,
         a[r] = b[r], r # LastRank => a[r + 1] = b[r + 1]
  PROVE  AfterLeft(a, r) = AfterLeft(b, r)
BY DEF AfterLeft

LEMMA AfterRightLocal ==
  ASSUME NEW a, NEW b, NEW r \in Rank,
         a[r] = b[r], r # LastRank => a[r + 1] = b[r + 1], r # 0 => a[r - 1] = b[r - 1]
  PROVE  AfterRight(a, r) = AfterRight(b, r)
<1>1. AfterLeft(a, r) = AfterLeft(b, r)
  BY AfterLeftLocal
<1>2. r # 0 => AfterLeft(a, r - 1) = AfterLeft(b, r - 1)
  BY AfterLeftLocal, Neighbours
<1> QED BY <1>1, <1>2 DEF AfterRight

LEMMA InitRound == Init => RoundInv
BY DEF Init, RoundInv, PhaseInv, ChannelInv, DataInv, Begun, Out

(***************************************************************************)
(* What each action does to the program counters.                          *)
(***************************************************************************)
Moves(r, from, to) == DOMAIN pc = Rank /\ pc[r] = from /\ pc' = [pc EXCEPT ![r] = to]

LEMMA PcSteps ==
  ASSUME TypeOK, NEW r \in Rank
  PROVE  /\ LocalSort(r) => \/ NumRank = 1 /\ Moves(r, "sort", "copy")
                            \/ NumRank # 1 /\ Moves(r, "sort", "round")
         /\ BeginRound(r) => Moves(r, "round", "left")
         /\ EndLeft(r) => Moves(r, "left", "right")
         /\ EndRight(r) => Moves(r, "right", "reduce")
         /\ Return(r) => Moves(r, "copy", "done")
<1>1. DOMAIN pc = Rank
  BY DEF TypeOK
<1>2. NumRank > 1 \/ NumRank = 1
  BY NumRankAssumption
<1> QED BY <1>1, <1>2 DEF Moves, Move, LocalSort, BeginRound, EndLeft, EndRight, Return

LEMMA NextPhase == TypeOK /\ RoundInv /\ [Next]_vars => PhaseInv'
<1> SUFFICES ASSUME TypeOK, PhaseInv, ChannelInv, [Next]_vars PROVE PhaseInv'
  BY DEF RoundInv
<1>0. \A r \in Rank : r \in Int
  BY Neighbours
<1>1. ASSUME NEW r \in Rank, LocalSort(r)
      PROVE  PhaseInv'
  <2>1. CASE NumRank = 1 /\ Moves(r, "sort", "copy")
    <3>1. \A q \in Rank : q = r
      BY <2>1 DEF Rank
    <3> QED BY <2>1, <3>1, Neighbours DEF Moves, PhaseInv, Begun, Out
  <2>2. CASE NumRank # 1 /\ Moves(r, "sort", "round")
    BY <1>0, <2>2 DEF Moves, PhaseInv, Begun, Out
  <2> QED BY <1>1, <2>1, <2>2, PcSteps
<1>2. ASSUME NEW r \in Rank, BeginRound(r)
      PROVE  PhaseInv'
  <2>1. Moves(r, "round", "left")
    BY <1>2, PcSteps
  <2> QED BY <1>0, <2>1 DEF Moves, PhaseInv, Begun, Out
<1>3. ASSUME NEW r \in Rank, EndLeft(r)
      PROVE  PhaseInv'
  <2>1. r # LastRank => pc[r + 1] \in {"left", "right", "reduce"}
    BY <1>3, Neighbours DEF EndLeft, LeftArrived, ChannelInv, Begun
  <2>2. Moves(r, "left", "right")
    BY <1>3, PcSteps
  <2> QED BY <1>0, <2>1, <2>2, Neighbours DEF Moves, PhaseInv, Begun, Out
<1>4. ASSUME NEW r \in Rank, EndRight(r)
      PROVE  PhaseInv'
  <2>1. r # 0 => pc[r - 1] \in {"right", "reduce"}
    BY <1>4, Neighbours DEF EndRight, RightArrived, ChannelInv
  <2>2. Moves(r, "right", "reduce")
    BY <1>4, PcSteps
  <2> QED BY <1>0, <2>1, <2>2, Neighbours DEF Moves, PhaseInv, Begun, Out
<1>5. ASSUME NEW r \in Rank, Return(r)
      PROVE  PhaseInv'
  <2>1. Moves(r, "copy", "done")
    BY <1>5, PcSteps
  <2> QED BY <1>0, <2>1 DEF Moves, PhaseInv, Begun, Out
<1>6. CASE Allreduce
  BY <1>6, Neighbours DEF Allreduce, PhaseInv, Begun, Out
<1>7. CASE UNCHANGED vars
  BY <1>7 DEF vars, PhaseInv, Begun, Out
<1> QED BY <1>1, <1>2, <1>3, <1>4, <1>5, <1>6, <1>7 DEF Next, Step, Finished

(***************************************************************************)
(* What the two Waits deliver: the blocks of this round, so the sorts      *)
(* compute AfterLeft and AfterRight.                                       *)
(***************************************************************************)
LEMMA LeftResult ==
  ASSUME TypeOK, RoundInv, NEW r \in Rank, EndLeft(r)
  PROVE  /\ temp1' = [temp1 EXCEPT ![r] = AfterLeft(temp2, r)]
         /\ r # LastRank => right' = Post(right, r, HighBlock(r, AfterLeft(temp2, r)))
         /\ r = LastRank => right' = right
<1>1. temp1[r] = temp2[r]
  BY PcSteps DEF Moves, RoundInv, DataInv
<1>2. r # LastRank => Head(left[r + 1]) = LowBlock(temp2[r + 1])
  <2> SUFFICES ASSUME r # LastRank PROVE Head(left[r + 1]) = LowBlock(temp2[r + 1])
    OBVIOUS
  <2>1. r + 1 \in Rank /\ left[r + 1] # <<>>
    BY Neighbours DEF EndLeft, LeftArrived
  <2>2. left[r + 1] = <<LowBlock(temp2[r + 1])>>
    BY <2>1 DEF RoundInv, ChannelInv
  <2> QED BY <2>2
<1>3. AfterLeft(temp2, r) =
        SortRange(IF r # LastRank THEN WithHigh(r, temp1[r], Head(left[r + 1])) ELSE temp1[r],
                  Edge1(r) + 1, Size(r))
  BY <1>1, <1>2 DEF AfterLeft
<1> QED BY <1>3 DEF EndLeft

LEMMA RightResult ==
  ASSUME TypeOK, RoundInv, NEW r \in Rank, EndRight(r)
  PROVE  /\ temp1' = [temp1 EXCEPT ![r] = AfterRight(temp2, r)]
         /\ vote' = [vote EXCEPT ![r] =
                       Moved(r, AfterRight(temp2, r), temp2[r])]
<1>1. temp1[r] = AfterLeft(temp2, r)
  BY PcSteps DEF Moves, RoundInv, DataInv
<1>2. r # 0 => Head(right[r - 1]) = HighBlock(r - 1, AfterLeft(temp2, r - 1))
  <2> SUFFICES ASSUME r # 0
               PROVE  Head(right[r - 1]) = HighBlock(r - 1, AfterLeft(temp2, r - 1))
    OBVIOUS
  <2>1. r - 1 \in Rank /\ right[r - 1] # <<>>
    BY Neighbours DEF EndRight, RightArrived
  <2>2. right[r - 1] = <<HighBlock(r - 1, AfterLeft(temp2, r - 1))>>
    BY <2>1 DEF RoundInv, ChannelInv
  <2> QED BY <2>2
<1>3. AfterRight(temp2, r) =
        SortRange(IF r # 0 THEN WithLow(r, temp1[r], Head(right[r - 1])) ELSE temp1[r],
                  1, Size(r) - Edge2(r))
  BY <1>1, <1>2 DEF AfterRight
<1> QED BY <1>3 DEF EndRight

(***************************************************************************)
(* A process that begins the round changes its copy in temp2, which no     *)
(* process past its left phase has used.                                   *)
(***************************************************************************)
LEMMA BeginUnseen ==
  ASSUME TypeOK, RoundInv, NEW r \in Rank, BeginRound(r),
         NEW q \in Rank, pc[q] \in {"right", "reduce"}
  PROVE  /\ q # r /\ (q # LastRank => q + 1 # r)
         /\ AfterLeft(temp2', q) = AfterLeft(temp2, q)
         /\ pc[q] = "reduce" => AfterRight(temp2', q) = AfterRight(temp2, q)
<1>1. pc[r] = "round" /\ temp2' = [temp2 EXCEPT ![r] = temp1[r]] /\ DOMAIN temp2 = Rank
  BY PcSteps DEF Moves, BeginRound, TypeOK
<1>2. q # r /\ (q # LastRank => q + 1 # r)
  BY <1>1 DEF RoundInv, PhaseInv, Begun
<1>3. pc[q] = "reduce" /\ q # 0 => q - 1 # r
  BY <1>1 DEF RoundInv, PhaseInv
<1>4. temp2'[q] = temp2[q] /\ (q # LastRank => temp2'[q + 1] = temp2[q + 1])
      /\ (pc[q] = "reduce" /\ q # 0 => temp2'[q - 1] = temp2[q - 1])
  BY <1>1, <1>2, <1>3, Neighbours
<1>5. AfterLeft(temp2', q) = AfterLeft(temp2, q)
  BY <1>4, AfterLeftLocal
<1>6. pc[q] = "reduce" => AfterRight(temp2', q) = AfterRight(temp2, q)
  BY <1>4, AfterRightLocal
<1> QED BY <1>2, <1>5, <1>6

LEMMA NextChannel == TypeOK /\ RoundInv /\ [Next]_vars => ChannelInv'
<1> SUFFICES ASSUME TypeOK, RoundInv, [Next]_vars PROVE ChannelInv'
  OBVIOUS
<1>0. /\ \A q \in Rank : q \in Int /\ (q # 0 => q - 1 \in Rank) /\ (q # LastRank => q + 1 \in Rank)
      /\ left \in [Rank -> Seq(Block)] /\ right \in [Rank -> Seq(Block)]
  BY Neighbours DEF TypeOK
<1>8. \A x : Tail(<<x>>) = <<>>
  OBVIOUS
<1>1. ASSUME NEW r \in Rank, LocalSort(r)
      PROVE  ChannelInv'
  <2>1. UNCHANGED <<left, right, temp2>>
    BY <1>1 DEF LocalSort
  <2>2. CASE NumRank = 1 /\ Moves(r, "sort", "copy")
    <3>1. \A q \in Rank : q = 0 /\ q = LastRank
      BY <2>2 DEF Rank, LastRank
    <3> QED BY <2>1, <3>1 DEF RoundInv, ChannelInv
  <2>3. CASE Moves(r, "sort", "round")
    BY <1>0, <2>1, <2>3 DEF Moves, RoundInv, ChannelInv, Begun
  <2> QED BY <1>1, <2>2, <2>3, PcSteps
<1>2. ASSUME NEW r \in Rank, BeginRound(r)
      PROVE  ChannelInv'
  <2>1. Moves(r, "round", "left")
    BY <1>2, PcSteps
  <2>2. /\ left' = IF r # 0 THEN Post(left, r, LowBlock(temp1[r])) ELSE left
        /\ right' = right /\ temp2' = [temp2 EXCEPT ![r] = temp1[r]] /\ DOMAIN temp2 = Rank
    BY <1>2 DEF BeginRound, TypeOK
  <2>3. r # 0 => pc[r - 1] \in {"sort", "round", "left"}
    <3>1. r # 0 => r - 1 \in Rank /\ (r - 1) + 1 = r /\ r - 1 # LastRank
      BY Neighbours
    <3>2. r # 0 => pc[r - 1] \in {"sort", "round", "left", "right", "reduce", "copy", "done"}
      BY <3>1 DEF TypeOK
    <3> QED BY <2>1, <3>1, <3>2 DEF Moves, RoundInv, PhaseInv, Begun, Out
  <2>4. left[r] = <<>>
    BY <2>1 DEF Moves, RoundInv, ChannelInv, Begun
  <2>5. ASSUME NEW q \in Rank
        PROVE  left'[q] = IF q # 0 /\ Begun(q)' /\ pc'[q - 1] \in {"sort", "round", "left"}
                          THEN <<LowBlock(temp2'[q])>> ELSE <<>>
    <3>1. CASE q = r
      <4>1. r # 0 => left'[r] = <<LowBlock(temp1[r])>> /\ pc'[r - 1] = pc[r - 1]
        BY <1>0, <2>1, <2>2, <2>4 DEF Post, Moves
      <4>2. r = 0 => left'[r] = <<>>
        BY <2>2, <2>4
      <4>3. temp2'[r] = temp1[r] /\ Begun(r)'
        BY <2>1, <2>2 DEF Moves, Begun
      <4> QED BY <2>3, <3>1, <4>1, <4>2, <4>3
    <3>2. CASE q # r
      <4>1. left'[q] = left[q] /\ temp2'[q] = temp2[q] /\ (Begun(q)' <=> Begun(q))
        BY <2>1, <2>2, <3>2 DEF Post, Moves, Begun
      <4>2. q # 0 => (pc'[q - 1] \in {"sort", "round", "left"} <=> pc[q - 1] \in {"sort", "round", "left"})
        BY <1>0, <2>1 DEF Moves
      <4> QED BY <4>1, <4>2 DEF RoundInv, ChannelInv
    <3> QED BY <3>1, <3>2
  <2>6. ASSUME NEW q \in Rank
        PROVE  right'[q] = IF q # LastRank /\ pc'[q] \in {"right", "reduce"} /\ pc'[q + 1] \in {"left", "right"}
                           THEN <<HighBlock(q, AfterLeft(temp2', q))>> ELSE <<>>
    <3>1. CASE pc[q] \in {"right", "reduce"}
      <4>1. pc'[q] = pc[q] /\ (q # LastRank => pc'[q + 1] = pc[q + 1])
            /\ AfterLeft(temp2', q) = AfterLeft(temp2, q)
        BY <1>0, <1>2, <2>1, <3>1, BeginUnseen DEF Moves
      <4> QED BY <2>2, <4>1 DEF RoundInv, ChannelInv
    <3>2. CASE pc[q] \notin {"right", "reduce"}
      <4>1. pc'[q] \notin {"right", "reduce"}
        BY <2>1, <3>2 DEF Moves
      <4> QED BY <2>2, <3>2, <4>1 DEF RoundInv, ChannelInv
    <3> QED BY <3>1, <3>2
  <2> QED BY <2>5, <2>6 DEF ChannelInv
<1>3. ASSUME NEW r \in Rank, EndLeft(r)
      PROVE  ChannelInv'
  <2>1. Moves(r, "left", "right")
    BY <1>3, PcSteps
  <2>2. /\ left' = IF r # LastRank THEN Take(left, r + 1) ELSE left
        /\ temp2' = temp2
    BY <1>3 DEF EndLeft
  <2>3. r # LastRank => pc[r + 1] \in {"left", "right"} /\ left[r + 1] = <<LowBlock(temp2[r + 1])>>
    <3>1. r # LastRank => r + 1 \in Rank /\ r + 1 # 0 /\ (r + 1) - 1 = r
      BY Neighbours
    <3>2. r # LastRank => left[r + 1] # <<>>
      BY <1>3 DEF EndLeft, LeftArrived
    <3> QED BY <2>1, <3>1, <3>2 DEF Moves, RoundInv, PhaseInv, ChannelInv, Begun
  <2>4. right[r] = <<>>
    BY <2>1 DEF Moves, RoundInv, ChannelInv
  <2>5. ASSUME NEW q \in Rank
        PROVE  left'[q] = IF q # 0 /\ Begun(q)' /\ pc'[q - 1] \in {"sort", "round", "left"}
                          THEN <<LowBlock(temp2'[q])>> ELSE <<>>
    <3>1. CASE r # LastRank /\ q = r + 1
      <4>3. left'[q] = Tail(left[q]) /\ left[q] = <<LowBlock(temp2[q])>>
        BY <2>2, <2>3, <3>1 DEF Take
      <4>1. left'[q] = <<>>
        BY <1>8, <4>3, Zenon
      <4>2. q - 1 = r /\ pc'[r] = "right"
        BY <1>0, <2>1, <3>1 DEF Moves
      <4> QED BY <4>1, <4>2
    <3>2. CASE ~(r # LastRank /\ q = r + 1)
      <4>1. left'[q] = left[q] /\ (Begun(q)' <=> Begun(q))
        BY <1>0, <2>1, <2>2, <3>2 DEF Take, Moves, Begun
      <4>2. q # 0 => q - 1 # r
        BY <1>0, <3>2, Neighbours
      <4>3. q # 0 => pc'[q - 1] = pc[q - 1]
        BY <1>0, <2>1, <4>2 DEF Moves
      <4> QED BY <2>2, <4>1, <4>3 DEF RoundInv, ChannelInv
    <3> QED BY <3>1, <3>2
  <2>6. ASSUME NEW q \in Rank
        PROVE  right'[q] = IF q # LastRank /\ pc'[q] \in {"right", "reduce"} /\ pc'[q + 1] \in {"left", "right"}
                           THEN <<HighBlock(q, AfterLeft(temp2', q))>> ELSE <<>>
    <3>1. CASE q = r
      <4>1. r # LastRank => right'[r] = <<HighBlock(r, AfterLeft(temp2, r))>>
        BY <1>3, <2>4, LeftResult DEF Post
      <4>2. r = LastRank => right'[r] = <<>>
        BY <1>3, <2>4, LeftResult
      <4>3. pc'[r] = "right" /\ (r # LastRank => pc'[r + 1] \in {"left", "right"})
        BY <1>0, <2>1, <2>3 DEF Moves
      <4> QED BY <2>2, <3>1, <4>1, <4>2, <4>3
    <3>2. CASE q # r
      <4>1. right'[q] = right[q] /\ pc'[q] = pc[q]
        BY <1>3, <2>1, <3>2, LeftResult DEF Post, Moves
      <4>2. q # LastRank => (pc'[q + 1] \in {"left", "right"} <=> pc[q + 1] \in {"left", "right"})
        BY <1>0, <2>1 DEF Moves
      <4> QED BY <2>2, <4>1, <4>2 DEF RoundInv, ChannelInv
    <3> QED BY <3>1, <3>2
  <2> QED BY <2>5, <2>6 DEF ChannelInv
<1>4. ASSUME NEW r \in Rank, EndRight(r)
      PROVE  ChannelInv'
  <2>1. Moves(r, "right", "reduce")
    BY <1>4, PcSteps
  <2>2. /\ right' = IF r # 0 THEN Take(right, r - 1) ELSE right
        /\ left' = left /\ temp2' = temp2
    BY <1>4 DEF EndRight
  <2>3. r # 0 => right[r - 1] = <<HighBlock(r - 1, AfterLeft(temp2, r - 1))>>
    <3>1. r # 0 => r - 1 \in Rank
      BY Neighbours
    <3>2. r # 0 => right[r - 1] # <<>>
      BY <1>4 DEF EndRight, RightArrived
    <3> QED BY <3>1, <3>2 DEF RoundInv, ChannelInv
  <2>4. ASSUME NEW q \in Rank
        PROVE  left'[q] = IF q # 0 /\ Begun(q)' /\ pc'[q - 1] \in {"sort", "round", "left"}
                          THEN <<LowBlock(temp2'[q])>> ELSE <<>>
    <3>1. Begun(q)' <=> Begun(q)
      BY <2>1 DEF Moves, Begun
    <3>2. q # 0 => (pc'[q - 1] \in {"sort", "round", "left"} <=> pc[q - 1] \in {"sort", "round", "left"})
      BY <1>0, <2>1 DEF Moves
    <3> QED BY <2>2, <3>1, <3>2 DEF RoundInv, ChannelInv
  <2>5. ASSUME NEW q \in Rank
        PROVE  right'[q] = IF q # LastRank /\ pc'[q] \in {"right", "reduce"} /\ pc'[q + 1] \in {"left", "right"}
                           THEN <<HighBlock(q, AfterLeft(temp2', q))>> ELSE <<>>
    <3>1. CASE r # 0 /\ q = r - 1
      <4>3. right'[q] = Tail(right[q]) /\ right[q] = <<HighBlock(q, AfterLeft(temp2, q))>>
        BY <2>2, <2>3, <3>1 DEF Take
      <4>1. right'[q] = <<>>
        BY <1>8, <4>3, Zenon
      <4>2. q + 1 = r /\ pc'[r] = "reduce"
        BY <1>0, <2>1, <3>1 DEF Moves
      <4> QED BY <4>1, <4>2
    <3>2. CASE ~(r # 0 /\ q = r - 1)
      <4>1. right'[q] = right[q] /\ (pc'[q] \in {"right", "reduce"} <=> pc[q] \in {"right", "reduce"})
        BY <1>0, <2>1, <2>2, <3>2 DEF Take, Moves
      <4>2. q # LastRank => q + 1 # r
        BY <1>0, <3>2, Neighbours
      <4>3. q # LastRank => pc'[q + 1] = pc[q + 1]
        BY <1>0, <2>1, <4>2 DEF Moves
      <4> QED BY <2>2, <4>1, <4>3 DEF RoundInv, ChannelInv
    <3> QED BY <3>1, <3>2
  <2> QED BY <2>4, <2>5 DEF ChannelInv
<1>5. ASSUME NEW r \in Rank, Return(r)
      PROVE  ChannelInv'
  <2>1. Moves(r, "copy", "done") /\ UNCHANGED <<left, right, temp2>>
    BY <1>5, PcSteps DEF Return
  <2> QED BY <1>0, <2>1 DEF Moves, RoundInv, ChannelInv, Begun
<1>6. CASE Allreduce
  BY <1>0, <1>6 DEF Allreduce, RoundInv, ChannelInv, Begun
<1>7. CASE UNCHANGED vars
  BY <1>7 DEF vars, RoundInv, ChannelInv, Begun
<1> QED BY <1>1, <1>2, <1>3, <1>4, <1>5, <1>6, <1>7 DEF Next, Step, Finished

LEMMA NextData == TypeOK /\ RoundInv /\ [Next]_vars => DataInv'
<1> SUFFICES ASSUME TypeOK, RoundInv, [Next]_vars PROVE DataInv'
  OBVIOUS
<1>0. DOMAIN temp1 = Rank /\ DOMAIN temp2 = Rank /\ DOMAIN vote = Rank
  BY DEF TypeOK
<1>1. ASSUME NEW r \in Rank, LocalSort(r)
      PROVE  DataInv'
  <2>1. Moves(r, "sort", "copy") \/ Moves(r, "sort", "round")
    BY <1>1, PcSteps
  <2>2. \A q \in Rank : q # r => temp1'[q] = temp1[q]
    BY <1>1 DEF LocalSort
  <2>3. temp2' = temp2 /\ vote' = vote
    BY <1>1 DEF LocalSort
  <2> QED BY <2>1, <2>2, <2>3 DEF Moves, RoundInv, DataInv
<1>2. ASSUME NEW r \in Rank, BeginRound(r)
      PROVE  DataInv'
  <2>1. Moves(r, "round", "left")
    BY <1>2, PcSteps
  <2>2. temp1' = temp1 /\ vote' = vote /\ temp2' = [temp2 EXCEPT ![r] = temp1[r]]
    BY <1>2 DEF BeginRound
  <2>3. temp2'[r] = temp1[r] /\ \A q \in Rank : q # r => temp2'[q] = temp2[q]
    BY <1>0, <2>2
  <2>4. \A q \in Rank : /\ pc[q] = "right" => AfterLeft(temp2', q) = AfterLeft(temp2, q)
                        /\ pc[q] = "reduce" => AfterRight(temp2', q) = AfterRight(temp2, q)
    BY <1>2, BeginUnseen
  <2> QED BY <2>1, <2>2, <2>3, <2>4 DEF Moves, RoundInv, DataInv
<1>3. ASSUME NEW r \in Rank, EndLeft(r)
      PROVE  DataInv'
  <2>1. Moves(r, "left", "right")
    BY <1>3, PcSteps
  <2>2. temp1' = [temp1 EXCEPT ![r] = AfterLeft(temp2, r)] /\ temp2' = temp2 /\ vote' = vote
    BY <1>3, LeftResult DEF EndLeft
  <2> QED BY <1>0, <2>1, <2>2 DEF Moves, RoundInv, DataInv
<1>4. ASSUME NEW r \in Rank, EndRight(r)
      PROVE  DataInv'
  <2> DEFINE changed == Moved(r, AfterRight(temp2, r), temp2[r])
  <2>1. Moves(r, "right", "reduce")
    BY <1>4, PcSteps
  <2>2. temp1' = [temp1 EXCEPT ![r] = AfterRight(temp2, r)] /\ temp2' = temp2
    BY <1>4, RightResult DEF EndRight
  <2>3. vote' = [vote EXCEPT ![r] = changed]
    BY <1>4, RightResult
  <2>4. vote'[r] = changed /\ \A q \in Rank : q # r => vote'[q] = vote[q]
    BY <1>0, <2>3
  <2>5. temp1'[r] = AfterRight(temp2, r) /\ \A q \in Rank : q # r => temp1'[q] = temp1[q]
    BY <1>0, <2>2
  <2>6. ASSUME NEW q \in Rank
        PROVE  /\ pc'[q] = "left"   => temp1'[q] = temp2'[q]
               /\ pc'[q] = "right"  => temp1'[q] = AfterLeft(temp2', q)
               /\ pc'[q] = "reduce" =>
                    /\ temp1'[q] = AfterRight(temp2', q)
                    /\ vote'[q] = Moved(q, temp1'[q], temp2'[q])
    <3>1. CASE q = r
      BY <2>1, <2>2, <2>4, <2>5, <3>1 DEF Moves
    <3>2. CASE q # r
      BY <2>1, <2>2, <2>4, <2>5, <3>2 DEF Moves, RoundInv, DataInv
    <3> QED BY <3>1, <3>2
  <2> QED BY <2>6 DEF DataInv
<1>5. ASSUME NEW r \in Rank, Return(r)
      PROVE  DataInv'
  <2>1. Moves(r, "copy", "done") /\ UNCHANGED <<temp1, temp2, vote>>
    BY <1>5, PcSteps DEF Return
  <2> QED BY <2>1 DEF Moves, RoundInv, DataInv
<1>6. CASE Allreduce
  BY <1>6 DEF Allreduce, DataInv
<1>7. CASE UNCHANGED vars
  BY <1>7 DEF vars, RoundInv, DataInv
<1> QED BY <1>1, <1>2, <1>3, <1>4, <1>5, <1>6, <1>7 DEF Next, Step, Finished

(***************************************************************************)
(* In every run of the sort the processes leave the loop together, only    *)
(* this round's blocks are in flight, and what a process computes in a     *)
(* phase is the function of the round's vector that AfterLeft and          *)
(* AfterRight define, however the processes are interleaved.               *)
(***************************************************************************)
THEOREM RoundInvariant == Spec => []RoundInv
<1>1. TypeOK /\ RoundInv /\ [Next]_vars => RoundInv'
  BY NextPhase, NextChannel, NextData DEF RoundInv
<1> QED BY InitRound, TypeCorrect, <1>1, PTL DEF Spec

\* The right phase leaves the blocks alone that a process has sent up.
LEMMA SentUpKept ==
  ASSUME NEW a, Areas(a), NEW r \in Rank, r # LastRank
  PROVE  HighBlock(r, AfterRight(a, r)) = HighBlock(r, AfterLeft(a, r))
<1> DEFINE B == AfterLeft(a, r)
           X == IF r # 0 THEN WithLow(r, B, HighBlock(r - 1, AfterLeft(a, r - 1))) ELSE B
           C == SortRange(X, 1, Size(r) - Edge2(r))
<1>1. /\ Lnt[r] \in Nat /\ RegionSz \in Nat /\ Size(r) \in Nat /\ RegionSz <= Lnt[r]
      /\ Size(r) = Lnt[r] + RegionSz /\ Size(r) - Edge2(r) = Lnt[r] /\ Lnt[r] <= Size(r)
  BY SizeFacts
<1>2. B \in [1 .. Size(r) -> Row]
  BY LeftPhase
<1>3. r # 0 => HighBlock(r - 1, AfterLeft(a, r - 1)) \in Block
  <2>1. r # 0 => r - 1 \in Rank /\ r - 1 # LastRank
    BY Neighbours
  <2>2. r # 0 => AfterLeft(a, r - 1) \in [1 .. Size(r - 1) -> Row]
    BY <2>1, LeftPhase
  <2> QED BY <2>1, <2>2, BlockTypes
<1> HIDE DEF B
<1>4. X \in [1 .. Size(r) -> Row]
  BY <1>2, <1>3, AreaTypes
<1>5. \A k \in 1 .. Size(r) : k > RegionSz => X[k] = B[k]
  BY <1>1, <1>2 DEF WithLow
<1> HIDE DEF X
<1>6. \A k \in (1 .. Size(r)) \ (1 .. Lnt[r]) : C[k] = X[k]
  BY <1>1, <1>4, SortRangeSorts
<1> HIDE DEF C
<1>7. ASSUME NEW k \in 1 .. RegionSz
      PROVE  C[Lnt[r] + k] = B[Lnt[r] + k]
  <2>1. Lnt[r] + k \in (1 .. Size(r)) \ (1 .. Lnt[r]) /\ Lnt[r] + k > RegionSz
    BY <1>1
  <2> QED BY <1>5, <1>6, <2>1
<1>8. AfterRight(a, r) = C
  BY DEF AfterRight, C, X, B
<1> QED BY <1>7, <1>8 DEF HighBlock, B

(***************************************************************************)
(* A block in flight was sent in the round its sender is in and is what    *)
(* the receiver must merge: no block of an earlier round is taken for one  *)
(* of this round.                                                          *)
(***************************************************************************)
THEOREM BlocksAreFresh == Spec => []FreshBlocks
<1>1. TypeOK /\ RoundInv => FreshBlocks
  <2> SUFFICES ASSUME TypeOK, RoundInv, NEW r \in Rank
               PROVE  /\ left[r]  # <<>> => /\ pc[r] \in {"left", "right"}
                                            /\ left[r] = <<LowBlock(temp2[r])>>
                      /\ right[r] # <<>> => /\ pc[r] \in {"right", "reduce"}
                                            /\ right[r] = <<HighBlock(r, temp1[r])>>
    BY DEF FreshBlocks
  <2>1. ASSUME left[r] # <<>>
        PROVE  pc[r] \in {"left", "right"} /\ left[r] = <<LowBlock(temp2[r])>>
    <3>1. /\ left[r] = <<LowBlock(temp2[r])>> /\ r # 0 /\ Begun(r)
          /\ pc[r - 1] \in {"sort", "round", "left"}
      BY <2>1 DEF RoundInv, ChannelInv
    <3>2. pc[r] # "reduce"
      BY <3>1 DEF RoundInv, PhaseInv
    <3> QED BY <3>1, <3>2 DEF Begun
  <2>2. ASSUME right[r] # <<>>
        PROVE  pc[r] \in {"right", "reduce"} /\ right[r] = <<HighBlock(r, temp1[r])>>
    <3>1. /\ right[r] = <<HighBlock(r, AfterLeft(temp2, r))>>
          /\ r # LastRank /\ pc[r] \in {"right", "reduce"}
      BY <2>2 DEF RoundInv, ChannelInv
    <3>2. CASE pc[r] = "right"
      BY <3>1, <3>2 DEF RoundInv, DataInv
    <3>3. CASE pc[r] = "reduce"
      <4>1. Areas(temp2)
        BY DEF TypeOK, Areas
      <4>2. HighBlock(r, AfterRight(temp2, r)) = HighBlock(r, AfterLeft(temp2, r))
        BY <3>1, <4>1, SentUpKept
      <4> QED BY <3>1, <3>3, <4>2 DEF RoundInv, DataInv
    <3> QED BY <3>1, <3>2, <3>3
  <2> QED BY <2>1, <2>2
<1> QED BY TypeCorrect, RoundInvariant, <1>1, PTL
-----------------------------------------------------------------------------
(***************************************************************************)
(* What the rounds do to the vector.  The results below are about vectors  *)
(* without duplicates: with them the comparator cannot order two entries,  *)
(* or the change test cannot see that they were exchanged.                 *)
(***************************************************************************)
DistinctInputs == \A v \in Inputs : Distinct(v)

LEMMA SameCells ==
  ASSUME NEW a, NEW c, \A r \in Rank : \A i \in 1 .. Lnt[r] : c[r][i] = a[r][i]
  PROVE  RowsOf(c) = RowsOf(a)
BY DEF RowsOf

\* A process that rearranges its own entries leaves the vector with the
\* same entries.
LEMMA RearrangedCells ==
  ASSUME NEW a, NEW c, NEW r \in Rank,
         \A q \in Rank : q # r => c[q] = a[q],
         Rearranges(c[r], a[r], 1, Lnt[r])
  PROVE  RowsOf(c) = RowsOf(a)
<1>1. ASSUME NEW q \in Rank, NEW i \in 1 .. Lnt[q]
      PROVE  /\ \E j \in 1 .. Lnt[q] : c[q][i] = a[q][j]
             /\ \E j \in 1 .. Lnt[q] : c[q][j] = a[q][i]
  BY DEF Rearranges
<1>2. RowsOf(c) \subseteq RowsOf(a)
  BY <1>1 DEF RowsOf
<1>3. RowsOf(a) \subseteq RowsOf(c)
  BY <1>1 DEF RowsOf
<1> QED BY <1>2, <1>3

\* The sort of the local entries.
LEMMA LocalResult ==
  ASSUME TypeOK, NEW r \in Rank, LocalSort(r)
  PROVE  /\ Rearranges(temp1'[r], dat[r], 1, Lnt[r])
         /\ Distinct(Held) => LocallySorted(r, temp1'[r])
         /\ \A q \in Rank : q # r => temp1'[q] = temp1[q]
<1> DEFINE g == SortRange(dat[r], 1, Lnt[r])
<1>1. Lnt[r] \in Nat /\ Size(r) \in Nat /\ Lnt[r] <= Size(r) /\ 1 \in Nat /\ 1 <= 1 /\ Lnt[r] <= Lnt[r]
  BY SizeFacts
<1>2. dat[r] \in [1 .. Lnt[r] -> Row]
  BY DEF TypeOK, IsVector
<1>3. /\ Rearranges(g, dat[r], 1, Lnt[r])
      /\ Untied(dat[r], 1, Lnt[r]) => Ascending(g, 1, Lnt[r])
  BY <1>1, <1>2, SortRangeSorts
<1>4. /\ temp1' = [temp1 EXCEPT ![r] = [k \in 1 .. Size(r) |-> IF k <= Lnt[r] THEN g[k] ELSE temp1[r][k]]]
      /\ DOMAIN temp1 = Rank
  BY DEF LocalSort, TypeOK
<1> HIDE DEF g
<1>5. \A k \in 1 .. Lnt[r] : temp1'[r][k] = g[k]
  BY <1>1, <1>4
<1>6. Rearranges(temp1'[r], dat[r], 1, Lnt[r])
  BY <1>3, <1>5 DEF Rearranges
<1>7. ASSUME Distinct(Held)
      PROVE  LocallySorted(r, temp1'[r])
  <2>1. Held[r] = dat[r]
    BY PcSteps DEF Held, Moves
  <2>2. Untied(dat[r], 1, Lnt[r])
    <3> SUFFICES ASSUME NEW i \in 1 .. Lnt[r], NEW j \in 1 .. Lnt[r], i # j
                 PROVE  dat[r][i].ord # dat[r][j].ord
      BY DEF Untied
    <3> QED BY <1>7, <2>1, DistinctCells
  <2> QED BY <1>3, <1>5, <2>2 DEF Ascending, LocallySorted
<1> QED BY <1>4, <1>6, <1>7

\* The vector as of the start of a round, before and after the Allreduce.
LEMMA RoundResult ==
  ASSUME TypeOK, RoundInv, Allreduce
  PROVE  /\ Areas(temp2)
         /\ \A r \in Rank : Held[r] = temp2[r] /\ Held'[r] = temp1[r]
         /\ \A r \in Rank : temp1[r] = AfterRight(temp2, r)
         /\ RowsOf(temp1) = RowsOf(temp2)
<1>1. Areas(temp2)
  BY DEF TypeOK, Areas
<1>2. \A r \in Rank : Held[r] = temp2[r] /\ Held'[r] = temp1[r]
  BY DEF Allreduce, Held, Begun
<1>3. \A r \in Rank : temp1[r] = AfterRight(temp2, r)
  BY DEF Allreduce, RoundInv, DataInv
<1>4. RowsOf(temp1) = RowsOf(temp2)
  BY <1>1, <1>3, RoundKeepsRows
<1> QED BY <1>1, <1>2, <1>3, <1>4

\* Apart from the local sort and the Allreduce nothing changes the vector as
\* of the start of the round.
LEMMA HeldKept ==
  ASSUME TypeOK, RoundInv, NEW r \in Rank,
         BeginRound(r) \/ EndLeft(r) \/ EndRight(r) \/ Return(r)
  PROVE  Held' = Held
<1>0. DOMAIN temp2 = Rank
  BY DEF TypeOK
<1>1. ASSUME BeginRound(r), NEW q \in Rank
      PROVE  Held'[q] = Held[q]
  <2>1. Moves(r, "round", "left") /\ temp1' = temp1 /\ dat' = dat
        /\ temp2' = [temp2 EXCEPT ![r] = temp1[r]]
    BY <1>1, PcSteps DEF BeginRound
  <2> QED BY <1>0, <2>1 DEF Moves, Held, Begun
<1>2. ASSUME EndLeft(r) \/ EndRight(r), NEW q \in Rank
      PROVE  Held'[q] = Held[q]
  <2>1. Moves(r, "left", "right") \/ Moves(r, "right", "reduce")
    BY <1>2, PcSteps
  <2>2. temp2' = temp2 /\ dat' = dat /\ (q # r => temp1'[q] = temp1[q])
    BY <1>2, LeftResult, RightResult DEF EndLeft, EndRight, TypeOK
  <2> QED BY <2>1, <2>2 DEF Moves, Held, Begun
<1>3. ASSUME Return(r), NEW q \in Rank
      PROVE  Held'[q] = Held[q]
  <2>1. Moves(r, "copy", "done") /\ UNCHANGED <<temp1, temp2>> /\ (q # r => dat'[q] = dat[q])
    BY <1>3, PcSteps DEF Return, TypeOK, IsVector
  <2> QED BY <2>1 DEF Moves, Held, Begun
<1> QED BY <1>1, <1>2, <1>3 DEF Held

LEMMA InitHeld == DistinctInputs /\ Init => HeldInv
<1> SUFFICES ASSUME DistinctInputs, Init PROVE HeldInv
  OBVIOUS
<1>1. \A r \in Rank : Held[r] = dat[r]
  BY DEF Init, Held
<1>2. RowsOf(Held) = RowsOf(dat)
  BY <1>1, SameCells
<1>3. Distinct(dat)
  BY DEF Init, DistinctInputs
<1> QED BY <1>2, <1>3, SameRowsDistinct DEF HeldInv

LEMMA NextHeld == TypeOK /\ RoundInv /\ HeldInv /\ [Next]_vars => HeldInv'
<1> SUFFICES ASSUME TypeOK, RoundInv, HeldInv, [Next]_vars PROVE HeldInv'
  OBVIOUS
<1>1. ASSUME NEW r \in Rank, LocalSort(r)
      PROVE  HeldInv'
  <2>1. /\ Moves(r, "sort", "copy") \/ Moves(r, "sort", "round")
        /\ dat' = dat /\ temp2' = temp2
    BY <1>1, PcSteps DEF LocalSort
  <2>2. Held[r] = dat[r] /\ Held'[r] = temp1'[r] /\ \A q \in Rank : q # r => Held'[q] = Held[q]
    BY <1>1, <2>1, LocalResult DEF Moves, Held, Begun
  <2>3. Rearranges(Held'[r], Held[r], 1, Lnt[r])
    BY <1>1, <2>2, LocalResult
  <2>4. RowsOf(Held') = RowsOf(Held)
    BY <2>2, <2>3, RearrangedCells
  <2>5. Distinct(Held')
    BY <2>4, SameRowsDistinct DEF HeldInv
  <2>6. \A q \in Rank : pc'[q] # "done" => pc[q] # "done"
    BY <2>1 DEF Moves
  <2>7. (\A q \in Rank : pc'[q] # "done") => RowsOf(Held') = RowsOf(dat')
    BY <2>1, <2>4, <2>6 DEF HeldInv
  <2> QED BY <2>5, <2>7 DEF HeldInv
<1>2. ASSUME NEW r \in Rank, BeginRound(r) \/ EndLeft(r) \/ EndRight(r) \/ Return(r)
      PROVE  HeldInv'
  <2>1. Held' = Held
    BY <1>2, HeldKept
  <2>2. (\A q \in Rank : pc'[q] # "done") => dat' = dat /\ \A q \in Rank : pc[q] # "done"
    BY <1>2, PcSteps DEF Moves, BeginRound, EndLeft, EndRight
  <2> QED BY <2>1, <2>2 DEF HeldInv
<1>3. CASE Allreduce
  <2>1. RowsOf(Held') = RowsOf(temp1) /\ RowsOf(Held) = RowsOf(temp2) /\ RowsOf(temp1) = RowsOf(temp2)
    BY <1>3, RoundResult, SameCells
  <2>2. Distinct(Held')
    BY <2>1, SameRowsDistinct DEF HeldInv
  <2>3. dat' = dat /\ \A q \in Rank : pc[q] # "done"
    BY <1>3 DEF Allreduce
  <2> QED BY <2>1, <2>2, <2>3 DEF HeldInv
<1>4. CASE UNCHANGED vars
  <2>1. Held' = Held /\ pc' = pc /\ dat' = dat
    BY <1>4 DEF vars, Held, Begun
  <2> QED BY <2>1 DEF HeldInv
<1> QED BY <1>1, <1>2, <1>3, <1>4 DEF Next, Step, Finished

(***************************************************************************)
(* Processes with an unfinished round have neighbours with one, so when    *)
(* each process is between two rounds or in the Allreduce and one of them  *)
(* is in the Allreduce, all are.                                           *)
(***************************************************************************)
LEMMA AllInReduce ==
  ASSUME PhaseInv, \A q \in Rank : pc[q] \in {"round", "reduce", "copy"},
         NEW r \in Rank, pc[r] = "reduce"
  PROVE  \A q \in Rank : pc[q] = "reduce"
<1>0. \A q \in Rank : q \in Nat
  BY Neighbours
<1>1. \A q \in Rank : /\ pc[q] = "reduce" /\ q # LastRank => pc[q + 1] = "reduce"
                      /\ pc[q] = "reduce" /\ q # 0 => pc[q - 1] = "reduce"
  <2> TAKE q \in Rank
  <2> QED BY Neighbours DEF PhaseInv, Begun
<1>2. ASSUME NEW s \in Rank, s > r, pc[s] # "reduce"
      PROVE  FALSE
  <2> DEFINE T == {q \in Rank : q > r /\ pc[q] # "reduce"}
  <2>1. T \in SUBSET Nat /\ T # {}
    BY <1>0, <1>2
  <2>2. \E x \in T : \A y \in T : x <= y
    BY <2>1, LeastNat
  <2>3. PICK x \in T : \A y \in T : x <= y
    BY <2>2
  <2>4. x - 1 \in Rank /\ x - 1 # LastRank /\ (x - 1) + 1 = x /\ x - 1 >= r /\ x - 1 < x
    BY <1>0, Neighbours
  <2>5. pc[x - 1] = "reduce"
    BY <1>0, <2>3, <2>4
  <2> QED BY <1>1, <2>4, <2>5
<1>3. ASSUME NEW s \in Rank, s < r, pc[s] # "reduce"
      PROVE  FALSE
  <2> DEFINE T == {r - q : q \in {p \in Rank : p < r /\ pc[p] # "reduce"}}
  <2>1. T \in SUBSET Nat /\ T # {}
    BY <1>0, <1>3
  <2>2. \E x \in T : \A y \in T : x <= y
    BY <2>1, LeastNat
  <2>3. PICK p \in Rank : p < r /\ pc[p] # "reduce" /\ \A y \in T : r - p <= y
    BY <2>2
  <2>4. p + 1 \in Rank /\ p + 1 # 0 /\ (p + 1) - 1 = p /\ p + 1 <= r
    BY <1>0, <2>3, NumRankAssumption DEF Rank
  <2>5. pc[p + 1] = "reduce"
    <3>1. CASE p + 1 = r
      BY <3>1
    <3>2. CASE p + 1 < r /\ pc[p + 1] # "reduce"
      <4>1. r - (p + 1) \in T
        BY <2>4, <3>2
      <4>2. r - p <= r - (p + 1)
        BY <2>3, <4>1
      <4> QED BY <1>0, <4>2
    <3> QED BY <1>0, <2>4, <3>1, <3>2
  <2> QED BY <1>1, <2>3, <2>4, <2>5
<1> QED BY <1>0, <1>2, <1>3

(***************************************************************************)
(* No header is lost or doubled by the exchange of overlapping regions:    *)
(* between two rounds, and before the copy back, the work areas hold       *)
(* exactly the entries passed in, each of them once.                       *)
(***************************************************************************)
THEOREM KeepsRows ==
  ASSUME DistinctInputs
  PROVE  Spec => []RowsKept
<1>1. Init => HeldInv
  BY InitHeld
<1>2. TypeOK /\ RoundInv /\ HeldInv => RowsKept
  <2> SUFFICES ASSUME TypeOK, RoundInv, HeldInv,
                      \A r \in Rank : pc[r] \in {"round", "reduce", "copy"}
               PROVE  RowsOf(temp1) = RowsOf(dat) /\ Distinct(temp1)
    BY DEF RowsKept
  <2>1. RowsOf(temp1) = RowsOf(Held)
    <3>1. CASE \A r \in Rank : pc[r] # "reduce"
      <4>1. \A r \in Rank : Held[r] = temp1[r]
        BY <3>1 DEF Held, Begun
      <4> QED BY <4>1, SameCells
    <3>2. CASE \E r \in Rank : pc[r] = "reduce"
      <4>1. \A r \in Rank : pc[r] = "reduce"
        BY <3>2, AllInReduce DEF RoundInv
      <4>2. \A r \in Rank : Held[r] = temp2[r] /\ temp1[r] = AfterRight(temp2, r)
        BY <4>1 DEF Held, Begun, RoundInv, DataInv
      <4>3. Areas(temp2)
        BY DEF TypeOK, Areas
      <4>4. RowsOf(temp1) = RowsOf(temp2)
        BY <4>2, <4>3, RoundKeepsRows
      <4>5. RowsOf(Held) = RowsOf(temp2)
        BY <4>2, SameCells
      <4> QED BY <4>4, <4>5
    <3> QED BY <3>1, <3>2
  <2>2. RowsOf(Held) = RowsOf(dat)
    BY DEF HeldInv
  <2>3. Distinct(temp1)
    BY <2>1, SameRowsDistinct DEF HeldInv
  <2> QED BY <2>1, <2>2, <2>3
<1>3. TypeOK /\ RoundInv /\ HeldInv /\ [Next]_vars => HeldInv'
  BY NextHeld
<1> QED BY <1>1, <1>2, <1>3, TypeCorrect, RoundInvariant, PTL DEF Spec
-----------------------------------------------------------------------------
(***************************************************************************)
(* Order.  A single process needs no exchange; with more of them the test  *)
(* of the loop is only good if a region has an entry, which Set::sort is   *)
(* to ensure.                                                              *)
(***************************************************************************)
RegionsSuffice == NumRank = 1 \/ RegionSz > 0

LEMMA InitSorted == Init => SortedInv /\ FinalInv
<1>1. 0 \in Rank
  BY NumRankAssumption DEF Rank
<1> QED BY <1>1 DEF Init, SortedInv, FinalInv, Begun, Out

\* A round leaves each process locally sorted.
LEMMA RoundSorts ==
  ASSUME TypeOK, RoundInv, Distinct(Held), Allreduce, NEW r \in Rank
  PROVE  LocallySorted(r, temp1[r])
<1>1. Areas(temp2) /\ temp1[r] = AfterRight(temp2, r)
  BY RoundResult
<1>2. \A q \in Rank : temp2[q] = Held[q]
  BY RoundResult
<1>3. Distinct(temp2)
  BY <1>2, SameCells, SameRowsDistinct
<1>4. Ascending(AfterRight(temp2, r), 1, Lnt[r])
  BY <1>1, <1>3, RightPhase
<1> QED BY <1>1, <1>4 DEF Ascending, LocallySorted

LEMMA NextSorted == TypeOK /\ RoundInv /\ HeldInv /\ SortedInv /\ [Next]_vars => SortedInv'
<1> SUFFICES ASSUME TypeOK, RoundInv, Distinct(Held), SortedInv, [Next]_vars PROVE SortedInv'
  BY DEF HeldInv
<1>0. DOMAIN temp1 = Rank /\ DOMAIN temp2 = Rank
  BY DEF TypeOK
<1>1. ASSUME NEW r \in Rank, LocalSort(r)
      PROVE  SortedInv'
  <2>1. (Moves(r, "sort", "copy") \/ Moves(r, "sort", "round")) /\ temp2' = temp2
    BY <1>1, PcSteps DEF LocalSort
  <2>2. LocallySorted(r, temp1'[r]) /\ \A q \in Rank : q # r => temp1'[q] = temp1[q]
    BY <1>1, LocalResult
  <2> QED BY <2>1, <2>2 DEF Moves, SortedInv, Begun
<1>2. ASSUME NEW r \in Rank, BeginRound(r)
      PROVE  SortedInv'
  <2>1. Moves(r, "round", "left") /\ temp1' = temp1 /\ temp2' = [temp2 EXCEPT ![r] = temp1[r]]
    BY <1>2, PcSteps DEF BeginRound
  <2> QED BY <1>0, <2>1 DEF Moves, SortedInv, Begun
<1>3. ASSUME NEW r \in Rank, EndLeft(r) \/ EndRight(r)
      PROVE  SortedInv'
  <2>1. Moves(r, "left", "right") \/ Moves(r, "right", "reduce")
    BY <1>3, PcSteps
  <2>2. temp2' = temp2 /\ \A q \in Rank : q # r => temp1'[q] = temp1[q]
    BY <1>0, <1>3, LeftResult, RightResult DEF EndLeft, EndRight
  <2> QED BY <2>1, <2>2 DEF Moves, SortedInv, Begun
<1>4. ASSUME NEW r \in Rank, Return(r)
      PROVE  SortedInv'
  <2>1. Moves(r, "copy", "done") /\ UNCHANGED <<temp1, temp2>>
    BY <1>4, PcSteps DEF Return
  <2> QED BY <2>1 DEF Moves, SortedInv, Begun
<1>5. CASE Allreduce
  <2>1. \A r \in Rank : LocallySorted(r, temp1[r])
    BY <1>5, RoundSorts
  <2>2. temp1' = temp1 /\ \A r \in Rank : pc'[r] \in {"round", "copy"}
    BY <1>5 DEF Allreduce
  <2> QED BY <2>1, <2>2 DEF SortedInv, Begun
<1>6. CASE UNCHANGED vars
  BY <1>6 DEF vars, SortedInv, Begun
<1> QED BY <1>1, <1>2, <1>3, <1>4, <1>5, <1>6 DEF Next, Step, Finished

\* No vote means that nothing moved: a gtn stands for its entry.
LEMMA NoVoteUnmoved ==
  ASSUME TypeOK, RoundInv, HeldInv, Allreduce, \A r \in Rank : ~vote[r],
         NEW r \in Rank, NEW i \in 1 .. Lnt[r]
  PROVE  temp1[r][i] = temp2[r][i]
<1>1. RowsOf(temp1) = RowsOf(temp2) /\ \A q \in Rank : Held[q] = temp2[q]
  BY RoundResult
<1>2. Distinct(temp2)
  BY <1>1, SameCells, SameRowsDistinct DEF HeldInv
<1>3. temp1[r][i].gtn = temp2[r][i].gtn
  BY DEF Allreduce, RoundInv, DataInv, Moved
<1>4. temp1[r][i] \in RowsOf(temp2)
  <2>1. temp1[r][i] \in RowsOf(temp1)
    BY DEF RowsOf
  <2> QED BY <1>1, <2>1
<1>5. PICK s \in Rank : \E j \in 1 .. Lnt[s] : temp1[r][i] = temp2[s][j]
  BY <1>4 DEF RowsOf
<1>6. PICK j \in 1 .. Lnt[s] : temp1[r][i] = temp2[s][j]
  BY <1>5
<1>7. s = r /\ j = i
  BY <1>2, <1>3, <1>6, DistinctCells
<1> QED BY <1>6, <1>7

(***************************************************************************)
(* The vector is sorted when the loop ends: no vote means that the round   *)
(* moved nothing, as a gtn stands for its entry.                           *)
(***************************************************************************)
LEMMA NoVoteSorted ==
  ASSUME TypeOK, RoundInv, HeldInv, SortedInv, RegionsSuffice,
         Allreduce, \A r \in Rank : ~vote[r]
  PROVE  GloballySorted(temp1)
<1>1. /\ Areas(temp2) /\ RowsOf(temp1) = RowsOf(temp2)
      /\ \A r \in Rank : Held[r] = temp2[r] /\ temp1[r] = AfterRight(temp2, r)
  BY RoundResult
<1>2. Distinct(temp2)
  BY <1>1, SameCells, SameRowsDistinct DEF HeldInv
<1>3. \A r \in Rank : \A i \in 1 .. Lnt[r] : temp1[r][i] = temp2[r][i]
  BY NoVoteUnmoved
<1>4. \A r \in Rank : \A k \in 1 .. Lnt[r] : AfterRight(temp2, r)[k] = temp2[r][k]
  BY <1>1, <1>3
<1>5. RegionSz > 0
  <2>1. 0 \in Rank
    BY NumRankAssumption DEF Rank
  <2> QED BY <2>1 DEF RegionsSuffice, Allreduce, RoundInv, PhaseInv, Out
<1>6. \A r \in Rank : r # LastRank => Comp(temp2[r][Lnt[r]], temp2[r + 1][1])
  BY <1>1, <1>2, <1>4, <1>5, NothingMovedBoundary
<1>7. \A r \in Rank : Lnt[r] > 0
  BY <1>5, SizeFacts
<1>8. \A r \in Rank : Ascending(temp2[r], 1, Lnt[r])
  BY DEF Allreduce, SortedInv, Begun, LocallySorted, Ascending
<1>9. GloballySorted(temp2)
  BY <1>1, <1>6, <1>7, <1>8, BoundariesSuffice
<1> QED BY <1>3, <1>9 DEF GloballySorted

LEMMA NextFinal ==
  ASSUME RegionsSuffice
  PROVE  IInv /\ [Next]_vars => FinalInv'
<1> SUFFICES ASSUME TypeOK, RoundInv, HeldInv, SortedInv, FinalInv, [Next]_vars
             PROVE  FinalInv'
  BY DEF IInv, KeepInv, RoundInv
<1>0. \A q, s \in Rank : Out(q) => Out(s)
  BY DEF RoundInv, PhaseInv
<1>1. ASSUME NEW r \in Rank, LocalSort(r)
      PROVE  FinalInv'
  <2>1. LocallySorted(r, temp1'[r])
    BY <1>1, LocalResult DEF HeldInv
  <2>2. CASE NumRank = 1 /\ Moves(r, "sort", "copy")
    <3>1. \A q \in Rank : q = r /\ r \in Int
      BY <2>2 DEF Rank
    <3>2. GloballySorted(temp1')
      BY <2>1, <3>1 DEF GloballySorted, Precedes, LocallySorted
    <3> QED BY <2>2, <3>1, <3>2 DEF Moves, FinalInv
  <2>3. CASE Moves(r, "sort", "round")
    <3>1. \A q \in Rank : ~Out(q) /\ ~Out(r)'
      BY <1>0, <2>3 DEF Moves, Out
    <3> QED BY <2>3, <3>1 DEF Moves, FinalInv, Out
  <2> QED BY <1>1, <2>2, <2>3, PcSteps
<1>2. ASSUME NEW r \in Rank, BeginRound(r) \/ EndLeft(r) \/ EndRight(r)
      PROVE  FinalInv'
  <2>1. Moves(r, "round", "left") \/ Moves(r, "left", "right") \/ Moves(r, "right", "reduce")
    BY <1>2, PcSteps
  <2>2. \A q \in Rank : ~Out(q) /\ ~Out(q)'
    BY <1>0, <2>1 DEF Moves, Out
  <2> QED BY <2>2 DEF FinalInv, Out
<1>3. ASSUME NEW r \in Rank, Return(r)
      PROVE  FinalInv'
  <2>1. Moves(r, "copy", "done") /\ temp1' = temp1 /\ DOMAIN dat = Rank
        /\ dat' = [dat EXCEPT ![r] = Local(r, temp1[r])]
    BY <1>3, PcSteps DEF Return, TypeOK, IsVector
  <2>2. \A q \in Rank : Out(q)
    BY <1>0, <2>1 DEF Moves, Out
  <2> QED BY <2>1, <2>2 DEF Moves, FinalInv
<1>4. CASE Allreduce
  <2>1. temp1' = temp1 /\ dat' = dat /\ 0 \in Rank
    BY <1>4, NumRankAssumption DEF Allreduce, Rank
  <2>2. CASE \E q \in Rank : vote[q]
    <3>1. \A r \in Rank : pc'[r] = "round"
      BY <1>4, <2>2 DEF Allreduce
    <3> QED BY <2>1, <3>1 DEF FinalInv, Out
  <2>3. CASE \A q \in Rank : ~vote[q]
    <3>1. \A r \in Rank : pc'[r] = "copy"
      BY <1>4, <2>3 DEF Allreduce
    <3>2. GloballySorted(temp1)
      BY <1>4, <2>3, NoVoteSorted
    <3>3. GloballySorted(temp1')
      BY <2>1, <3>2
    <3> QED BY <3>1, <3>3 DEF FinalInv
  <2> QED BY <2>2, <2>3
<1>5. CASE UNCHANGED vars
  BY <1>5 DEF vars, FinalInv, Out
<1> QED BY <1>1, <1>2, <1>3, <1>4, <1>5 DEF Next, Step, Finished

(***************************************************************************)
(* The inductive invariant of NearestSort.                                 *)
(***************************************************************************)
THEOREM Inductive ==
  ASSUME DistinctInputs, RegionsSuffice
  PROVE  Spec => []IInv
<1>1. Init => IInv
  BY InitType, InitRound, InitHeld, InitSorted DEF IInv, KeepInv, RoundInv
<1>2. IInv /\ [Next]_vars => IInv'
  <2>1. IInv => TypeOK /\ RoundInv /\ HeldInv /\ SortedInv
    BY DEF IInv, KeepInv, RoundInv
  <2> QED BY <2>1, NextType, NextPhase, NextChannel, NextData, NextHeld, NextSorted, NextFinal
          DEF IInv, KeepInv
<1> QED BY <1>1, <1>2, PTL DEF Spec

(***************************************************************************)
(* Whatever two processes return from sortP is in order between them and   *)
(* along each of them, if the entries differ and a region has an entry.    *)
(***************************************************************************)
THEOREM ReturnsSorted ==
  ASSUME DistinctInputs, RegionsSuffice
  PROVE  Spec => []SortedOnReturn
<1>1. IInv => SortedOnReturn
  <2> SUFFICES ASSUME IInv, NEW r \in Rank, NEW s \in Rank, pc[r] = "done", pc[s] = "done",
                      NEW i \in 1 .. Lnt[r], NEW j \in 1 .. Lnt[s], Precedes(r, i, s, j)
               PROVE  Comp(dat[r][i], dat[s][j])
    BY DEF SortedOnReturn
  <2>1. GloballySorted(temp1) /\ dat[r] = Local(r, temp1[r]) /\ dat[s] = Local(s, temp1[s])
    BY DEF IInv, KeepInv, PhaseInv, FinalInv, Out
  <2>2. dat[r][i] = temp1[r][i] /\ dat[s][j] = temp1[s][j]
    BY <2>1 DEF Local
  <2> QED BY <2>1, <2>2 DEF GloballySorted
<1> QED BY Inductive, <1>1, PTL

(***************************************************************************)
(* The sort does what its callers are promised: at the Allreduce that ends *)
(* the loop, or at the local sort of a single process, the processes agree *)
(* on a sorted arrangement of the entries passed in, and each returns its  *)
(* part of it; nothing else is visible to them.                            *)
(***************************************************************************)
LEMMA PromisedStep ==
  ASSUME IInv, IInv', [Next]_vars
  PROVE  [Promise!Next]_(Promise!vars)
<1> DEFINE agreed == IF \E r \in Rank : pc[r] \in {"copy", "done"} THEN Work ELSE <<>>
           returned == {r \in Rank : pc[r] = "done"}
<1>0. /\ TypeOK /\ PhaseInv /\ HeldInv /\ TypeOK' /\ HeldInv' /\ FinalInv'
  BY DEF IInv, KeepInv
<1>a. DOMAIN pc = Rank /\ 0 \in Rank /\ \A q, s \in Rank : Out(q) => Out(s)
  <2>1. DOMAIN pc = Rank
    BY <1>0 DEF TypeOK
  <2>2. \A q, s \in Rank : Out(q) => Out(s)
    BY <1>0 DEF PhaseInv
  <2>3. 0 \in Rank
    BY NumRankAssumption DEF Rank
  <2> QED BY <2>1, <2>2, <2>3
<1>b. \A q \in Rank : temp1'[q] \in [1 .. Size(q) -> Row]
  BY <1>0 DEF TypeOK
\* SortSpec is about the same data.
<1>c. /\ Promise!Rank = Rank
      /\ \A v : IsVector(v) => Promise!IsVector(v)
      /\ \A v : GloballySorted(v) => Promise!GloballySorted(v)
      /\ \A v : Promise!RowsOf(v) = RowsOf(v)
  BY DEF Promise!Rank, Rank, Promise!IsVector, IsVector, Promise!Row, Row,
         Promise!GloballySorted, GloballySorted, Promise!Precedes, Precedes,
         Promise!Comp, Comp, Promise!RowsOf, RowsOf
<1>1. ASSUME \A q \in Rank : ~Out(q) /\ ~Out(q)', dat' = dat
      PROVE  UNCHANGED Promise!vars
  <2>1. \A q \in Rank : pc[q] \notin {"copy", "done"} /\ pc'[q] \notin {"copy", "done"}
    BY <1>1 DEF Out
  <2>2. agreed = <<>> /\ agreed' = <<>> /\ returned = {} /\ returned' = {}
    BY <2>1
  <2> QED BY <1>1, <2>2 DEF Promise!vars
\* All processes leave the loop in this step.
<1>2. ASSUME \A q \in Rank : ~Out(q), \A q \in Rank : pc'[q] = "copy", dat' = dat
      PROVE  Promise!Agree
  <2>1. \A q \in Rank : pc[q] \notin {"copy", "done"}
    BY <1>2 DEF Out
  <2>2. agreed = <<>> /\ agreed' = Work' /\ returned = {} /\ returned' = {}
    BY <1>a, <1>2, <2>1
  <2>3. \A q \in Rank : \A i \in 1 .. Lnt[q] : Work'[q][i] = temp1'[q][i]
    BY DEF Work, Local
  <2>4. IsVector(Work')
    <3>1. ASSUME NEW q \in Rank
          PROVE  Work'[q] \in [1 .. Lnt[q] -> Row]
      <4>1. temp1'[q] \in [1 .. Size(q) -> Row] /\ Lnt[q] \in Nat /\ Size(q) \in Nat /\ Lnt[q] <= Size(q)
        BY <1>b, SizeFacts
      <4>2. Work'[q] = [k \in 1 .. Lnt[q] |-> temp1'[q][k]]
        BY DEF Work, Local
      <4> QED BY <4>1, <4>2
    <3> QED BY <3>1 DEF IsVector, Work
  <2>5. GloballySorted(temp1')
    BY <1>0, <1>2 DEF FinalInv, Out
  <2>6. GloballySorted(Work')
    BY <2>3, <2>5 DEF GloballySorted
  <2>7. \A q \in Rank : Held'[q] = temp1'[q]
    BY <1>2 DEF Held, Begun
  <2>8. RowsOf(Held') = RowsOf(dat')
    BY <1>0, <1>2 DEF HeldInv
  <2>9. RowsOf(Work') = RowsOf(temp1') /\ RowsOf(Held') = RowsOf(temp1')
    BY <2>3, <2>7, SameCells
  <2>10. RowsOf(Work') = RowsOf(dat)
    BY <1>2, <2>8, <2>9
    <2>11. Promise!IsVector(Work') /\ Promise!GloballySorted(Work') /\ Promise!RowsOf(Work') = Promise!RowsOf(dat)
    BY <1>c, <2>4, <2>6, <2>10
  <2> QED BY <1>2, <2>2, <2>11 DEF Promise!Agree, Promise!NoVector
<1>3. ASSUME NEW r \in Rank, LocalSort(r)
      PROVE  Promise!Agree \/ UNCHANGED Promise!vars
  <2>1. dat' = dat
    BY <1>3 DEF LocalSort
  <2>2. CASE NumRank = 1 /\ Moves(r, "sort", "copy")
    <3>1. \A q \in Rank : q = r
      BY <2>2 DEF Rank
    <3>2. \A q \in Rank : ~Out(q) /\ pc'[q] = "copy"
      BY <2>2, <3>1 DEF Moves, Out
    <3> QED BY <1>2, <2>1, <3>2
  <2>3. CASE Moves(r, "sort", "round")
    <3>1. \A q \in Rank : ~Out(q) /\ ~Out(q)'
      BY <1>a, <2>3 DEF Moves, Out
    <3> QED BY <1>1, <2>1, <3>1
  <2> QED BY <1>0, <1>3, <2>2, <2>3, PcSteps
<1>4. ASSUME NEW r \in Rank, BeginRound(r) \/ EndLeft(r) \/ EndRight(r)
      PROVE  UNCHANGED Promise!vars
  <2>1. Moves(r, "round", "left") \/ Moves(r, "left", "right") \/ Moves(r, "right", "reduce")
    BY <1>0, <1>4, PcSteps
  <2>2. \A q \in Rank : ~Out(q) /\ ~Out(q)'
    BY <1>a, <2>1 DEF Moves, Out
  <2>3. dat' = dat
    BY <1>4 DEF BeginRound, EndLeft, EndRight
  <2> QED BY <1>1, <2>2, <2>3
<1>5. ASSUME NEW r \in Rank, Return(r)
      PROVE  Promise!Return(r)
  <2>1. Moves(r, "copy", "done") /\ temp1' = temp1
        /\ dat' = [dat EXCEPT ![r] = Local(r, temp1[r])]
    BY <1>0, <1>5, PcSteps DEF Return
  <2>2. agreed = Work /\ agreed' = Work /\ r \notin returned /\ returned' = returned \cup {r}
    BY <2>1 DEF Moves, Work
  <2>3. Work # <<>>
    BY <1>a DEF Work
  <2>4. Work[r] = Local(r, temp1[r])
    BY DEF Work
  <2> QED BY <2>1, <2>2, <2>3, <2>4 DEF Promise!Return, Promise!NoVector
<1>6. CASE Allreduce
  <2>1. dat' = dat /\ \A q \in Rank : ~Out(q)
    BY <1>6 DEF Allreduce, Out
  <2>2. CASE \E q \in Rank : vote[q]
    <3>1. \A q \in Rank : ~Out(q)'
      BY <1>6, <2>2 DEF Allreduce, Out
    <3> QED BY <1>1, <2>1, <3>1
  <2>3. CASE \A q \in Rank : ~vote[q]
    <3>1. \A q \in Rank : pc'[q] = "copy"
      BY <1>6, <2>3 DEF Allreduce
    <3> QED BY <1>2, <2>1, <3>1 DEF Promise!Next
  <2> QED BY <2>2, <2>3
<1>7. CASE UNCHANGED vars
  <2>1. pc' = pc /\ dat' = dat /\ temp1' = temp1
    BY <1>7 DEF vars
  <2> QED BY <2>1 DEF Promise!vars, Work, Local
<1> QED BY <1>3, <1>4, <1>5, <1>6, <1>7, <1>c DEF Next, Step, Finished, Promise!Next

THEOREM KeepsPromise ==
  ASSUME DistinctInputs, RegionsSuffice
  PROVE  Spec => ImplementsPromise
<1>1. Init => Promise!Init
  BY DEF Init, Promise!Init, Promise!NoVector
<1>2. IInv /\ IInv' /\ [Next]_vars => [Promise!Next]_(Promise!vars)
  BY PromisedStep
<1> QED BY <1>1, <1>2, Inductive, PTL DEF Spec, ImplementsPromise, Promise!Spec
-----------------------------------------------------------------------------
(***************************************************************************)
(* Progress.  Each phase of a round sorts ranges of the vector that follow *)
(* each other without a gap: the left phase what a process keeps with the  *)
(* low block of the next one, the right phase what each process has.  So   *)
(* two entries that are in the right order are never exchanged, and each   *)
(* entry that moves takes part in a pair that was in the wrong order.      *)
(***************************************************************************)

\* Entries that are in the right order in a are in the right order in b.
KeepsOrder(a, b) ==
  \A x, y, xx, yy \in Cells :
    /\ Earlier(x, y) /\ Comp(At(a, x), At(a, y))
    /\ At(b, xx) = At(a, x) /\ At(b, yy) = At(a, y)
    => Earlier(xx, yy)

Ordered(v) == \A x \in Cells : At(v, x).ord \in Nat

(***************************************************************************)
(* The cells are divided into groups that follow each other; entries stay  *)
(* in their group, and are in order within it afterwards.                  *)
(***************************************************************************)
LEMMA GroupsSorted ==
  ASSUME NEW a, NEW b, Ordered(a), NEW G \in [Cells -> Int],
         \A x, y \in Cells : Earlier(x, y) => G[x] <= G[y],
         \A x, y \in Cells : At(a, x) = At(b, y) => G[x] = G[y],
         \A x, y \in Cells : Earlier(x, y) /\ G[x] = G[y] => Comp(At(b, x), At(b, y))
  PROVE  KeepsOrder(a, b)
<1> SUFFICES ASSUME NEW x \in Cells, NEW y \in Cells, NEW xx \in Cells, NEW yy \in Cells,
                    Earlier(x, y), Comp(At(a, x), At(a, y)),
                    At(b, xx) = At(a, x), At(b, yy) = At(a, y)
             PROVE  Earlier(xx, yy)
  BY DEF KeepsOrder
<1>1. At(a, x).ord \in Nat /\ At(a, y).ord \in Nat /\ At(a, x).ord < At(a, y).ord
  BY DEF Ordered, Comp
<1>2. xx # yy
  BY <1>1
<1>3. G[x] = G[xx] /\ G[y] = G[yy] /\ G[x] <= G[y]
  OBVIOUS
<1>4. ASSUME Earlier(yy, xx)
      PROVE  FALSE
  <2>1. G[yy] <= G[xx] /\ G[yy] \in Int /\ G[xx] \in Int
    BY <1>4
  <2>2. G[yy] = G[xx]
    BY <1>3, <2>1
  <2>3. Comp(At(b, yy), At(b, xx))
    BY <1>4, <2>2
  <2> QED BY <1>1, <2>3 DEF Comp
<1> QED BY <1>2, <1>4, CellFacts

\* Two rearrangements after each other.
LEMMA OrderKeptTwice ==
  ASSUME NEW a, NEW b, NEW c, KeepsOrder(a, b), KeepsOrder(b, c), RowsOf(b) = RowsOf(a)
  PROVE  KeepsOrder(a, c)
<1> SUFFICES ASSUME NEW x \in Cells, NEW y \in Cells, NEW xx \in Cells, NEW yy \in Cells,
                    Earlier(x, y), Comp(At(a, x), At(a, y)),
                    At(c, xx) = At(a, x), At(c, yy) = At(a, y)
             PROVE  Earlier(xx, yy)
  BY DEF KeepsOrder
<1>1. PICK u \in Cells : At(b, u) = At(a, x)
  BY RowsAt
<1>2. PICK w \in Cells : At(b, w) = At(a, y)
  BY RowsAt
<1>3. Earlier(u, w)
  BY <1>1, <1>2 DEF KeepsOrder
<1> QED BY <1>1, <1>2, <1>3 DEF KeepsOrder

\* The pairs of cells whose entries are in the wrong order.
Inverted(v) == {p \in Cells \X Cells : Earlier(p[1], p[2]) /\ Comp(At(v, p[2]), At(v, p[1]))}

\* The pairs that Inversions counts.
LEMMA InversionsAre ==
  ASSUME NEW v
  PROVE  /\ Inversions(v) = Cardinality(Inverted(v))
         /\ IsFiniteSet(Inverted(v)) /\ Inversions(v) \in Nat
<1>1. Inversions(v) = Cardinality(Inverted(v))
  BY DEF Inversions, Inverted, Cells, Earlier, At
<1>2. IsFiniteSet(Cells \X Cells) /\ Inverted(v) \in SUBSET (Cells \X Cells)
  BY CellFacts, FS_Product DEF Inverted
<1>3. IsFiniteSet(Inverted(v))
  BY <1>2, FS_Subset
<1> QED BY <1>1, <1>3, FS_CardinalityType

\* The first cell whose entry is another one.
LEMMA FirstMoved ==
  ASSUME NEW a, NEW c, NEW w \in Cells, At(c, w) # At(a, w)
  PROVE  \E z \in Cells : /\ At(c, z) # At(a, z)
                          /\ \A x \in Cells : Earlier(x, z) => At(c, x) = At(a, x)
<1> DEFINE Wrong == {x \in Cells : At(c, x) # At(a, x)}
           ranks == {x[1] : x \in Wrong}
<1>1. ranks \in SUBSET Nat /\ ranks # {}
  BY CellFacts
<1>2. PICK r \in ranks : \A s \in ranks : r <= s
  BY <1>1, LeastNat
<1> DEFINE indices == {x[2] : x \in {y \in Wrong : y[1] = r}}
<1>3. indices \in SUBSET Nat /\ indices # {}
  BY CellFacts
<1>4. PICK i \in indices : \A j \in indices : i <= j
  BY <1>3, LeastNat
<1>5. PICK z \in Wrong : z[1] = r /\ z[2] = i
  OBVIOUS
<1>6. ASSUME NEW x \in Cells, Earlier(x, z), At(c, x) # At(a, x)
      PROVE  FALSE
  <2>1. x \in Wrong /\ x[1] \in ranks
    BY <1>6
  <2>2. z[1] <= x[1] /\ (x[1] = z[1] => z[2] <= x[2])
    BY <1>2, <1>4, <1>5, <2>1
  <2>3. x[1] \in Nat /\ x[2] \in Nat /\ z[1] \in Nat /\ z[2] \in Nat
    BY CellFacts
  <2> QED BY <1>6, <2>2, <2>3 DEF Earlier, Precedes
<1> QED BY <1>5, <1>6

(***************************************************************************)
(* A rearrangement that keeps what is in the right order has fewer pairs   *)
(* in the wrong order, if it moves an entry at all.                        *)
(***************************************************************************)
LEMMA FewerInversions ==
  ASSUME NEW a, NEW c, Distinct(a), Ordered(a), RowsOf(c) = RowsOf(a), KeepsOrder(a, c),
         NEW m \in Cells, At(c, m) # At(a, m)
  PROVE  Inversions(c) < Inversions(a)
<1> DEFINE from == [x \in Cells |-> CHOOSE y \in Cells : At(a, y) = At(c, x)]
           g == [p \in Inverted(c) |-> <<from[p[1]], from[p[2]]>>]
<1>1. Distinct(c)
  BY SameRowsDistinct
<1>2. ASSUME NEW x \in Cells
      PROVE  from[x] \in Cells /\ At(a, from[x]) = At(c, x)
  <2>1. \E y \in Cells : At(a, y) = At(c, x)
    BY RowsAt
  <2> QED BY <2>1
<1> HIDE DEF from
<1>3. \A p \in Inverted(c) : /\ p[1] \in Cells /\ p[2] \in Cells /\ p = <<p[1], p[2]>>
                             /\ Earlier(p[1], p[2]) /\ Comp(At(c, p[2]), At(c, p[1]))
  BY DEF Inverted
\* What is in the wrong order afterwards was so before.
<1>4. ASSUME NEW p \in Inverted(c)
      PROVE  <<from[p[1]], from[p[2]]>> \in Inverted(a)
  <2> DEFINE u == from[p[1]]
             w == from[p[2]]
  <2>1. /\ u \in Cells /\ w \in Cells /\ At(a, u) = At(c, p[1]) /\ At(a, w) = At(c, p[2])
        /\ p[1] \in Cells /\ p[2] \in Cells
    BY <1>2, <1>3
  <2>2. Earlier(p[1], p[2]) /\ Comp(At(a, w), At(a, u))
    BY <1>3, <2>1
  <2> HIDE DEF u, w
  <2>3. ~Earlier(w, u)
    <3> SUFFICES ASSUME Earlier(w, u) PROVE FALSE
      OBVIOUS
    <3>1. Earlier(p[2], p[1])
      BY <2>1, <2>2 DEF KeepsOrder
    <3> QED BY <2>1, <2>2, <3>1, CellFacts
  <2>4. u # w
    <3>1. At(a, u).ord \in Nat
      BY <2>1 DEF Ordered
    <3> QED BY <2>2, <3>1 DEF Comp
  <2>5. Earlier(u, w)
    BY <2>1, <2>3, <2>4, CellFacts
  <2>6. <<u, w>> \in Inverted(a)
    BY <2>1, <2>2, <2>5 DEF Inverted
  <2> QED BY <2>6 DEF u, w
<1>5. \A x, y \in Cells : At(c, x) = At(c, y) => x = y
  BY <1>1, OneCell
<1>6. \A x, y \in Cells : At(a, x) = At(a, y) => x = y
  BY OneCell
<1>7. g \in Injection(Inverted(c), Inverted(a))
  <2>1. g \in [Inverted(c) -> Inverted(a)]
    BY <1>4
  <2>2. ASSUME NEW p \in Inverted(c), NEW q \in Inverted(c), g[p] = g[q]
        PROVE  p = q
    <3>1. from[p[1]] = from[q[1]] /\ from[p[2]] = from[q[2]]
      BY <2>2
    <3>2. p[1] = q[1] /\ p[2] = q[2]
      BY <3>1, <1>2, <1>3, <1>5
    <3> QED BY <3>2, <1>3
  <2> QED BY <2>1, <2>2 DEF Injection, IsInjective
\* One that was in the wrong order is not any more.
<1>8. PICK z \in Cells : /\ At(c, z) # At(a, z)
                         /\ \A x \in Cells : Earlier(x, z) => At(c, x) = At(a, x)
  BY FirstMoved
<1>9. PICK w \in Cells : At(c, w) = At(a, z)
  BY RowsAt
<1>10. from[z] \in Cells /\ At(a, from[z]) = At(c, z)
  BY <1>2
<1> DEFINE u == from[z]
<1>11. Earlier(z, u) /\ Earlier(z, w)
  <2>1. u # z /\ w # z
    BY <1>8, <1>9, <1>10
  <2>2. ~Earlier(u, z)
    <3> SUFFICES ASSUME Earlier(u, z) PROVE FALSE
      OBVIOUS
    <3>1. At(c, u) = At(c, z)
      BY <1>8, <1>10
    <3> QED BY <3>1, <2>1, <1>5, <1>10
  <2>3. ~Earlier(w, z)
    <3> SUFFICES ASSUME Earlier(w, z) PROVE FALSE
      OBVIOUS
    <3>1. At(a, w) = At(a, z)
      BY <1>8, <1>9
    <3> QED BY <3>1, <2>1, <1>6
  <2> QED BY <2>1, <2>2, <2>3, <1>10, CellFacts
<1>12. <<z, u>> \in Inverted(a)
  <2>1. ~Comp(At(a, z), At(a, u))
    <3> SUFFICES ASSUME Comp(At(a, z), At(a, u)) PROVE FALSE
      OBVIOUS
    <3>1. Earlier(w, z)
      BY <1>9, <1>10, <1>11 DEF KeepsOrder
    <3> QED BY <3>1, <1>11, CellFacts
  <2>2. /\ At(a, z).ord \in Nat /\ At(a, u).ord \in Nat /\ At(a, z).ord # At(a, u).ord
    <3>1. z # u
      BY <1>8, <1>10
    <3> QED BY <3>1, <1>10, OneCell DEF Ordered
  <2>3. Comp(At(a, u), At(a, z))
    BY <2>1, <2>2 DEF Comp
  <2> QED BY <2>3, <1>10, <1>11 DEF Inverted
<1>13. g \notin Surjection(Inverted(c), Inverted(a))
  <2> SUFFICES ASSUME g \in Surjection(Inverted(c), Inverted(a)) PROVE FALSE
    OBVIOUS
  <2>1. PICK p \in Inverted(c) : g[p] = <<z, u>>
    BY <1>12 DEF Surjection
  <2>2. from[p[1]] = z /\ from[p[2]] = u
    BY <2>1
  <2>3. p[1] = w /\ p[2] = z
    <3>1. At(c, p[1]) = At(a, z) /\ At(c, p[2]) = At(a, u)
      BY <2>2, <1>2, <1>3
    <3> QED BY <3>1, <1>3, <1>5, <1>9, <1>10
  <2> QED BY <2>3, <1>3, <1>11, CellFacts
<1> HIDE DEF g
<1>14. Cardinality(Inverted(c)) <= Cardinality(Inverted(a))
       /\ Cardinality(Inverted(c)) # Cardinality(Inverted(a))
  BY <1>7, <1>13, InversionsAre, FS_Injection
<1> QED BY <1>14, InversionsAre

(***************************************************************************)
(* The vector between the two phases of a round: each process has what it  *)
(* kept in the left phase, behind the high block that r - 1 will send it.  *)
(***************************************************************************)
Between(a) ==
  [r \in Rank |-> [i \in 1 .. Lnt[r] |->
     IF i <= Edge1(r) THEN AfterLeft(a, r - 1)[Lnt[r - 1] + i] ELSE AfterLeft(a, r)[i]]]

\* The process whose left phase sorts a cell.
Sorter == [x \in Cells |-> IF x[2] <= Edge1(x[1]) THEN x[1] - 1 ELSE x[1]]

\* Where the work area of that process has the entry after the left phase.
Seat == [x \in Cells |-> IF x[2] <= Edge1(x[1]) THEN Lnt[x[1] - 1] + x[2] ELSE x[2]]

\* Cells that follow each other have sorters, or places with one sorter,
\* that follow each other.
LEMMA SorterFacts ==
  ASSUME NEW a, NEW x \in Cells
  PROVE  /\ Sorter[x] \in Rank /\ Sorter[x] \in Nat
         /\ Seat[x] \in Edge1(Sorter[x]) + 1 .. Size(Sorter[x])
         /\ At(Between(a), x) = AfterLeft(a, Sorter[x])[Seat[x]]
         /\ \A y \in Cells : Earlier(x, y) =>
              /\ Sorter[x] <= Sorter[y]
              /\ Sorter[x] = Sorter[y] => Seat[x] < Seat[y]
<1>1. /\ x[1] \in Rank /\ x[2] \in 1 .. Lnt[x[1]] /\ x[1] \in Nat /\ x[2] \in Nat
  BY CellFacts
<1>2. At(Between(a), x) = IF x[2] <= Edge1(x[1]) THEN AfterLeft(a, x[1] - 1)[Lnt[x[1] - 1] + x[2]]
                          ELSE AfterLeft(a, x[1])[x[2]]
  BY <1>1 DEF At, Between
<1>3. At(Between(a), x) = AfterLeft(a, Sorter[x])[Seat[x]]
  BY <1>2 DEF Sorter, Seat
<1>4. ASSUME NEW y \in Cells
      PROVE  /\ Sorter[y] \in Rank /\ Sorter[y] \in Nat
             /\ Seat[y] \in Edge1(Sorter[y]) + 1 .. Size(Sorter[y])
             /\ y[2] <= Edge1(y[1]) => /\ y[1] # 0 /\ Sorter[y] = y[1] - 1
                                       /\ Lnt[Sorter[y]] \in Nat /\ Seat[y] = Lnt[Sorter[y]] + y[2]
             /\ ~(y[2] <= Edge1(y[1])) => Sorter[y] = y[1] /\ Seat[y] = y[2]
  <2>1. /\ y[1] \in Rank /\ y[2] \in 1 .. Lnt[y[1]] /\ y[1] \in Nat /\ y[2] \in Nat
    BY CellFacts
  <2>2. /\ Lnt[y[1]] \in Nat /\ RegionSz \in Nat /\ Edge1(y[1]) \in Nat /\ Edge1(y[1]) <= RegionSz
        /\ Size(y[1]) \in Nat /\ Edge2(y[1]) \in Nat /\ Size(y[1]) = Lnt[y[1]] + Edge2(y[1])
        /\ y[1] = 0 => Edge1(y[1]) = 0
    BY <2>1, SizeFacts
  <2>3. CASE y[2] <= Edge1(y[1])
    <3>1. y[1] # 0
      BY <2>1, <2>2, <2>3
    <3>2. y[1] - 1 \in Rank /\ y[1] - 1 # LastRank /\ y[1] - 1 \in Nat
      BY <2>1, <3>1, Neighbours
    <3>3. /\ Lnt[y[1] - 1] \in Nat /\ Edge1(y[1] - 1) \in Nat /\ Edge1(y[1] - 1) <= Lnt[y[1] - 1]
          /\ Size(y[1] - 1) = Lnt[y[1] - 1] + RegionSz
      BY <3>2, SizeFacts
    <3>4. Sorter[y] = y[1] - 1 /\ Seat[y] = Lnt[y[1] - 1] + y[2]
      BY <2>3 DEF Sorter, Seat
    <3>5. Lnt[y[1] - 1] + y[2] \in Edge1(y[1] - 1) + 1 .. Size(y[1] - 1)
      BY <2>1, <2>2, <2>3, <3>3
    <3> QED BY <2>3, <3>1, <3>2, <3>3, <3>4, <3>5
  <2>4. CASE ~(y[2] <= Edge1(y[1]))
    <3>1. Sorter[y] = y[1] /\ Seat[y] = y[2]
      BY <2>4 DEF Sorter, Seat
    <3>2. y[2] \in Edge1(y[1]) + 1 .. Size(y[1])
      BY <2>1, <2>2, <2>4
    <3> QED BY <2>1, <2>4, <3>1, <3>2
  <2> QED BY <2>3, <2>4
<1>5. ASSUME NEW y \in Cells, Earlier(x, y)
      PROVE  /\ Sorter[x] <= Sorter[y]
             /\ Sorter[x] = Sorter[y] => Seat[x] < Seat[y]
  <2>1. x[1] < y[1] \/ (x[1] = y[1] /\ x[2] < y[2])
    BY <1>5 DEF Earlier, Precedes
  <2>2. /\ y[1] \in Rank /\ y[2] \in 1 .. Lnt[y[1]] /\ y[1] \in Nat /\ y[2] \in Nat
        /\ Edge1(x[1]) \in Nat /\ Edge1(y[1]) \in Nat /\ Lnt[x[1]] \in Nat
    BY <1>1, CellFacts, SizeFacts
  <2>3. CASE x[1] = y[1] /\ x[2] < y[2]
    <3>1. CASE x[2] <= Edge1(x[1]) /\ y[2] <= Edge1(y[1])
      BY <2>2, <2>3, <3>1, <1>1, <1>4
    <3>2. CASE x[2] <= Edge1(x[1]) /\ ~(y[2] <= Edge1(y[1]))
      BY <2>2, <2>3, <3>2, <1>1, <1>4
    <3>3. CASE ~(x[2] <= Edge1(x[1]))
      <4>1. ~(y[2] <= Edge1(y[1]))
        BY <2>2, <2>3, <3>3, <1>1
      <4> QED BY <2>2, <2>3, <3>3, <4>1, <1>1, <1>4
    <3> QED BY <3>1, <3>2, <3>3
  <2>4. CASE x[1] < y[1]
    <3>1. CASE x[2] <= Edge1(x[1])
      <4>1. Sorter[x] = x[1] - 1 /\ (Sorter[y] = y[1] - 1 \/ Sorter[y] = y[1])
        BY <3>1, <1>4
      <4> QED BY <2>2, <2>4, <4>1, <1>1
    <3>2. CASE ~(x[2] <= Edge1(x[1])) /\ ~(y[2] <= Edge1(y[1]))
      BY <2>2, <2>4, <3>2, <1>1, <1>4
    <3>3. CASE ~(x[2] <= Edge1(x[1])) /\ y[2] <= Edge1(y[1])
      <4>1. /\ Sorter[x] = x[1] /\ Seat[x] = x[2] /\ Sorter[y] = y[1] - 1
            /\ Seat[y] = Lnt[Sorter[y]] + y[2]
        BY <3>3, <1>4
      <4>2. Sorter[x] <= Sorter[y]
        BY <2>2, <2>4, <4>1, <1>1
      <4>3. Sorter[x] = Sorter[y] => Seat[x] < Seat[y]
        BY <2>2, <4>1, <1>1
      <4> QED BY <4>2, <4>3
    <3> QED BY <3>1, <3>2, <3>3
  <2> QED BY <2>1, <2>3, <2>4
<1> QED BY <1>3, <1>4, <1>5

\* Each cell of the sorted range of a left phase is one of the vector.
LEMMA SeatTaken ==
  ASSUME NEW r \in Rank, NEW k \in Edge1(r) + 1 .. Size(r)
  PROVE  \E x \in Cells : Sorter[x] = r /\ Seat[x] = k
<1>1. /\ r \in Nat /\ Lnt[r] \in Nat /\ RegionSz \in Nat /\ Edge1(r) \in Nat /\ Edge2(r) \in Nat
      /\ Size(r) = Lnt[r] + Edge2(r)
      /\ r = LastRank => Edge2(r) = 0
      /\ r # LastRank => Edge2(r) = RegionSz
  BY SizeFacts
<1>2. CASE k <= Lnt[r]
  <2> DEFINE x == <<r, k>>
  <2>1. x \in Cells /\ x[1] = r /\ x[2] = k /\ ~(k <= Edge1(r))
    BY <1>1, <1>2, CellFacts
  <2> HIDE DEF x
  <2>2. Sorter[x] = r /\ Seat[x] = k
    BY <2>1 DEF Sorter, Seat
  <2> QED BY <2>1, <2>2
<1>3. CASE k > Lnt[r]
  <2> DEFINE x == <<r + 1, k - Lnt[r]>>
  <2>1. r # LastRank /\ k - Lnt[r] \in 1 .. RegionSz /\ Lnt[r] + (k - Lnt[r]) = k
    BY <1>1, <1>3
  <2>2. r + 1 \in Rank /\ (r + 1) - 1 = r /\ r + 1 # 0
    BY <2>1, Neighbours
  <2>3. Edge1(r + 1) = RegionSz /\ Lnt[r + 1] \in Nat /\ RegionSz <= Lnt[r + 1]
    BY <2>2, SizeFacts
  <2>4. k - Lnt[r] \in 1 .. Lnt[r + 1] /\ k - Lnt[r] <= Edge1(r + 1)
    BY <1>1, <2>1, <2>3
  <2>5. x \in Cells /\ x[1] = r + 1 /\ x[2] = k - Lnt[r]
    BY <2>2, <2>4, CellFacts
  <2> HIDE DEF x
  <2>6. Sorter[x] = r /\ Seat[x] = k
    BY <2>1, <2>2, <2>4, <2>5 DEF Sorter, Seat
  <2> QED BY <2>5, <2>6
<1> QED BY <1>1, <1>2, <1>3

\* The left phase.
LEMMA LeftKeepsOrder ==
  ASSUME NEW a, Areas(a), Distinct(a)
  PROVE  /\ KeepsOrder(a, Between(a))
         /\ RowsOf(Between(a)) = RowsOf(a)
         /\ Ordered(a)
<1> DEFINE b == Between(a)
<1>1. Ordered(a)
  <2> SUFFICES ASSUME NEW x \in Cells PROVE At(a, x).ord \in Nat
    BY DEF Ordered
  <2>1. x[1] \in Rank /\ x[2] \in 1 .. Lnt[x[1]]
    BY CellFacts
  <2>2. Lnt[x[1]] \in Nat /\ Size(x[1]) \in Nat /\ Edge2(x[1]) \in Nat /\ Size(x[1]) = Lnt[x[1]] + Edge2(x[1])
    BY <2>1, SizeFacts
  <2>3. x[2] \in 1 .. Size(x[1]) /\ a[x[1]] \in [1 .. Size(x[1]) -> Row]
    BY <2>1, <2>2 DEF Areas
  <2> QED BY <2>3 DEF At, Row
\* An entry is sorted by the process of its cell, before and after.
<1>2. ASSUME NEW y \in Cells
      PROVE  \E x \in Cells : At(a, x) = At(b, y) /\ Sorter[x] = Sorter[y]
  <2> DEFINE r == Sorter[y]
             k == Seat[y]
  <2>1. r \in Rank /\ k \in Edge1(r) + 1 .. Size(r) /\ At(b, y) = AfterLeft(a, r)[k]
    BY SorterFacts
  <2> HIDE DEF r, k, b
  <2>2. /\ r \in Nat /\ RegionSz \in Nat /\ Edge1(r) \in Nat /\ Lnt[r] \in Nat
    BY <2>1, SizeFacts
  <2>3. CASE \E i \in Edge1(r) + 1 .. Lnt[r] : AfterLeft(a, r)[k] = a[r][i]
    <3>1. PICK i \in Edge1(r) + 1 .. Lnt[r] : AfterLeft(a, r)[k] = a[r][i]
      BY <2>3
    <3> DEFINE x == <<r, i>>
    <3>2. i \in 1 .. Lnt[r] /\ ~(i <= Edge1(r))
      BY <2>2
    <3>3. x \in Cells /\ x[1] = r /\ x[2] = i
      BY <2>1, <3>2, CellFacts
    <3> HIDE DEF x
    <3>4. Sorter[x] = r /\ At(a, x) = At(b, y)
      BY <2>1, <3>1, <3>2, <3>3 DEF Sorter, At
    <3> QED BY <3>3, <3>4 DEF r
  <2>4. CASE r # LastRank /\ \E i \in 1 .. RegionSz : AfterLeft(a, r)[k] = a[r + 1][i]
    <3>1. PICK i \in 1 .. RegionSz : AfterLeft(a, r)[k] = a[r + 1][i]
      BY <2>4
    <3>2. r + 1 \in Rank /\ (r + 1) - 1 = r /\ r + 1 # 0
      BY <2>1, <2>4, Neighbours
    <3>3. Edge1(r + 1) = RegionSz /\ Lnt[r + 1] \in Nat /\ RegionSz <= Lnt[r + 1]
      BY <3>2, SizeFacts
    <3>4. i \in 1 .. Lnt[r + 1] /\ i <= Edge1(r + 1)
      BY <2>2, <3>3
    <3> DEFINE x == <<r + 1, i>>
    <3>5. x \in Cells /\ x[1] = r + 1 /\ x[2] = i
      BY <3>2, <3>4, CellFacts
    <3> HIDE DEF x
    <3>6. Sorter[x] = r /\ At(a, x) = At(b, y)
      BY <2>1, <3>1, <3>2, <3>4, <3>5 DEF Sorter, At
    <3> QED BY <3>5, <3>6 DEF r
  <2> QED BY <2>1, <2>3, <2>4, LeftPhase
\* Every entry has a cell afterwards.
<1>3. ASSUME NEW x \in Cells
      PROVE  At(a, x) \in RowsOf(b)
  <2>1. x[1] \in Rank /\ x[2] \in 1 .. Lnt[x[1]] /\ x[2] \in Nat /\ x[1] \in Nat
    BY CellFacts
  <2>2. \E r \in Rank : \E k \in Edge1(r) + 1 .. Size(r) : AfterLeft(a, r)[k] = At(a, x)
    <3>0. Edge1(x[1]) \in Nat /\ Lnt[x[1]] \in Nat /\ RegionSz \in Nat
          /\ Edge1(x[1]) <= RegionSz /\ (x[1] = 0 => Edge1(x[1]) = 0)
      BY <2>1, SizeFacts
    <3>1. CASE ~(x[2] <= Edge1(x[1]))
      <4>1. x[2] \in Edge1(x[1]) + 1 .. Lnt[x[1]]
        BY <2>1, <3>0, <3>1
      <4> QED BY <2>1, <4>1, LeftPhase DEF At
    <3>2. CASE x[2] <= Edge1(x[1])
      <4>1. x[1] # 0 /\ x[2] \in 1 .. RegionSz
        BY <2>1, <3>0, <3>2
      <4>2. x[1] - 1 \in Rank /\ x[1] - 1 # LastRank /\ (x[1] - 1) + 1 = x[1]
        BY <2>1, <4>1, Neighbours
      <4> DEFINE q == x[1] - 1
      <4>3. q \in Rank /\ q # LastRank /\ q + 1 = x[1]
        BY <4>2
      <4> HIDE DEF q
      <4>4. \A i \in 1 .. RegionSz : \E k \in Edge1(q) + 1 .. Size(q) : AfterLeft(a, q)[k] = a[q + 1][i]
        BY <4>3, LeftPhase
      <4> QED BY <4>1, <4>3, <4>4 DEF At
    <3> QED BY <3>1, <3>2
  <2>3. PICK r \in Rank : \E k \in Edge1(r) + 1 .. Size(r) : AfterLeft(a, r)[k] = At(a, x)
    BY <2>2
  <2>4. PICK k \in Edge1(r) + 1 .. Size(r) : AfterLeft(a, r)[k] = At(a, x)
    BY <2>3
  <2>5. PICK y \in Cells : Sorter[y] = r /\ Seat[y] = k
    BY SeatTaken
  <2>6. At(b, y) = At(a, x)
    BY <2>4, <2>5, SorterFacts
  <2> HIDE DEF b
  <2> QED BY <2>6, RowsAt
<1>4. ASSUME NEW x \in Cells, NEW y \in Cells, Earlier(x, y), Sorter[x] = Sorter[y]
      PROVE  Comp(At(b, x), At(b, y))
  <2> DEFINE r == Sorter[x]
  <2>1. /\ r \in Rank /\ Seat[x] < Seat[y]
        /\ Seat[x] \in Edge1(r) + 1 .. Size(r) /\ Seat[y] \in Edge1(r) + 1 .. Size(r)
        /\ At(b, x) = AfterLeft(a, r)[Seat[x]] /\ At(b, y) = AfterLeft(a, r)[Seat[y]]
    BY <1>4, SorterFacts
  <2> HIDE DEF r, b
  <2>2. Ascending(AfterLeft(a, r), Edge1(r) + 1, Size(r))
    BY <2>1, LeftPhase
  <2> QED BY <2>1, <2>2 DEF Ascending
<1> HIDE DEF b
<1>5. \A x, y \in Cells : At(a, x) = At(b, y) => Sorter[x] = Sorter[y]
  <2> TAKE x, y \in Cells
  <2>1. PICK z \in Cells : At(a, z) = At(b, y) /\ Sorter[z] = Sorter[y]
    BY <1>2
  <2> QED BY <2>1, OneCell
<1>6. Sorter \in [Cells -> Int]
  <2>1. \A x \in Cells : Sorter[x] \in Int
    BY SorterFacts
  <2> QED BY <2>1 DEF Sorter
<1>7. \A x, y \in Cells : Earlier(x, y) => Sorter[x] <= Sorter[y]
  BY SorterFacts
<1>8. KeepsOrder(a, b)
  BY <1>1, <1>4, <1>5, <1>6, <1>7, GroupsSorted
<1>9. RowsOf(b) = RowsOf(a)
  <2>1. \A y \in Cells : At(b, y) \in RowsOf(a)
    BY <1>2, RowsAt
  <2> QED BY <2>1, <1>3, RowsAt
<1> QED BY <1>1, <1>8, <1>9 DEF b

\* The right phase.
LEMMA RightKeepsOrder ==
  ASSUME NEW a, Areas(a), Distinct(a),
         NEW c, \A r \in Rank : \A k \in 1 .. Lnt[r] : c[r][k] = AfterRight(a, r)[k]
  PROVE  KeepsOrder(Between(a), c)
<1> DEFINE b == Between(a)
           G == [x \in Cells |-> x[1]]
<1>1. RowsOf(b) = RowsOf(a) /\ Distinct(b)
  BY LeftKeepsOrder, SameRowsDistinct
<1>2. Ordered(b)
  <2>1. \A row \in RowsOf(a) : row.ord \in Nat
    BY LeftKeepsOrder, RowsAt DEF Ordered
  <2>2. \A x \in Cells : At(b, x) \in RowsOf(b)
    BY RowsAt
  <2> QED BY <1>1, <2>1, <2>2 DEF Ordered
\* Every entry stays with its process.
<1>3. ASSUME NEW y \in Cells
      PROVE  \E x \in Cells : At(b, x) = At(c, y) /\ x[1] = y[1]
  <2> DEFINE r == y[1]
  <2>1. r \in Rank /\ y[2] \in 1 .. Lnt[r] /\ At(c, y) = AfterRight(a, r)[y[2]]
    BY CellFacts DEF At
  <2> HIDE DEF r
  <2>2. /\ r \in Nat /\ Lnt[r] \in Nat /\ RegionSz \in Nat /\ RegionSz <= Lnt[r] /\ Edge1(r) \in Nat
        /\ r # 0 => Edge1(r) = RegionSz
    BY <2>1, SizeFacts
  <2>3. \A i \in 1 .. Lnt[r] :
          b[r][i] = IF i <= Edge1(r) THEN AfterLeft(a, r - 1)[Lnt[r - 1] + i] ELSE AfterLeft(a, r)[i]
    BY <2>1 DEF Between
  <2>4. \E i \in 1 .. Lnt[r] : b[r][i] = AfterRight(a, r)[y[2]]
    <3> HIDE DEF b
    <3>1. CASE \E i \in Edge1(r) + 1 .. Lnt[r] : AfterRight(a, r)[y[2]] = AfterLeft(a, r)[i]
      <4>1. PICK i \in Edge1(r) + 1 .. Lnt[r] : AfterRight(a, r)[y[2]] = AfterLeft(a, r)[i]
        BY <3>1
      <4>2. i \in 1 .. Lnt[r] /\ ~(i <= Edge1(r))
        BY <2>2
      <4> QED BY <2>3, <4>1, <4>2
    <3>2. CASE r # 0 /\ \E i \in 1 .. RegionSz : AfterRight(a, r)[y[2]] = AfterLeft(a, r - 1)[Lnt[r - 1] + i]
      <4>1. PICK i \in 1 .. RegionSz : AfterRight(a, r)[y[2]] = AfterLeft(a, r - 1)[Lnt[r - 1] + i]
        BY <3>2
      <4>2. i \in 1 .. Lnt[r] /\ i <= Edge1(r)
        BY <2>2, <3>2
      <4> QED BY <2>3, <4>1, <4>2
    <3> QED BY <2>1, <3>1, <3>2, RightPhase
  <2>5. PICK i \in 1 .. Lnt[r] : b[r][i] = AfterRight(a, r)[y[2]]
    BY <2>4
  <2> DEFINE x == <<r, i>>
  <2>6. x \in Cells /\ x[1] = r /\ At(b, x) = At(c, y)
    BY <2>1, <2>5, CellFacts DEF At
  <2> QED BY <2>6 DEF r
<1>4. ASSUME NEW x \in Cells, NEW y \in Cells, Earlier(x, y), x[1] = y[1]
      PROVE  Comp(At(c, x), At(c, y))
  <2>1. /\ x[1] \in Rank /\ x[1] \in Nat /\ x[2] \in 1 .. Lnt[x[1]] /\ y[2] \in 1 .. Lnt[x[1]]
    BY <1>4, CellFacts
  <2>2. x[2] < y[2]
    BY <1>4, <2>1 DEF Earlier, Precedes
  <2>3. Ascending(AfterRight(a, x[1]), 1, Lnt[x[1]])
    BY <2>1, RightPhase
  <2> QED BY <1>4, <2>1, <2>2, <2>3 DEF At, Ascending
<1> HIDE DEF b
<1>5. \A x, y \in Cells : At(b, x) = At(c, y) => G[x] = G[y]
  <2> TAKE x, y \in Cells
  <2>1. PICK z \in Cells : At(b, z) = At(c, y) /\ z[1] = y[1]
    BY <1>3
  <2> QED BY <1>1, <2>1, OneCell
<1>6. G \in [Cells -> Int]
  BY CellFacts
<1>7. \A x, y \in Cells : Earlier(x, y) => G[x] <= G[y]
  <2> TAKE x, y \in Cells
  <2> QED BY CellFacts DEF Earlier, Precedes
<1>8. \A x, y \in Cells : Earlier(x, y) /\ G[x] = G[y] => Comp(At(c, x), At(c, y))
  BY <1>4
<1> HIDE DEF G
<1>9. KeepsOrder(b, c)
  BY <1>2, <1>5, <1>6, <1>7, <1>8, GroupsSorted
<1> QED BY <1>9 DEF b

\* A vote for a change means that the round removed an inversion.
LEMMA VoteRemoves ==
  ASSUME TypeOK, RoundInv, HeldInv, Allreduce, NEW q \in Rank, vote[q]
  PROVE  Inversions(temp1) < Inversions(temp2)
<1>1. /\ Areas(temp2) /\ RowsOf(temp1) = RowsOf(temp2)
      /\ \A r \in Rank : Held[r] = temp2[r] /\ temp1[r] = AfterRight(temp2, r)
  BY RoundResult
<1>2. Distinct(temp2)
  BY <1>1, SameCells, SameRowsDistinct DEF HeldInv
<1>3. Moved(q, temp1[q], temp2[q])
  BY DEF Allreduce, RoundInv, DataInv
<1>4. PICK j \in 1 .. Lnt[q] : temp1[q][j] # temp2[q][j]
  BY <1>3 DEF Moved
<1> DEFINE m == <<q, j>>
<1>5. m \in Cells /\ At(temp1, m) # At(temp2, m)
  BY <1>4, CellFacts DEF At
<1> HIDE DEF m
<1>6. KeepsOrder(temp2, Between(temp2)) /\ RowsOf(Between(temp2)) = RowsOf(temp2) /\ Ordered(temp2)
  BY <1>1, <1>2, LeftKeepsOrder
<1>7. KeepsOrder(Between(temp2), temp1)
  BY <1>1, <1>2, RightKeepsOrder
<1>8. KeepsOrder(temp2, temp1)
  BY <1>6, <1>7, OrderKeptTwice
<1> QED BY <1>1, <1>2, <1>5, <1>6, <1>8, FewerInversions

(***************************************************************************)
(* Every round that does not end the loop of sortP leaves fewer pairs of   *)
(* entries in the wrong order, and the one that ends it has moved none.    *)
(***************************************************************************)
THEOREM MakesProgress ==
  ASSUME DistinctInputs
  PROVE  Spec => RoundsProgress
<1> DEFINE Progress == Allreduce => IF \E r \in Rank : pc'[r] = "round"
                                    THEN Inversions(temp1) < Inversions(temp2)
                                    ELSE \A r \in Rank : Local(r, temp1[r]) = Local(r, temp2[r])
<1>1. TypeOK /\ RoundInv /\ HeldInv => Progress
  <2> SUFFICES ASSUME TypeOK, RoundInv, HeldInv, Allreduce
               PROVE  IF \E r \in Rank : pc'[r] = "round"
                      THEN Inversions(temp1) < Inversions(temp2)
                      ELSE \A r \in Rank : Local(r, temp1[r]) = Local(r, temp2[r])
    OBVIOUS
  <2>1. CASE \E q \in Rank : vote[q]
    <3>1. \E r \in Rank : pc'[r] = "round"
      BY <2>1 DEF Allreduce
    <3> QED BY <2>1, <3>1, VoteRemoves
  <2>2. CASE \A q \in Rank : ~vote[q]
    <3>1. \A r \in Rank : pc'[r] = "copy"
      BY <2>2 DEF Allreduce
    <3>2. \A r \in Rank : Local(r, temp1[r]) = Local(r, temp2[r])
      BY <2>2, NoVoteUnmoved DEF Local
    <3> QED BY <3>1, <3>2
  <2> QED BY <2>1, <2>2
<1>2. Init => HeldInv
  BY InitHeld
<1>3. TypeOK /\ RoundInv /\ HeldInv /\ [Next]_vars => HeldInv'
  BY NextHeld
<1>4. TypeOK /\ RoundInv /\ HeldInv => [Progress]_vars
  BY <1>1
<1> HIDE DEF Progress
<1>5. Spec => [][Progress]_vars
  BY <1>2, <1>3, <1>4, TypeCorrect, RoundInvariant, PTL DEF Spec
<1> QED BY <1>5 DEF Progress, RoundsProgress
=============================================================================
