--------------------------- MODULE GathersProofs ---------------------------
(***************************************************************************)
(* Proofs about Gathers, for every file whose traces are in the order of   *)
(* their gathers, every number of processes and every size of the output.  *)
(*                                                                         *)
(* The gathers of a sequence of traces are given by their marks: where     *)
(* each begins, and the end (Marks).  The marks exist (MarksExist), and    *)
(* Runs is what they say (RunsAre).  The marks of a block of the file are  *)
(* those of the file, cut off at the ends of the block (PartMarks), and    *)
(* so the gathers that begin in a block, with what the processes above     *)
(* tell of the last, are the gathers of the file that begin there          *)
(* (FoundIs).  The processes' lists, one after the other, are the list of  *)
(* the gathers of the file (ListIs).                                       *)
(*                                                                         *)
(* A put reaches the cell that a get of the same number reads, and no      *)
(* other (PutGet).  The running sums of a turn, of the traces read and of  *)
(* those written, are places in the file and in the output (SumFrom).      *)
(*                                                                         *)
(* The inductive invariant IInv says what holds in each of the phases that *)
(* the processes go through together.  There is one lemma for each action. *)
(***************************************************************************)
EXTENDS Gathers, SharedFacts, SequenceTheorems

\* Where the m gathers among the first n traces of s begin, and their end.
Marks(s, n, m, e) ==
  /\ m \in Nat \ {0}
  /\ e \in [1 .. m + 1 -> Nat]
  /\ e[1] = 1 /\ e[m + 1] = n + 1
  /\ \A i, j \in 1 .. m + 1 : i < j => e[i] < e[j]
  /\ \A j \in 1 .. m : \A k \in e[j] .. e[j + 1] - 1 : s[k] = s[e[j]]
  /\ \A j \in 2 .. m : s[e[j]] # s[e[j] - 1]

Marked(s, n) == \E m \in Nat \ {0} : \E e \in [1 .. m + 1 -> Nat] : Marks(s, n, m, e)

LEMMA MarkOne ==
  ASSUME NEW s, s \in Seq(Nat)
  PROVE  Marked(s, 1)
<1> DEFINE e == [i \in 1 .. 1 + 1 |-> i]
<1>1. e \in [1 .. 1 + 1 -> Nat]
  OBVIOUS
<1>2. \A j \in 1 .. 1 : \A k \in e[j] .. e[j + 1] - 1 : s[k] = s[e[j]]
  OBVIOUS
<1>3. Marks(s, 1, 1, e)
  BY <1>1, <1>2 DEF Marks
<1>4. 1 \in Nat \ {0}
  OBVIOUS
<1> HIDE DEF e
<1> QED BY <1>1, <1>3, <1>4 DEF Marked

LEMMA MarkNext ==
  ASSUME NEW s, s \in Seq(Nat), NEW n \in Nat \ {0}, Marked(s, n)
  PROVE  Marked(s, n + 1)
<1>1. PICK m \in Nat \ {0} : \E e \in [1 .. m + 1 -> Nat] : Marks(s, n, m, e)
  BY DEF Marked
<1>2. PICK e \in [1 .. m + 1 -> Nat] : Marks(s, n, m, e)
  BY <1>1
<1>3. /\ e[1] = 1 /\ e[m + 1] = n + 1
      /\ \A i, j \in 1 .. m + 1 : i < j => e[i] < e[j]
      /\ \A j \in 1 .. m : \A k \in e[j] .. e[j + 1] - 1 : s[k] = s[e[j]]
      /\ \A j \in 2 .. m : s[e[j]] # s[e[j] - 1]
  BY <1>2 DEF Marks
<1>4. \A i \in 1 .. m : e[i] \in Nat /\ e[i] < n + 1 /\ 1 <= e[i]
  <2> SUFFICES ASSUME NEW i \in 1 .. m
               PROVE  e[i] \in Nat /\ e[i] < n + 1 /\ 1 <= e[i]
    OBVIOUS
  <2>1. i \in 1 .. m + 1 /\ m + 1 \in 1 .. m + 1 /\ 1 \in 1 .. m + 1 /\ i < m + 1
    OBVIOUS
  <2>2. e[i] \in Nat /\ e[i] < e[m + 1] /\ (1 < i => e[1] < e[i])
    BY <2>1, <1>3
  <2> QED BY <2>2, <1>3
<1>5. CASE s[n + 1] = s[n]
  <2> DEFINE f == [i \in 1 .. m + 1 |-> IF i = m + 1 THEN n + 2 ELSE e[i]]
  <2>1. f \in [1 .. m + 1 -> Nat] /\ f[1] = 1 /\ f[m + 1] = n + 2
    BY <1>3
  <2>2. ASSUME NEW i \in 1 .. m + 1, NEW j \in 1 .. m + 1, i < j
        PROVE  f[i] < f[j]
    <3>1. i \in 1 .. m /\ f[i] = e[i]
      BY <2>2
    <3>2. CASE j = m + 1
      BY <3>1, <3>2, <1>4
    <3>3. CASE j # m + 1
      BY <3>1, <3>3, <1>3, <2>2
    <3> QED BY <3>2, <3>3
  <2>3. ASSUME NEW j \in 1 .. m, NEW k \in f[j] .. f[j + 1] - 1
        PROVE  s[k] = s[f[j]]
    <3>1. f[j] = e[j]
      OBVIOUS
    <3>2. CASE j # m
      <4>1. f[j + 1] = e[j + 1]
        BY <3>2
      <4> QED BY <4>1, <3>1, <1>3
    <3>3. CASE j = m
      <4>1. k \in e[m] .. n + 1
        BY <3>3, <3>1
      <4>2. \A l \in e[m] .. n : s[l] = s[e[m]]
        BY <1>3, m \in 1 .. m
      <4>3. n \in e[m] .. n
        BY <1>4, m \in 1 .. m
      <4> QED BY <4>1, <4>2, <4>3, <1>5, <3>1, <3>3
    <3> QED BY <3>2, <3>3
  <2>4. \A j \in 2 .. m : s[f[j]] # s[f[j] - 1]
    BY <1>3
  <2>5. Marks(s, n + 1, m, f)
    <3> HIDE DEF f
    <3> QED BY <2>1, <2>2, <2>3, <2>4 DEF Marks
  <2> QED BY <2>1, <2>5 DEF Marked
<1>6. CASE s[n + 1] # s[n]
  <2> DEFINE p == m + 1
             f == [i \in 1 .. p + 1 |-> IF i = p + 1 THEN n + 2 ELSE e[i]]
  <2>1. p \in Nat \ {0} /\ f \in [1 .. p + 1 -> Nat] /\ f[1] = 1 /\ f[p + 1] = n + 2
    BY <1>3
  <2>2. ASSUME NEW i \in 1 .. p + 1, NEW j \in 1 .. p + 1, i < j
        PROVE  f[i] < f[j]
    <3>1. i \in 1 .. m + 1 /\ f[i] = e[i]
      BY <2>2
    <3>2. e[i] \in Nat /\ e[i] <= n + 1
      <4>1. CASE i = m + 1
        BY <4>1, <1>3
      <4>2. CASE i # m + 1
        <5>1. i \in 1 .. m
          BY <4>2, <3>1
        <5> QED BY <5>1, <1>4
      <4> QED BY <4>1, <4>2
    <3>3. CASE j = p + 1
      BY <3>1, <3>2, <3>3
    <3>4. CASE j # p + 1
      BY <3>1, <3>4, <1>3, <2>2
    <3> QED BY <3>3, <3>4
  <2>3. ASSUME NEW j \in 1 .. p, NEW k \in f[j] .. f[j + 1] - 1
        PROVE  s[k] = s[f[j]]
    <3>1. f[j] = e[j]
      OBVIOUS
    <3>2. CASE j # p
      <4>1. f[j + 1] = e[j + 1] /\ j \in 1 .. m
        BY <3>2
      <4> QED BY <4>1, <3>1, <1>3
    <3>3. CASE j = p
      BY <3>3, <3>1, <1>3
    <3> QED BY <3>2, <3>3
  <2>4. ASSUME NEW j \in 2 .. p
        PROVE  s[f[j]] # s[f[j] - 1]
    <3>1. f[j] = e[j]
      OBVIOUS
    <3>2. CASE j = p
      <4>1. e[j] = n + 1
        BY <3>2, <1>3
      <4> QED BY <4>1, <3>1, <1>6
    <3>3. CASE j # p
      BY <3>1, <3>3, <1>3
    <3> QED BY <3>2, <3>3
  <2>5. Marks(s, n + 1, p, f)
    <3> HIDE DEF f, p
    <3> QED BY <2>1, <2>2, <2>3, <2>4 DEF Marks
  <2> QED BY <2>1, <2>5 DEF Marked
<1> QED BY <1>5, <1>6

\* Every sequence of traces has its marks.
LEMMA MarksExist ==
  ASSUME NEW s, s \in Seq(Nat), Len(s) > 0
  PROVE  Marked(s, Len(s))
<1> DEFINE Bad == {n \in Nat : n > 0 /\ ~Marked(s, n)}
<1> SUFFICES ASSUME Bad # {}
             PROVE  FALSE
  BY LenProperties
<1>1. PICK n \in Bad : \A k \in Bad : n <= k
  <2>1. Bad \in SUBSET Nat
    OBVIOUS
  <2> QED BY <2>1, LeastNat
<1>2. n \in Nat /\ n > 0 /\ ~Marked(s, n) /\ n # 1
  BY MarkOne
<1>3. n - 1 \in Nat \ {0} /\ n - 1 \notin Bad
  BY <1>1, <1>2
<1>4. Marked(s, n - 1)
  BY <1>3
<1>5. Marked(s, (n - 1) + 1)
  BY <1>3, <1>4, MarkNext
<1> QED BY <1>2, <1>5

LEMMA MarkBounds ==
  ASSUME NEW s, NEW n \in Nat, NEW m, NEW e, Marks(s, n, m, e)
  PROVE  \A i \in 1 .. m + 1 : e[i] \in Nat /\ 1 <= e[i] /\ e[i] <= n + 1 /\ (i <= m => e[i] <= n)
<1> SUFFICES ASSUME NEW i \in 1 .. m + 1
             PROVE  e[i] \in Nat /\ 1 <= e[i] /\ e[i] <= n + 1 /\ (i <= m => e[i] <= n)
  OBVIOUS
<1>1. /\ m \in Nat \ {0} /\ e \in [1 .. m + 1 -> Nat] /\ e[1] = 1 /\ e[m + 1] = n + 1
      /\ \A k, j \in 1 .. m + 1 : k < j => e[k] < e[j]
  BY DEF Marks
<1>2. 1 \in 1 .. m + 1 /\ m + 1 \in 1 .. m + 1 /\ e[i] \in Nat
  BY <1>1
<1>3. (1 < i => e[1] < e[i]) /\ (i < m + 1 => e[i] < e[m + 1])
  BY <1>1, <1>2
<1> QED BY <1>1, <1>2, <1>3

LEMMA MarksAscend ==
  ASSUME NEW s, NEW n \in Nat, NEW m, NEW e, Marks(s, n, m, e),
         NEW i \in 1 .. m + 1, NEW j \in 1 .. m + 1, i <= j
  PROVE  e[i] \in Nat /\ e[j] \in Nat /\ e[i] <= e[j]
<1>1. /\ m \in Nat /\ e \in [1 .. m + 1 -> Nat]
      /\ i < j => e[i] < e[j]
  BY DEF Marks
<1>2. e[i] \in Nat /\ e[j] \in Nat
  BY <1>1
<1>3. i = j \/ i < j
  BY <1>1
<1> QED BY <1>1, <1>2, <1>3

\* Every trace is in a gather.
LEMMA RunAt ==
  ASSUME NEW s, NEW n \in Nat, NEW m, NEW e, Marks(s, n, m, e), NEW k \in 1 .. n
  PROVE  \E j \in 1 .. m : e[j] <= k /\ k < e[j + 1]
<1>1. m \in Nat \ {0} /\ e \in [1 .. m + 1 -> Nat] /\ e[1] = 1 /\ e[m + 1] = n + 1
  BY DEF Marks
<1> DEFINE T == {j \in 1 .. m : e[j] <= k}
<1>2. T \in SUBSET Nat /\ 1 \in T /\ \A j \in T : j <= m
  BY <1>1
<1>3. PICK j \in T : \A i \in T : i <= j
  BY <1>1, <1>2, GreatestNat
<1>4. j + 1 \notin T /\ j \in 1 .. m /\ e[j] <= k
  BY <1>3
<1>5. e[j + 1] \in Nat /\ (j = m => k < e[j + 1])
  BY <1>1, <1>4
<1>6. j # m => j + 1 \in 1 .. m
  BY <1>4, <1>1
<1>7. k < e[j + 1]
  BY <1>4, <1>5, <1>6
<1> QED BY <1>4, <1>7

RunsOf(s, m, e) == [j \in 1 .. m |-> [n |-> e[j + 1] - e[j], id |-> s[e[j]]]]

\* Runs gives what the marks say: CHOOSE and the cardinalities come to this.
LEMMA RunsAre ==
  ASSUME NEW s, s \in Seq(Nat), NEW m, NEW e, Marks(s, Len(s), m, e)
  PROVE  Runs(s) = RunsOf(s, m, e)
<1> DEFINE N == Len(s)
           below(j) == {l \in Starts(s) : l <= e[j]}
           st(j) == CHOOSE k \in Starts(s) : Cardinality({l \in Starts(s) : l <= k}) = j
<1>1. /\ m \in Nat \ {0} /\ e \in [1 .. m + 1 -> Nat] /\ e[1] = 1 /\ e[m + 1] = N + 1
      /\ \A i, j \in 1 .. m + 1 : i < j => e[i] < e[j]
      /\ \A j \in 1 .. m : \A k \in e[j] .. e[j + 1] - 1 : s[k] = s[e[j]]
      /\ \A j \in 2 .. m : s[e[j]] # s[e[j] - 1]
  BY DEF Marks
<1>2. N \in Nat /\ \A i \in 1 .. m : e[i] \in 1 .. N
  <2>1. N \in Nat
    BY LenProperties
  <2>2. \A i \in 1 .. m + 1 : e[i] \in Nat /\ 1 <= e[i] /\ (i <= m => e[i] <= N)
    BY <2>1, MarkBounds
  <2> QED BY <2>1, <2>2, <1>1
<1>3. ASSUME NEW k \in Starts(s)
      PROVE  \E j \in 1 .. m : k = e[j]
  <2>1. k \in 1 .. N /\ (k = 1 \/ s[k] # s[k - 1])
    BY DEF Starts
  <2>2. PICK j \in 1 .. m : e[j] <= k /\ k < e[j + 1]
    BY <1>2, <2>1, RunAt
  <2>3. e[j] \in Nat /\ e[j + 1] \in Nat /\ 1 <= e[j]
    BY <1>1, <1>2
  <2>4. ASSUME k # e[j]
        PROVE  FALSE
    <3>1. k - 1 \in e[j] .. e[j + 1] - 1 /\ k \in e[j] .. e[j + 1] - 1 /\ k # 1
      <4>1. k \in Nat
        BY <2>1, <1>2
      <4> HIDE DEF N
      <4> QED BY <4>1, <2>2, <2>3, <2>4
    <3>2. s[k - 1] = s[e[j]] /\ s[k] = s[e[j]]
      BY <3>1, <1>1
    <3> QED BY <3>1, <3>2, <2>1
  <2> QED BY <2>4
<1>4. ASSUME NEW j \in 1 .. m
      PROVE  e[j] \in Starts(s)
  <2>1. e[j] \in 1 .. N
    BY <1>2
  <2>2. CASE j = 1
    BY <2>1, <2>2, <1>1 DEF Starts
  <2>3. CASE j # 1
    <3>1. j \in 2 .. m
      BY <2>3, <1>1
    <3>2. s[e[j]] # s[e[j] - 1]
      BY <3>1, <1>1
    <3> QED BY <2>1, <3>2 DEF Starts
  <2> QED BY <2>2, <2>3
<1>5. \A i, j \in 1 .. m : /\ e[i] <= e[j] <=> i <= j
                           /\ e[i] = e[j] => i = j
  <2> SUFFICES ASSUME NEW i \in 1 .. m, NEW j \in 1 .. m
               PROVE  (e[i] <= e[j] <=> i <= j) /\ (e[i] = e[j] => i = j)
    OBVIOUS
  <2>1. (i < j => e[i] < e[j]) /\ (j < i => e[j] < e[i]) /\ e[i] \in Nat /\ e[j] \in Nat
    BY <1>1
  <2> QED BY <2>1
<1>6. ASSUME NEW j \in 1 .. m
      PROVE  Cardinality(below(j)) = j
  <2> DEFINE f == [i \in 1 .. j |-> e[i]]
  <2>1. f \in Bijection(1 .. j, below(j))
    <3> USE <1>1
    <3>1. f \in [1 .. j -> below(j)]
      <4> SUFFICES ASSUME NEW i \in 1 .. j
                   PROVE  e[i] \in below(j)
        OBVIOUS
      <4>1. i \in 1 .. m /\ i <= j
        OBVIOUS
      <4> QED BY <4>1, <1>4, <1>5
    <3>2. \A a, b \in 1 .. j : f[a] = f[b] => a = b
      <4>1. \A a \in 1 .. j : a \in 1 .. m /\ f[a] = e[a]
        OBVIOUS
      <4> HIDE DEF f
      <4> QED BY <4>1, <1>5
    <3>3. \A y \in below(j) : \E i \in 1 .. j : f[i] = y
      <4> SUFFICES ASSUME NEW y \in below(j)
                   PROVE  \E i \in 1 .. j : f[i] = y
        OBVIOUS
      <4>1. PICK i \in 1 .. m : y = e[i]
        BY <1>3
      <4>2. i \in 1 .. j
        BY <4>1, <1>5
      <4> QED BY <4>1, <4>2
    <3> HIDE DEF f
    <3> QED BY <3>1, <3>2, <3>3 DEF Bijection, Injection, Surjection, IsInjective
  <2>2. IsFiniteSet(1 .. j) /\ Cardinality(1 .. j) = j
    BY FS_Interval
  <2>3. ExistsBijection(1 .. j, below(j))
    BY <2>1 DEF ExistsBijection
  <2> QED BY <2>2, <2>3, FS_Bijection
<1>7. ASSUME NEW j \in 1 .. m
      PROVE  st(j) = e[j]
  <2>1. e[j] \in Starts(s) /\ Cardinality({l \in Starts(s) : l <= e[j]}) = j
    BY <1>4, <1>6
  <2>2. ASSUME NEW k \in Starts(s), Cardinality({l \in Starts(s) : l <= k}) = j
        PROVE  k = e[j]
    <3>1. PICK i \in 1 .. m : k = e[i]
      BY <1>3
    <3>2. Cardinality(below(i)) = j
      BY <3>1, <2>2
    <3> QED BY <3>1, <3>2, <1>6
  <2> QED BY <2>1, <2>2
<1>8. Cardinality(Starts(s)) = m
  <2>1. m \in 1 .. m
    BY <1>1
  <2>2. \A l \in Starts(s) : l <= e[m]
    BY <2>1, <1>3, <1>5, <1>1
  <2>3. below(m) = Starts(s)
    BY <2>2
  <2> QED BY <2>1, <2>3, <1>6
<1>9. Runs(s) = [j \in 1 .. Cardinality(Starts(s)) |->
                   [n |-> (IF j = Cardinality(Starts(s)) THEN Len(s) ELSE st(j + 1) - 1) - st(j) + 1,
                    id |-> s[st(j)]]]
  BY DEF Runs
<1> HIDE DEF st
<1>10. ASSUME NEW j \in 1 .. m
       PROVE  (IF j = m THEN Len(s) ELSE st(j + 1) - 1) - st(j) + 1 = e[j + 1] - e[j]
  <2>1. e[j] \in Nat /\ e[j + 1] \in Nat /\ st(j) = e[j]
    BY <1>1, <1>7
  <2>2. CASE j = m
    BY <2>1, <2>2, <1>1, <1>2
  <2>3. CASE j # m
    <3>1. j + 1 \in 1 .. m
      BY <2>3, <1>1
    <3>2. st(j + 1) = e[j + 1]
      BY <3>1, <1>7
    <3> QED BY <2>1, <2>3, <3>2
  <2> QED BY <2>2, <2>3
<1> QED BY <1>7, <1>8, <1>9, <1>10 DEF RunsOf

-----------------------------------------------------------------------------
\* Trace k is in run j.
In(m, e, k, j) == j \in 1 .. m /\ e[j] <= k /\ k < e[j + 1]

\* Where the gathers among the traces a + 1 .. z begin: they are the runs from
\* lo to hi, cut off at the ends.
CutMarks(e, lo, hi, a, z) ==
  [j \in 1 .. hi - lo + 2 |->
     IF j = 1 THEN 1 ELSE IF j = hi - lo + 2 THEN z - a + 1 ELSE e[lo + j - 1] - a]

CutAt(s, e, lo, hi, a, z) ==
  /\ SubSeq(s, a + 1, z) \in Seq(Nat) /\ Len(SubSeq(s, a + 1, z)) = z - a
  /\ lo <= hi
  /\ Marks(SubSeq(s, a + 1, z), z - a, hi - lo + 1, CutMarks(e, lo, hi, a, z))
  /\ \A j \in 1 .. hi - lo + 1 :
       SubSeq(s, a + 1, z)[CutMarks(e, lo, hi, a, z)[j]] = s[e[lo + j - 1]]

\* The marks of a part are those of the whole, cut off at its ends.
LEMMA PartMarks ==
  ASSUME NEW s, s \in Seq(Nat), NEW m, NEW e, Marks(s, Len(s), m, e),
         NEW a \in Nat, NEW z \in Nat, a < z, z <= Len(s),
         NEW b, b = a + 1, NEW lo, In(m, e, b, lo), NEW hi, In(m, e, z, hi)
  PROVE  CutAt(s, e, lo, hi, a, z)
<1> DEFINE t == SubSeq(s, a + 1, z)
           L == hi - lo + 1
           d == [j \in 1 .. L + 1 |-> IF j = 1 THEN 1 ELSE IF j = L + 1 THEN z - a + 1 ELSE e[lo + j - 1] - a]
           N == Len(s)
<1>1. /\ m \in Nat \ {0} /\ e \in [1 .. m + 1 -> Nat] /\ e[1] = 1 /\ e[m + 1] = N + 1
      /\ \A i, j \in 1 .. m + 1 : i < j => e[i] < e[j]
      /\ \A j \in 1 .. m : \A k \in e[j] .. e[j + 1] - 1 : s[k] = s[e[j]]
      /\ \A j \in 2 .. m : s[e[j]] # s[e[j] - 1]
  BY DEF Marks
<1>2. N \in Nat /\ \A i \in 1 .. N : s[i] \in Nat
  BY LenProperties, ElementOfSeq
<1>3. t \in Seq(Nat) /\ Len(t) = z - a /\ \A k \in 1 .. z - a : t[k] = s[a + k]
  <2>1. \A i \in a + 1 .. z : s[i] \in Nat
    BY <1>2
  <2>2. a + 1 \in Int /\ z \in Int
    OBVIOUS
  <2>3. /\ t \in Seq(Nat)
        /\ Len(t) = IF a + 1 <= z THEN z - (a + 1) + 1 ELSE 0
        /\ \A k \in 1 .. z - (a + 1) + 1 : t[k] = s[a + 1 + k - 1]
    BY <2>1, <2>2, SubSeqProperties
  <2>4. a + 1 <= z /\ z - (a + 1) + 1 = z - a /\ \A k \in 1 .. z - a : a + 1 + k - 1 = a + k
    OBVIOUS
  <2> HIDE DEF t
  <2> QED BY <2>3, <2>4
<1> HIDE DEF t
<1>4. /\ lo \in Nat /\ lo \in 1 .. m /\ e[lo] \in Nat /\ e[lo + 1] \in Nat
      /\ e[lo] <= a + 1 /\ a + 1 < e[lo + 1]
      /\ hi \in Nat /\ hi \in 1 .. m /\ e[hi] \in Nat /\ e[hi + 1] \in Nat
      /\ e[hi] <= z /\ z < e[hi + 1]
  BY <1>1 DEF In
<1> HIDE DEF N
<1>5. lo <= hi
  <2>1. ASSUME hi < lo
        PROVE  FALSE
    <3>1. hi + 1 \in 1 .. m + 1 /\ lo \in 1 .. m + 1 /\ hi + 1 <= lo
      BY <1>1, <1>4, <2>1
    <3>2. e[hi + 1] <= e[lo]
      BY <3>1, <1>2, MarksAscend DEF N
    <3> DEFINE x == e[hi + 1]
               y == e[lo]
    <3>3. x \in Nat /\ y \in Nat /\ a \in Nat /\ z \in Nat /\ a < z
      BY <1>4
    <3>4. x <= y /\ y <= a + 1 /\ z < x
      BY <3>2, <1>4
    <3> HIDE DEF x, y
    <3> QED BY ONLY <3>3, <3>4
  <2> QED BY <2>1, <1>4
<1>6. L \in Nat \ {0} /\ lo + L - 1 = hi
  BY <1>4, <1>5
<1> HIDE DEF L
<1>7. ASSUME NEW j \in 2 .. L, NEW x, x = lo + j - 1
      PROVE  /\ x \in lo + 1 .. hi /\ x \in 2 .. m /\ x + 1 \in 1 .. m + 1 /\ x + 1 = lo + j
             /\ e[x] \in Nat /\ a + 1 < e[x] /\ e[x] <= z
             /\ d[j] = e[x] - a /\ j \in 1 .. L + 1 /\ j # 1 /\ j # L + 1
  <2>1. /\ x \in lo + 1 .. hi /\ x \in 2 .. m /\ x + 1 \in 1 .. m + 1 /\ x + 1 = lo + j
        /\ j \in 1 .. L + 1 /\ j # 1 /\ j # L + 1
    BY <1>1, <1>4, <1>6, <1>7
  <2>2. /\ lo + 1 \in 1 .. m + 1 /\ x \in 1 .. m + 1 /\ hi \in 1 .. m + 1
        /\ lo + 1 <= x /\ x <= hi
    BY <2>1, <1>1, <1>4
  <2>3. e[lo + 1] <= e[x] /\ e[x] <= e[hi] /\ e[x] \in Nat
    BY <2>2, <1>2, MarksAscend DEF N
  <2>4. d[j] = e[x] - a
    BY <2>1, <1>7
  <2>5. a + 1 < e[x] /\ e[x] <= z
    BY ONLY <2>3, <1>4, a \in Nat, z \in Nat
  <2> HIDE DEF d
  <2> QED BY <2>1, <2>3, <2>4, <2>5
<1>8. 1 \in 1 .. L + 1 /\ L + 1 \in 1 .. L + 1 /\ d[1] = 1 /\ d[L + 1] = z - a + 1 /\ L + 1 # 1
  BY <1>6
<1>9. \A j \in 1 .. L + 1 : j = 1 \/ j = L + 1 \/ j \in 2 .. L
  BY <1>6
<1>10. \A j \in 1 .. L + 1 : d[j] \in Nat /\ (j # 1 => 1 < d[j]) /\ (j # L + 1 => d[j] < z - a + 1)
  <2> SUFFICES ASSUME NEW j \in 1 .. L + 1
               PROVE  d[j] \in Nat /\ (j # 1 => 1 < d[j]) /\ (j # L + 1 => d[j] < z - a + 1)
    OBVIOUS
  <2> HIDE DEF d
  <2>1. CASE j = 1
    BY <2>1, <1>8
  <2>2. CASE j = L + 1
    BY <2>2, <1>8
  <2>3. CASE j \in 2 .. L
    <3> DEFINE x == lo + j - 1
    <3>1. /\ e[x] \in Nat /\ a + 1 < e[x] /\ e[x] <= z
          /\ d[j] = e[x] - a
      BY <2>3, <1>7
    <3> HIDE DEF x
    <3> QED BY ONLY <3>1, a \in Nat, z \in Nat
  <2> QED BY <2>1, <2>2, <2>3, <1>9
<1>11. d \in [1 .. L + 1 -> Nat]
  BY <1>10
<1> HIDE DEF d
<1>12. ASSUME NEW i \in 1 .. L + 1, NEW j \in 1 .. L + 1, i < j
       PROVE  d[i] < d[j]
  <2>1. j # 1 /\ i # L + 1
    BY <1>6, <1>12
  <2>2. CASE i = 1
    BY <2>1, <2>2, <1>8, <1>10
  <2>3. CASE j = L + 1
    BY <2>1, <2>3, <1>8, <1>10
  <2>4. CASE i \in 2 .. L /\ j \in 2 .. L
    <3> DEFINE x == lo + i - 1
               y == lo + j - 1
    <3>1. x < y
      BY <1>4, <1>12, <1>6
    <3>2. /\ x \in 2 .. m /\ e[x] \in Nat /\ d[i] = e[x] - a
          /\ y \in 2 .. m /\ e[y] \in Nat /\ d[j] = e[y] - a
      BY <2>4, <1>7
    <3> HIDE DEF x, y
    <3>3. e[x] < e[y]
      <4>1. x \in 1 .. m + 1 /\ y \in 1 .. m + 1
        BY <3>2, <1>1
      <4> QED BY <4>1, <3>1, <1>1
    <3> DEFINE u == e[x]
               w == e[y]
    <3>4. u \in Nat /\ w \in Nat /\ u < w /\ d[i] = u - a /\ d[j] = w - a
      BY ONLY <3>2, <3>3
    <3> HIDE DEF u, w
    <3>5. u - a < w - a
      BY ONLY <3>4, a \in Nat
    <3> QED BY ONLY <3>4, <3>5
  <2> QED BY <2>1, <2>2, <2>3, <2>4, <1>9
\* Run j of the part lies inside run x = lo + j - 1.
<1>13. ASSUME NEW j \in 1 .. L, NEW x, x = lo + j - 1
       PROVE  /\ x \in 1 .. m
              /\ \A k \in d[j] .. d[j + 1] - 1 : t[k] = s[e[x]]
              /\ t[d[j]] = s[e[x]]
  <2>1. j \in Nat /\ j + 1 \in 1 .. L + 1 /\ j \in 1 .. L + 1 /\ j < j + 1
    BY <1>6
  <2>2. d[j] \in Nat /\ d[j + 1] \in Nat /\ 1 <= d[j] /\ d[j + 1] <= z - a + 1 /\ d[j] < d[j + 1]
    <3>1. 1 <= d[j]
      <4>1. CASE j = 1
        BY ONLY <4>1, <1>8
      <4>2. CASE j # 1
        <5>1. d[j] \in Nat /\ 1 < d[j]
          BY <4>2, <2>1, <1>10
        <5> QED BY ONLY <5>1
      <4> QED BY <4>1, <4>2
    <3>2. d[j + 1] <= z - a + 1
      <4>1. CASE j + 1 = L + 1
        BY <4>1, <1>8
      <4>2. CASE j + 1 # L + 1
        BY <4>2, <2>1, <1>10
      <4> QED BY <4>1, <4>2
    <3> QED BY <2>1, <1>10, <1>12, <3>1, <3>2
  <2>3. x \in 1 .. m /\ e[x] \in Nat /\ e[x] <= a + d[j]
    <3>1. CASE j = 1
      <4>1. x = lo
        BY <3>1, <1>13, <1>4
      <4> QED BY <4>1, <3>1, <1>8, <1>4
    <3>2. CASE j # 1
      <4>1. j \in 2 .. L
        BY <3>2, <2>1
      <4>2. x \in 2 .. m /\ e[x] \in Nat /\ d[j] = e[x] - a
        BY <4>1, <1>7, <1>13
      <4>3. m \in Nat
        BY <1>1
      <4> DEFINE y == e[x]
                 w == d[j]
      <4>4. y \in Nat /\ w = y - a
        BY <4>2
      <4> HIDE DEF y, w
      <4>5. x \in 1 .. m /\ y <= a + w
        BY ONLY <4>2, <4>3, <4>4, a \in Nat
      <4> QED BY <4>4, <4>5 DEF y, w
    <3> QED BY <3>1, <3>2
  <2>4. e[x + 1] \in Nat /\ a + d[j + 1] <= e[x + 1]
    <3>1. CASE j = L
      <4>1. x + 1 = hi + 1
        BY <3>1, <1>6, <1>4, <1>13
      <4> QED BY <3>1, <4>1, <1>8, <1>4
    <3>2. CASE j # L
      <4>1. j + 1 \in 2 .. L /\ x + 1 = lo + (j + 1) - 1
        BY <3>2, <2>1, <1>4, <1>6, <1>13
      <4>2. e[x + 1] \in Nat /\ d[j + 1] = e[x + 1] - a
        BY <4>1, <1>7
      <4> QED BY <4>2
    <3> QED BY <3>1, <3>2
  <2>5. ASSUME NEW k \in d[j] .. d[j + 1] - 1
        PROVE  t[k] = s[e[x]]
    <3>1. k \in 1 .. z - a
      BY <2>2
    <3>2. t[k] = s[a + k]
      BY <3>1, <1>3
    <3>3. a + k \in e[x] .. e[x + 1] - 1
      BY ONLY <2>2, <2>3, <2>4, a \in Nat, k \in d[j] .. d[j + 1] - 1
    <3> QED BY <2>3, <3>2, <3>3, <1>1
  <2>6. d[j] \in d[j] .. d[j + 1] - 1
    BY <2>2
  <2> QED BY <2>3, <2>5, <2>6
<1>14. ASSUME NEW j \in 2 .. L
       PROVE  t[d[j]] # t[d[j] - 1]
  <2> DEFINE x == lo + j - 1
  <2>1. x \in 2 .. m /\ e[x] \in Nat /\ d[j] = e[x] - a /\ a + 1 < e[x] /\ e[x] <= z
    BY <1>7
  <2>2. t[d[j]] = s[e[x]]
    <3>1. j \in 1 .. L
      BY <1>6
    <3> QED BY <3>1, <1>13
  <2> HIDE DEF x
  <2>3. d[j] - 1 \in 1 .. z - a /\ a + (d[j] - 1) = e[x] - 1
    BY ONLY <2>1, a \in Nat, z \in Nat
  <2>4. t[d[j] - 1] = s[e[x] - 1]
    BY <2>3, <1>3
  <2> QED BY <2>1, <2>2, <2>4, <1>1
<1>15. \A j \in 1 .. L : t[d[j]] = s[e[lo + j - 1]]
  BY <1>13
<1>16. Marks(t, z - a, L, d)
  <2>1. \A j \in 1 .. L : \A k \in d[j] .. d[j + 1] - 1 : t[k] = t[d[j]]
    BY <1>13
  <2> QED BY <1>6, <1>8, <1>11, <1>12, <1>14, <2>1 DEF Marks
<1>17. CutMarks(e, lo, hi, a, z) = d
  <2>1. hi - lo + 2 = L + 1
    BY <1>4 DEF L
  <2> QED BY <2>1 DEF CutMarks, d
<1> QED BY <1>3, <1>5, <1>15, <1>16, <1>17 DEF t, L, CutAt

-----------------------------------------------------------------------------
\* The block of a process is not empty, and its traces are in order.
LEMMA BlockIs ==
  ASSUME line \in Lines, NEW r \in Rank
  PROVE  /\ line \in Seq(Nat) /\ Len(line) \in Nat /\ Len(line) > 0
         /\ First(Len(line), r) \in Nat /\ First(Len(line), r + 1) \in Nat
         /\ First(Len(line), r) + Share(Len(line), r) = First(Len(line), r + 1)
         /\ First(Len(line), r) < First(Len(line), r + 1)
         /\ First(Len(line), r + 1) <= Len(line)
         /\ r \in Nat
<1> DEFINE N == Len(line)
<1>1. line \in Seq(Nat) /\ N \in Nat /\ N >= NumRank /\ NumRank \in Nat /\ NumRank > 0
  BY LinesAssumption, NumRankAssumption, LenProperties
<1> HIDE DEF N
<1>2. N \div NumRank >= 1
  <2>1. N = NumRank * (N \div NumRank) + (N % NumRank) /\ N % NumRank < NumRank /\ N \div NumRank \in Nat
        /\ N % NumRank \in Nat
    BY <1>1, DivFacts
  <2>2. N \div NumRank # 0
    <3>1. NumRank * 0 = 0
      BY <1>1
    <3> QED BY <3>1, <2>1, <1>1
  <2> QED BY <2>1, <2>2
<1>3. /\ r \in Nat /\ First(N, r) \in Nat
      /\ Share(N, r) = (N \div NumRank) + (IF r < N % NumRank THEN 1 ELSE 0)
      /\ First(N, r) + Share(N, r) = First(N, r + 1)
      /\ First(N, r + 1) <= N /\ N \div NumRank \in Nat
  BY <1>1, ShareIs
<1>4. Share(N, r) \in Nat /\ Share(N, r) > 0
  BY <1>2, <1>3
<1>5. /\ line \in Seq(Nat) /\ N \in Nat /\ N > 0
      /\ First(N, r) \in Nat /\ First(N, r + 1) \in Nat
      /\ First(N, r) + Share(N, r) = First(N, r + 1)
      /\ First(N, r) < First(N, r + 1)
      /\ First(N, r + 1) <= N
      /\ r \in Nat
  BY <1>1, <1>3, <1>4
<1> QED BY <1>5 DEF N

LEMMA LineAscends ==
  ASSUME line \in Lines, NEW i \in 1 .. Len(line), NEW j \in 1 .. Len(line), i <= j
  PROVE  line[i] \in Nat /\ line[j] \in Nat /\ line[i] <= line[j]
<1>1. line \in Seq(Nat) /\ Len(line) \in Nat /\ (i < j => line[i] <= line[j])
  BY LinesAssumption, LenProperties
<1>2. line[i] \in Nat /\ line[j] \in Nat
  BY <1>1, ElementOfSeq
<1>3. i = j \/ i < j
  BY <1>1
<1> QED BY <1>1, <1>2, <1>3

\* The runs of the block of r: from run lo to run hi of the file, cut off at
\* its ends.
LocalRuns(m, e, lo, hi, a, z) ==
  [j \in 1 .. hi - lo + 1 |->
     [n  |-> (IF j = hi - lo + 1 THEN z + 1 ELSE e[lo + j]) - (IF j = 1 THEN a + 1 ELSE e[lo + j - 1]),
      id |-> line[e[lo + j - 1]]]]

\* The runs a process finds among its own traces.
LEMMA LocalIs ==
  ASSUME line \in Lines, NEW m, NEW e, Marks(line, Len(line), m, e), NEW r \in Rank
  PROVE  LET a == First(Len(line), r)
             z == First(Len(line), r + 1)
         IN  \E lo, hi \in 1 .. m :
               /\ In(m, e, a + 1, lo) /\ In(m, e, z, hi) /\ lo <= hi
               /\ Local(r) = LocalRuns(m, e, lo, hi, a, z)
<1> DEFINE N == Len(line)
           a == First(Len(line), r)
           z == First(Len(line), r + 1)
           t == SubSeq(line, a + 1, z)
<1>1. /\ line \in Seq(Nat) /\ N \in Nat /\ a \in Nat /\ z \in Nat /\ a < z /\ z <= N
      /\ First(N, r) + Share(N, r) = z
  BY BlockIs
<1>2. Local(r) = Runs(t)
  BY <1>1 DEF Local
<1> HIDE DEF a, z
<1>3. a + 1 \in 1 .. N /\ z \in 1 .. N
  BY <1>1
<1>4. PICK lo \in 1 .. m : e[lo] <= a + 1 /\ a + 1 < e[lo + 1]
  BY <1>1, <1>3, RunAt
<1>5. PICK hi \in 1 .. m : e[hi] <= z /\ z < e[hi + 1]
  BY <1>1, <1>3, RunAt
<1>6. In(m, e, a + 1, lo) /\ In(m, e, z, hi)
  BY <1>4, <1>5 DEF In
<1> DEFINE L == hi - lo + 1
           d == CutMarks(e, lo, hi, a, z)
<1>7. /\ t \in Seq(Nat) /\ Len(t) = z - a
      /\ lo <= hi
      /\ Marks(t, z - a, L, d)
      /\ \A j \in 1 .. L : t[d[j]] = line[e[lo + j - 1]]
  <2>1. line \in Seq(Nat) /\ Marks(line, Len(line), m, e) /\ z <= Len(line)
    BY <1>1
  <2> DEFINE b == a + 1
  <2>2. b = a + 1 /\ In(m, e, b, lo) /\ In(m, e, z, hi)
    BY <1>6
  <2> HIDE DEF b
  <2>3. CutAt(line, e, lo, hi, a, z)
    BY ONLY <2>1, <2>2, <1>1, PartMarks
  <2> QED BY <2>3 DEF CutAt
<1> HIDE DEF t
<1>8. Runs(t) = [j \in 1 .. L |-> [n |-> d[j + 1] - d[j], id |-> t[d[j]]]]
  <2> HIDE DEF d, L
  <2>1. Marks(t, Len(t), L, d)
    BY <1>7
  <2>2. Runs(t) = RunsOf(t, L, d)
    BY <1>7, <2>1, RunsAre
  <2> QED BY <2>2 DEF RunsOf
<1>9. m \in Nat /\ e \in [1 .. m + 1 -> Nat] /\ L \in Nat \ {0} /\ lo \in Nat /\ hi \in Nat
  <2>1. m \in Nat /\ e \in [1 .. m + 1 -> Nat]
    BY DEF Marks
  <2> QED BY <2>1, <1>7
<1>10. ASSUME NEW j \in 1 .. L
       PROVE  d[j + 1] - d[j] = (IF j = L THEN z + 1 ELSE e[lo + j]) - (IF j = 1 THEN a + 1 ELSE e[lo + j - 1])
  <2> DEFINE x == lo + j - 1
  <2>1. j \in Nat /\ j \in 1 .. L + 1 /\ j + 1 \in 1 .. L + 1 /\ j # L + 1 /\ j + 1 # 1
        /\ (j + 1 = L + 1 <=> j = L) /\ lo + (j + 1) - 1 = lo + j /\ lo + j = x + 1
        /\ x \in 1 .. m /\ x + 1 \in 1 .. m + 1
    BY <1>9
  <2>6. /\ hi - lo + 2 = L + 1
        /\ d = [k \in 1 .. hi - lo + 2 |->
                  IF k = 1 THEN 1 ELSE IF k = hi - lo + 2 THEN z - a + 1 ELSE e[lo + k - 1] - a]
    BY <1>9 DEF CutMarks
  <2> HIDE DEF d, L
  <2>7. d = [k \in 1 .. L + 1 |->
               IF k = 1 THEN 1 ELSE IF k = L + 1 THEN z - a + 1 ELSE e[lo + k - 1] - a]
    BY <2>6
  <2>2. d[j] = IF j = 1 THEN 1 ELSE e[x] - a
    BY <2>1, <2>7
  <2>3. d[j + 1] = IF j = L THEN z - a + 1 ELSE e[x + 1] - a
    <3>1. d[j + 1] = IF j + 1 = L + 1 THEN z - a + 1 ELSE e[lo + (j + 1) - 1] - a
      BY <2>1, <2>7
    <3> HIDE DEF x
    <3> QED BY <3>1, <2>1
  <2>4. e[x] \in Nat /\ e[x + 1] \in Nat
    <3> HIDE DEF x
    <3>1. x \in 1 .. m + 1
      BY <2>1, <1>9
    <3> QED BY <3>1, <2>1, <1>9
  <2> HIDE DEF x
  <2>5. d[j + 1] - d[j] = (IF j = L THEN z + 1 ELSE e[x + 1]) - (IF j = 1 THEN a + 1 ELSE e[x])
    <3> DEFINE p == d[j]
               q == d[j + 1]
               u == e[x]
               v == e[x + 1]
    <3>1. /\ u \in Nat /\ v \in Nat /\ a \in Nat /\ z \in Nat
          /\ p = IF j = 1 THEN 1 ELSE u - a
          /\ q = IF j = L THEN z - a + 1 ELSE v - a
      BY <2>2, <2>3, <2>4, <1>1
    <3> HIDE DEF p, q, u, v
    <3>2. q - p = (IF j = L THEN z + 1 ELSE v) - (IF j = 1 THEN a + 1 ELSE u)
      BY ONLY <3>1
    <3> QED BY <3>2 DEF p, q, u, v
  <2> QED BY <2>1, <2>5 DEF x
<1>11. Runs(t) = LocalRuns(m, e, lo, hi, a, z)
  <2> HIDE DEF d
  <2>1. \A j \in 1 .. L : [n |-> d[j + 1] - d[j], id |-> t[d[j]]]
             = [n |-> (IF j = L THEN z + 1 ELSE e[lo + j]) - (IF j = 1 THEN a + 1 ELSE e[lo + j - 1]),
                id |-> line[e[lo + j - 1]]]
    BY <1>7, <1>10
  <2> HIDE DEF L
  <2>2. Runs(t) = [j \in 1 .. L |->
                    [n |-> (IF j = L THEN z + 1 ELSE e[lo + j]) - (IF j = 1 THEN a + 1 ELSE e[lo + j - 1]),
                     id |-> line[e[lo + j - 1]]]]
    BY <1>8, <2>1
  <2> QED BY <2>2 DEF LocalRuns, L
<1> QED BY <1>2, <1>6, <1>7, <1>11 DEF a, z

\* A trace is in one run, and the traces of a run have one gather.
LEMMA OneRun ==
  ASSUME NEW s, NEW n \in Nat, NEW m, NEW e, Marks(s, n, m, e),
         NEW k \in Nat, NEW i, In(m, e, k, i), NEW j, In(m, e, k, j)
  PROVE  i = j
<1>1. m \in Nat /\ e \in [1 .. m + 1 -> Nat]
  BY DEF Marks
<1>2. /\ i \in 1 .. m /\ e[i] <= k /\ k < e[i + 1]
      /\ j \in 1 .. m /\ e[j] <= k /\ k < e[j + 1]
  BY DEF In
<1>3. ASSUME NEW p \in 1 .. m, NEW q \in 1 .. m, p < q, k < e[p + 1], e[q] <= k
      PROVE  FALSE
  <2> DEFINE p1 == p + 1
  <2>1. p1 \in 1 .. m + 1 /\ q \in 1 .. m + 1 /\ p1 <= q
    BY <1>1, <1>3
  <2>2. k < e[p1]
    BY <1>3
  <2> HIDE DEF p1
  <2>3. e[p1] \in Nat /\ e[q] \in Nat /\ e[p1] <= e[q]
    BY <2>1, MarksAscend
  <2> QED BY ONLY <2>2, <2>3, <1>3, k \in Nat
<1>4. i \in Nat /\ j \in Nat
  BY <1>2, <1>1
<1> QED BY <1>2, <1>3, <1>4

LEMMA SameRun ==
  ASSUME NEW s, NEW n \in Nat, NEW m, NEW e, Marks(s, n, m, e),
         NEW k \in Nat, NEW l \in Nat, NEW j, In(m, e, k, j), In(m, e, l, j)
  PROVE  s[k] = s[l]
<1>1. /\ m \in Nat /\ e \in [1 .. m + 1 -> Nat]
      /\ \A i \in 1 .. m : \A x \in e[i] .. e[i + 1] - 1 : s[x] = s[e[i]]
  BY DEF Marks
<1>2. j \in 1 .. m /\ e[j] <= k /\ k < e[j + 1] /\ e[j] <= l /\ l < e[j + 1]
  BY DEF In
<1>3. e[j] \in Nat /\ e[j + 1] \in Nat
  BY <1>1, <1>2
<1>4. k \in e[j] .. e[j + 1] - 1 /\ l \in e[j] .. e[j + 1] - 1
  BY <1>2, <1>3
<1> QED BY <1>1, <1>2, <1>4

\* e[j] is in run j.
LEMMA MarkIn ==
  ASSUME NEW s, NEW n \in Nat, NEW m, NEW e, Marks(s, n, m, e), NEW j \in 1 .. m
  PROVE  /\ In(m, e, e[j], j) /\ e[j] \in Nat /\ e[j + 1] \in Nat /\ e[j] < e[j + 1]
         /\ 1 <= e[j] /\ e[j] <= n /\ e[j + 1] <= n + 1
<1>1. /\ m \in Nat /\ e \in [1 .. m + 1 -> Nat]
      /\ \A i, k \in 1 .. m + 1 : i < k => e[i] < e[k]
  BY DEF Marks
<1> DEFINE k == j + 1
<1>2. j \in 1 .. m + 1 /\ k \in 1 .. m + 1 /\ j < k /\ j <= m
  BY <1>1
<1> HIDE DEF k
<1>3. e[j] \in Nat /\ e[k] \in Nat /\ e[j] < e[k]
  BY <1>1, <1>2
<1>4. 1 <= e[j] /\ e[j] <= n /\ e[k] <= n + 1
  BY <1>2, MarkBounds
<1>5. In(m, e, e[j], j)
  BY <1>3 DEF In, k
<1> QED BY <1>3, <1>4, <1>5 DEF k

LEMMA FunctionSeq ==
  ASSUME NEW S, NEW n \in Nat, NEW f, f \in [1 .. n -> S]
  PROVE  f \in Seq(S) /\ Len(f) = n
  OBVIOUS

\* What the exchange with the neighbours tells of the ends of a block.
LEMMA EndsAre ==
  ASSUME line \in Lines, NEW m, NEW e, Marks(line, Len(line), m, e), NEW r \in Rank,
         NEW a, a = First(Len(line), r), NEW z, z = First(Len(line), r + 1),
         NEW b, b = a + 1, NEW lo, In(m, e, b, lo), NEW hi, In(m, e, z, hi)
  PROVE  /\ lo <= hi
         /\ Local(r) = LocalRuns(m, e, lo, hi, a, z)
         /\ Local(r) \in Seq(Gather)
         /\ Len(Local(r)) = hi - lo + 1
         /\ Front(r).id = line[b] /\ Front(r).n = Least(z + 1, e[lo + 1]) - b
         /\ Back(r).id = line[z]
<1> DEFINE N == Len(line)
<1>1. /\ line \in Seq(Nat) /\ N \in Nat /\ a \in Nat /\ z \in Nat /\ a < z /\ z <= N /\ b \in Nat
  BY BlockIs
<1>2. PICK lo2, hi2 \in 1 .. m :
         /\ In(m, e, b, lo2) /\ In(m, e, z, hi2) /\ lo2 <= hi2
         /\ Local(r) = LocalRuns(m, e, lo2, hi2, a, z)
  BY LocalIs
<1> HIDE DEF N
<1>3. lo2 = lo /\ hi2 = hi
  BY <1>1, <1>2, OneRun DEF N
<1>4. /\ lo <= hi /\ lo \in 1 .. m /\ hi \in 1 .. m
      /\ Local(r) = LocalRuns(m, e, lo, hi, a, z)
  BY <1>2, <1>3
<1>5. /\ m \in Nat /\ e \in [1 .. m + 1 -> Nat] /\ lo \in Nat /\ hi \in Nat
  <2>1. m \in Nat /\ e \in [1 .. m + 1 -> Nat]
    BY DEF Marks
  <2> QED BY <2>1, <1>4
<1> DEFINE L == hi - lo + 1
<1>6. L \in Nat /\ L > 0 /\ lo + L - 1 = hi
  BY <1>4, <1>5
<1>7. /\ e[lo] \in Nat /\ e[lo + 1] \in Nat /\ e[lo] <= b /\ b < e[lo + 1]
      /\ e[hi] \in Nat /\ e[hi + 1] \in Nat /\ e[hi] <= z /\ z < e[hi + 1]
  BY <1>4, <1>5 DEF In
<1> HIDE DEF L
\* The number of traces of a run of the block, and its gather.
<1>8. ASSUME NEW j \in 1 .. L
      PROVE  /\ (IF j = L THEN z + 1 ELSE e[lo + j]) - (IF j = 1 THEN a + 1 ELSE e[lo + j - 1]) \in Nat
             /\ line[e[lo + j - 1]] \in Nat
  <2> DEFINE x == lo + j - 1
  <2>1. /\ x \in 1 .. m /\ x + 1 = lo + j /\ j \in Nat
        /\ lo <= x /\ x <= hi /\ (j = 1 => x = lo) /\ (j = L => x = hi)
        /\ (j # L => x + 1 <= hi) /\ (j # 1 => lo + 1 <= x)
    BY <1>4, <1>5, <1>6
  <2> HIDE DEF x
  <2>2. /\ e[x] \in Nat /\ e[x + 1] \in Nat /\ e[x] < e[x + 1] /\ 1 <= e[x] /\ e[x] <= N
    BY <2>1, <1>1, MarkIn DEF N
  <2>3. j # L => e[x + 1] <= e[hi]
    <3> DEFINE y == x + 1
    <3>1. y \in 1 .. m + 1 /\ hi \in 1 .. m + 1 /\ (j # L => y <= hi)
      BY <2>1, <1>4, <1>5
    <3> HIDE DEF y
    <3>2. j # L => e[y] <= e[hi]
      BY <3>1, <1>1, MarksAscend DEF N
    <3> QED BY <3>2 DEF y
  <2>4. j # 1 => e[lo + 1] <= e[x]
    <3> DEFINE y == lo + 1
    <3>1. y \in 1 .. m + 1 /\ x \in 1 .. m + 1 /\ (j # 1 => y <= x)
      BY <2>1, <1>4, <1>5
    <3> HIDE DEF y
    <3>2. j # 1 => e[y] <= e[x]
      BY <3>1, <1>1, MarksAscend DEF N
    <3> QED BY <3>2 DEF y
  <2>5. line[e[x]] \in Nat
    <3> DEFINE y == e[x]
    <3>1. y \in 1 .. N
      BY <2>2, <1>1
    <3> HIDE DEF y
    <3>2. line[y] \in Nat
      BY <3>1, <1>1, ElementOfSeq DEF N
    <3> QED BY <3>2 DEF y
  <2> DEFINE u == e[x]
             v == e[x + 1]
             lu == e[lo + 1]
             hu == e[hi]
  <2>6. /\ u \in Nat /\ v \in Nat /\ lu \in Nat /\ hu \in Nat /\ u < v
        /\ j # L => v <= hu
        /\ j # 1 => lu <= u
        /\ j = L => u = hu
        /\ j = 1 => v = lu
        /\ b < lu /\ hu <= z /\ b = a + 1 /\ a < z
    BY <2>1, <2>2, <2>3, <2>4, <1>7, <1>1
  <2> HIDE DEF u, v, lu, hu
  <2>7. (IF j = L THEN z + 1 ELSE v) - (IF j = 1 THEN a + 1 ELSE u) \in Nat
    <3>1. CASE j = L /\ j = 1
      BY ONLY <3>1, <2>6, <1>1
    <3>2. CASE j = L /\ j # 1
      BY ONLY <3>2, <2>6, <1>1
    <3>3. CASE j # L /\ j = 1
      BY ONLY <3>3, <2>6, <1>1
    <3>4. CASE j # L /\ j # 1
      BY ONLY <3>4, <2>6, <1>1
    <3> QED BY <3>1, <3>2, <3>3, <3>4
  <2> QED BY <2>1, <2>5, <2>7 DEF x, u, v
<1>9. LocalRuns(m, e, lo, hi, a, z) = [j \in 1 .. L |->
         [n  |-> (IF j = L THEN z + 1 ELSE e[lo + j]) - (IF j = 1 THEN a + 1 ELSE e[lo + j - 1]),
          id |-> line[e[lo + j - 1]]]]
  BY DEF LocalRuns, L
<1>10. LocalRuns(m, e, lo, hi, a, z) \in [1 .. L -> Gather]
  BY <1>8, <1>9 DEF Gather
<1>11. Local(r) \in Seq(Gather) /\ Len(Local(r)) = L
  BY <1>4, <1>6, <1>10, FunctionSeq
<1>12. Front(r).id = line[b] /\ Front(r).n = Least(z + 1, e[lo + 1]) - b
  <2>1. Local(r)[1] = [n |-> (IF 1 = L THEN z + 1 ELSE e[lo + 1]) - (a + 1), id |-> line[e[lo]]]
    <3>1. 1 \in 1 .. L /\ lo + 1 - 1 = lo
      BY <1>6, <1>5
    <3>2. Local(r)[1] = [n  |-> (IF 1 = L THEN z + 1 ELSE e[lo + 1])
                                 - (IF 1 = 1 THEN a + 1 ELSE e[lo + 1 - 1]),
                         id |-> line[e[lo + 1 - 1]]]
      BY ONLY <3>1, <1>4, <1>9
    <3>3. Local(r)[1] = [n  |-> (IF 1 = L THEN z + 1 ELSE e[lo + 1]) - (a + 1), id |-> line[e[lo + 1 - 1]]]
      BY <3>2
    <3> QED BY <3>1, <3>3
  <2>2. line[e[lo]] = line[b]
    <3>1. In(m, e, e[lo], lo) /\ e[lo] \in Nat
      BY <1>1, <1>4, MarkIn DEF N
    <3> QED BY <3>1, <1>1, SameRun DEF N
  <2>3. (IF 1 = L THEN z + 1 ELSE e[lo + 1]) = Least(z + 1, e[lo + 1])
    <3>1. CASE L = 1
      <4>1. lo = hi
        BY <3>1, <1>5, <1>6
      <4>2. z < e[lo + 1] /\ e[lo + 1] \in Nat
        BY <4>1, <1>7
      <4>3. z + 1 < e[lo + 1] \/ z + 1 = e[lo + 1]
        BY <4>2, <1>1
      <4> QED BY <3>1, <4>3 DEF Least
    <3>2. CASE L # 1
      <4> DEFINE y == lo + 1
      <4>1. y \in 1 .. m + 1 /\ hi \in 1 .. m + 1 /\ y <= hi
        BY <3>2, <1>4, <1>5, <1>6
      <4> HIDE DEF y
      <4>2. e[y] <= e[hi] /\ e[y] \in Nat
        BY <4>1, <1>1, MarksAscend DEF N
      <4>3. ~(z + 1 < e[y])
        BY ONLY <4>2, <1>7, <1>1
      <4> QED BY <3>2, <4>3 DEF Least, y
    <3> QED BY <3>1, <3>2
  <2> QED BY <2>1, <2>2, <2>3 DEF Front
<1>13. Back(r).id = line[z]
  <2>1. Local(r)[L].id = line[e[hi]]
    <3>1. L \in 1 .. L /\ lo + L - 1 = hi
      BY <1>6
    <3> QED BY <3>1, <1>4, <1>9
  <2>2. line[e[hi]] = line[z]
    <3>1. In(m, e, e[hi], hi) /\ e[hi] \in Nat
      BY <1>1, <1>4, MarkIn DEF N
    <3> QED BY <3>1, <1>1, SameRun DEF N
  <2> QED BY <2>1, <2>2, <1>11 DEF Back
<1> QED BY <1>4, <1>11, <1>12, <1>13 DEF L

LEMMA RunOf ==
  ASSUME NEW s, NEW n \in Nat, NEW m, NEW e, Marks(s, n, m, e), NEW k \in 1 .. n
  PROVE  \E j \in 1 .. m : In(m, e, k, j)
  BY RunAt DEF In

LEMMA FrontBack ==
  ASSUME line \in Lines, NEW m, NEW e, Marks(line, Len(line), m, e), NEW r \in Rank
  PROVE  /\ Front(r).id = line[First(Len(line), r) + 1]
         /\ Back(r).id = line[First(Len(line), r + 1)]
<1> DEFINE N == Len(line)
           a == First(Len(line), r)
           z == First(Len(line), r + 1)
           b == a + 1
<1>1. /\ N \in Nat /\ a \in Nat /\ z \in Nat /\ a < z /\ z <= N
  BY BlockIs
<1>2. b \in 1 .. N /\ z \in 1 .. N
  <2> HIDE DEF a, z, N
  <2> QED BY <1>1
<1>3. PICK lo \in 1 .. m : In(m, e, b, lo)
  <2> HIDE DEF b
  <2> QED BY <1>1, <1>2, RunOf
<1>4. PICK hi \in 1 .. m : In(m, e, z, hi)
  <2> HIDE DEF z
  <2> QED BY <1>1, <1>2, RunOf
<1> QED BY <1>3, <1>4, EndsAre

\* The first gather of r began below it just when its first trace is not the
\* first of its run.
LEMMA StartIs ==
  ASSUME line \in Lines, NEW m, NEW e, Marks(line, Len(line), m, e), NEW r \in Rank,
         NEW b, b = First(Len(line), r) + 1, NEW lo, In(m, e, b, lo)
  PROVE  Start(r) = IF e[lo] = b THEN 0 ELSE 1
<1> DEFINE N == Len(line)
           a == First(Len(line), r)
<1>1. /\ line \in Seq(Nat) /\ N \in Nat /\ a \in Nat /\ b = a + 1 /\ r \in Nat /\ a < N
  BY BlockIs
<1>2. /\ lo \in 1 .. m /\ e[lo] <= b /\ m \in Nat \ {0} /\ e[1] = 1 /\ e[lo] \in Nat /\ b < e[lo + 1]
      /\ \A j \in 2 .. m : line[e[j]] # line[e[j] - 1]
      /\ 1 <= e[lo]
  <2>1. /\ lo \in 1 .. m /\ e[lo] <= b /\ b < e[lo + 1]
    BY DEF In
  <2>2. /\ m \in Nat \ {0} /\ e[1] = 1 /\ \A j \in 2 .. m : line[e[j]] # line[e[j] - 1]
    BY DEF Marks
  <2> QED BY <2>1, <2>2, <1>1, MarkIn
<1>3. CASE r = 0
  <2>1. a = 0
    BY <1>1, <1>3, BlocksEndToEnd
  <2> HIDE DEF a, N
  <2>2. e[lo] = b
    BY <2>1, <1>1, <1>2
  <2> QED BY <2>2, <1>3 DEF Start
<1>4. CASE r > 0
  <2>1. r - 1 \in Rank /\ (r - 1) + 1 = r
    BY <1>1, <1>4, NumRankAssumption DEF Rank
  <2>2. Front(r).id = line[b] /\ Back(r - 1).id = line[a]
    <3> DEFINE q == r - 1
    <3>1. q \in Rank /\ q + 1 = r
      BY <2>1
    <3> HIDE DEF q
    <3>2. Back(q).id = line[First(Len(line), q + 1)]
      BY <3>1, FrontBack
    <3>3. Front(r).id = line[First(Len(line), r) + 1]
      BY FrontBack
    <3> QED BY <3>1, <3>2, <3>3, <1>1 DEF q
  <2>3. a > 0
    <3> DEFINE q == r - 1
    <3>1. q \in Rank /\ q + 1 = r
      BY <2>1
    <3> HIDE DEF q
    <3>2. First(Len(line), q) < First(Len(line), q + 1) /\ First(Len(line), q) \in Nat
      BY <3>1, BlockIs
    <3> QED BY <3>1, <3>2, <1>1
  <2> HIDE DEF a, N
  <2>4. CASE e[lo] = b
    <3>1. lo # 1
      BY <2>3, <2>4, <1>1, <1>2
    <3>2. lo \in 2 .. m
      BY <3>1, <1>2
    <3>3. line[e[lo]] # line[e[lo] - 1] /\ e[lo] - 1 = a
      BY <3>2, <2>4, <1>1, <1>2
    <3>4. line[b] # line[a]
      BY <3>3, <2>4
    <3> QED BY <3>4, <2>2, <2>4 DEF Start
  <2>5. CASE e[lo] # b
    <3>1. e[lo] <= a /\ a < e[lo + 1]
      <4>1. e[lo + 1] \in Nat
        BY <1>1, <1>2, MarkIn DEF N
      <4> QED BY ONLY <4>1, <2>5, <1>1, <1>2
    <3>2. In(m, e, a, lo)
      BY <3>1, <1>2 DEF In
    <3>3. line[b] = line[a]
      BY <3>2, <1>1, SameRun DEF N
    <3> QED BY <3>3, <2>2, <2>5, <1>4 DEF Start
  <2> QED BY <2>4, <2>5
<1> QED BY <1>1, <1>3, <1>4

\* The last gather of r goes on to the processes that begin before it ends.
LEMMA SpillIs ==
  ASSUME line \in Lines, NEW m, NEW e, Marks(line, Len(line), m, e), NEW r \in Rank,
         NEW hi, In(m, e, First(Len(line), r + 1), hi)
  PROVE  Spill(r) = {i \in r + 1 .. LastRank : First(Len(line), i) + 1 < e[hi + 1]}
<1> DEFINE N == Len(line)
           z == First(Len(line), r + 1)
           F(i) == First(Len(line), i)
           top == e[hi + 1]
<1>1. /\ line \in Seq(Nat) /\ N \in Nat /\ r \in Nat /\ z \in Nat /\ z <= N /\ F(r) < z /\ F(r) \in Nat
  BY BlockIs
<1>2. /\ hi \in 1 .. m /\ e[hi] <= z /\ z < top /\ m \in Nat /\ e[hi] \in Nat /\ top \in Nat
      /\ top <= N + 1 /\ e[m + 1] = N + 1
      /\ \A j \in 2 .. m : line[e[j]] # line[e[j] - 1]
  <2>1. /\ hi \in 1 .. m /\ e[hi] <= z /\ z < top
    BY DEF In
  <2>2. /\ m \in Nat /\ e[m + 1] = N + 1 /\ \A j \in 2 .. m : line[e[j]] # line[e[j] - 1]
    BY DEF Marks
  <2> QED BY <2>1, <2>2, <1>1, MarkIn
<1>3. ASSUME NEW i \in r + 1 .. LastRank
      PROVE  /\ i \in Rank /\ r < i /\ F(i) \in Nat /\ z <= F(i) /\ F(i) + 1 \in 1 .. N
             /\ Front(i).id = line[F(i) + 1]
  <2>1. i \in Rank /\ r < i
    BY <1>1, NumRankAssumption DEF Rank, LastRank
  <2>2. F(i) \in Nat /\ F(i) < N /\ Front(i).id = line[F(i) + 1]
    <3>1. F(i) \in Nat /\ F(i) < First(N, i + 1) /\ First(N, i + 1) <= N /\ First(N, i + 1) \in Nat
      BY <2>1, BlockIs
    <3>2. Front(i).id = line[F(i) + 1]
      BY <2>1, FrontBack
    <3> HIDE DEF F, N
    <3> QED BY <3>1, <3>2, <1>1
  <2>3. F(i) + 1 \in 1 .. N
    <3> DEFINE x == F(i)
    <3>1. x \in Nat /\ x < N /\ N \in Nat
      BY <2>2, <1>1
    <3> HIDE DEF x, N
    <3>2. x + 1 \in 1 .. N
      BY ONLY <3>1
    <3> QED BY ONLY <3>2 DEF x
  <2>4. z <= F(i)
    <3>1. First(N, r) + Share(N, r) <= First(N, i)
      BY <2>1, <1>1, LaterBlocks
    <3>2. First(N, r) + Share(N, r) = z
      BY BlockIs
    <3> QED BY <3>1, <3>2
  <2> HIDE DEF F, N
  <2> QED BY ONLY <2>1, <2>2, <2>3, <2>4
<1>4. Back(r).id = line[z]
  BY FrontBack
<1> HIDE DEF F, z, N, top
<1>5. ASSUME NEW k \in Nat, z <= k, k < top
      PROVE  line[k] = line[z]
  <2>1. In(m, e, z, hi) /\ In(m, e, k, hi)
    BY ONLY <1>1, <1>2, <1>5 DEF In, top
  <2> QED BY <2>1, <1>1, SameRun DEF N
<1>6. ASSUME NEW i \in r + 1 .. LastRank, Front(i).id = Back(r).id
      PROVE  F(i) + 1 < top
  <2> DEFINE f == F(i) + 1
  <2>1. f \in 1 .. N /\ line[f] = line[z] /\ z <= f /\ f \in Nat
    <3>1. F(i) \in Nat /\ z <= F(i) /\ F(i) + 1 \in 1 .. N /\ Front(i).id = line[F(i) + 1]
      BY <1>3
    <3> QED BY <3>1, <1>4, <1>6, <1>1
  <2> HIDE DEF f
  <2>2. ASSUME top <= f
        PROVE  FALSE
    <3>1. top - 1 \in Nat /\ z <= top - 1 /\ top - 1 < top /\ top \in 1 .. N /\ hi # m
      <4>1. hi = m => top = N + 1
        BY <1>2 DEF top
      <4>2. z \in Nat /\ N \in Nat /\ top \in Nat /\ z < top /\ f \in 1 .. N /\ top <= f
        BY <1>1, <1>2, <2>1, <2>2
      <4> QED BY ONLY <4>1, <4>2
    <3>2. line[top - 1] = line[z]
      BY <3>1, <1>5
    <3>3. hi + 1 \in 2 .. m
      BY <3>1, <1>2
    <3>4. line[top] # line[top - 1]
      BY <3>3, <1>2 DEF top
    <3>5. z \in 1 .. N
      BY ONLY <1>1
    <3>6. line[z] <= line[top] /\ line[top] <= line[f] /\ line[z] \in Nat /\ line[top] \in Nat
      <4>1. z <= top
        BY ONLY <1>1, <1>2
      <4> QED BY <4>1, <3>1, <3>5, <2>1, <2>2, LineAscends DEF N
    <3>7. line[top] = line[z]
      BY ONLY <3>6, <2>1
    <3> QED BY <3>2, <3>4, <3>7
  <2> QED BY ONLY <2>1, <2>2, <1>2 DEF f
<1>7. ASSUME NEW i \in r + 1 .. LastRank, F(i) + 1 < top, NEW j \in r + 1 .. i
      PROVE  Front(j).id = Back(r).id
  <2>1. j \in r + 1 .. LastRank /\ j <= i
    BY <1>1, NumRankAssumption DEF LastRank
  <2>2. F(j) \in Nat /\ F(i) \in Nat /\ z <= F(j) /\ Front(j).id = line[F(j) + 1]
    BY <2>1, <1>3
  <2>3. F(j) <= F(i)
    <3>1. CASE j = i
      BY <3>1, <2>2
    <3>2. CASE j < i
      <4>1. j \in Rank /\ i \in Rank
        BY <2>1, <1>3
      <4>2. First(N, j) + Share(N, j) <= First(N, i)
        BY <4>1, <3>2, <1>1, LaterBlocks
      <4>3. /\ First(N, j) + Share(N, j) = First(N, j + 1) /\ First(N, j) < First(N, j + 1)
            /\ First(N, j) \in Nat /\ First(N, j + 1) \in Nat
        BY <4>1, BlockIs DEF N
      <4>4. F(i) = First(N, i) /\ F(j) = First(N, j)
        BY DEF F, N
      <4> QED BY ONLY <4>2, <4>3, <4>4, <2>2
    <3> QED BY <3>1, <3>2, <2>1, <1>1
  <2>4. F(j) + 1 \in Nat /\ z <= F(j) + 1 /\ F(j) + 1 < top
    <3> DEFINE x == F(j)
               y == F(i)
    <3>1. /\ x \in Nat /\ y \in Nat /\ z <= x /\ x <= y /\ y + 1 < top /\ z \in Nat /\ top \in Nat
      BY <2>2, <2>3, <1>7, <1>1, <1>2
    <3> HIDE DEF x, y
    <3>2. x + 1 \in Nat /\ z <= x + 1 /\ x + 1 < top
      BY ONLY <3>1
    <3> QED BY <3>2 DEF x
  <2>5. line[F(j) + 1] = line[z]
    BY <2>4, <1>5
  <2> QED BY <2>2, <2>5, <1>4
<1>8. \A i \in r + 1 .. LastRank :
        (\A j \in r + 1 .. i : Front(j).id = Back(r).id) <=> F(i) + 1 < top
  <2> SUFFICES ASSUME NEW i \in r + 1 .. LastRank
               PROVE  (\A j \in r + 1 .. i : Front(j).id = Back(r).id) <=> F(i) + 1 < top
    OBVIOUS
  <2>1. i \in r + 1 .. i
    BY <1>1
  <2> QED BY <2>1, <1>6, <1>7
<1> QED BY <1>8 DEF Spill, F, top

\* A block that begins inside run hi has its first gather there.
LEMMA FrontSize ==
  ASSUME line \in Lines, NEW m, NEW e, Marks(line, Len(line), m, e), NEW i \in Rank,
         NEW b, b = First(Len(line), i) + 1, NEW lo, In(m, e, b, lo)
  PROVE  /\ Front(i).n = Least(First(Len(line), i + 1), e[lo + 1] - 1) - First(Len(line), i)
         /\ Front(i).n \in Nat
<1> DEFINE N == Len(line)
           a == First(Len(line), i)
           z == First(Len(line), i + 1)
           top == e[lo + 1]
<1>1. /\ N \in Nat /\ a \in Nat /\ z \in Nat /\ a < z /\ z <= N
  BY BlockIs
<1>2. z \in 1 .. N
  <2> HIDE DEF a, z, N
  <2> QED BY <1>1
<1>3. PICK hi \in 1 .. m : In(m, e, z, hi)
  <2> HIDE DEF z
  <2> QED BY <1>1, <1>2, RunOf
<1>4. Front(i).n = Least(z + 1, top) - b
  BY <1>3, EndsAre
<1>5. top \in Nat /\ b < top /\ b = a + 1
  <2>1. lo \in 1 .. m /\ b < top
    BY DEF In
  <2>2. top \in Nat
    BY <1>1, <2>1, MarkIn
  <2> QED BY <2>1, <2>2
<1> HIDE DEF a, z, N, top
<1>6. Least(z + 1, top) - b = Least(z, top - 1) - a /\ Least(z, top - 1) - a \in Nat
  BY ONLY <1>1, <1>5 DEF Least
<1>7. Front(i).n = Least(z, top - 1) - a /\ Front(i).n \in Nat
  BY <1>4, <1>6
<1> QED BY <1>7 DEF a, z, top

\* What the last gather of r has on the processes above it.
LEMMA SpillSum ==
  ASSUME line \in Lines, NEW m, NEW e, Marks(line, Len(line), m, e), NEW r \in Rank,
         NEW z, z = First(Len(line), r + 1), NEW hi, In(m, e, z, hi)
  PROVE  SumBelow([i \in Spill(r) |-> Front(i).n], NumRank) = e[hi + 1] - 1 - z
<1> DEFINE N == Len(line)
           F(i) == First(Len(line), i)
           top == e[hi + 1]
           v == [i \in Spill(r) |-> Front(i).n]
           S(k) == SumBelow(v, k)
<1>1. /\ N \in Nat /\ r \in Nat /\ z \in Nat /\ z = F(r + 1) /\ F(NumRank) = N
      /\ NumRank \in Nat /\ r < NumRank
      /\ Rank = 0 .. NumRank - 1 /\ LastRank = NumRank - 1
  <2>1. NumRank \in Nat /\ Rank = 0 .. NumRank - 1 /\ LastRank = NumRank - 1
    BY NumRankAssumption DEF Rank, LastRank
  <2>2. N \in Nat /\ r \in Nat /\ First(N, r + 1) \in Nat
    BY BlockIs
  <2>3. First(N, NumRank) = N
    BY <2>2, BlocksEndToEnd
  <2>4. r < NumRank
    BY <2>1
  <2> QED BY <2>1, <2>2, <2>3, <2>4
<1>2. \A i \in Rank : F(i) \in Nat /\ F(i + 1) \in Nat /\ F(i) < F(i + 1)
  BY BlockIs
<1>3. hi \in 1 .. m /\ e[hi] <= z /\ z < top /\ e[hi] \in Nat /\ top \in Nat /\ top <= N + 1
  <2>1. hi \in 1 .. m /\ e[hi] <= z /\ z < top
    BY DEF In
  <2> QED BY <2>1, <1>1, MarkIn
<1>4. Spill(r) = {i \in r + 1 .. LastRank : F(i) + 1 < top}
  <2>1. In(m, e, First(Len(line), r + 1), hi)
    OBVIOUS
  <2> QED BY <2>1, SpillIs
<1>5. \A i \in r + 1 .. LastRank : i \in Rank /\ z <= F(i)
  <2> SUFFICES ASSUME NEW i \in r + 1 .. LastRank
               PROVE  i \in Rank /\ z <= F(i)
    OBVIOUS
  <2>1. i \in Rank /\ r < i
    BY <1>1
  <2>2. First(N, r) + Share(N, r) <= First(N, i)
    BY <2>1, <1>1, LaterBlocks
  <2>3. First(N, r) + Share(N, r) = z
    BY BlockIs
  <2> QED BY <2>1, <2>2, <2>3
<1>6. ASSUME NEW i \in Spill(r)
      PROVE  v[i] = Least(F(i + 1), top - 1) - F(i) /\ v[i] \in Nat
  <2>1. i \in Rank /\ z <= F(i) /\ F(i) + 1 < top /\ F(i) \in Nat
    BY <1>4, <1>5, <1>2
  <2> DEFINE b == F(i) + 1
  <2>2. In(m, e, b, hi)
    <3>1. e[hi] <= b /\ b < top
      <4> DEFINE x == F(i)
      <4>1. x \in Nat /\ z <= x /\ x + 1 < top /\ b = x + 1
        BY <2>1
      <4> HIDE DEF x, b, top
      <4> QED BY ONLY <4>1, <1>1, <1>3
    <3> HIDE DEF b
    <3> QED BY <3>1, <1>3 DEF In
  <2>3. b = First(Len(line), i) + 1
    OBVIOUS
  <2> HIDE DEF b
  <2>4. /\ Front(i).n = Least(First(Len(line), i + 1), e[hi + 1] - 1) - First(Len(line), i)
        /\ Front(i).n \in Nat
    BY <2>1, <2>2, <2>3, FrontSize
  <2> QED BY <2>4
<1>7. DOMAIN v = Spill(r) /\ \A k \in DOMAIN v : v[k] \in Nat
  BY <1>6
<1> HIDE DEF v
<1>8. S(0) = 0 /\ \A k \in Nat : S(k) \in Nat /\ S(k + 1) = S(k) + (IF k \in Spill(r) THEN v[k] ELSE 0)
  BY <1>7, SumStep
<1> HIDE DEF S, F, N, top
<1> DEFINE Claim(k) == S(k) = IF k <= r THEN 0 ELSE Least(F(k), top - 1) - z
           Bad == {k \in 0 .. NumRank : ~Claim(k)}
<1>9. ASSUME Bad # {}
      PROVE  FALSE
  <2>1. PICK k \in Bad : \A j \in Bad : k <= j
    <3>1. Bad \in SUBSET Nat
      BY <1>1
    <3> HIDE DEF Bad
    <3> QED BY <3>1, <1>9, LeastNat
  <2>2. k \in 0 .. NumRank /\ ~Claim(k)
    BY <2>1
  <2>3. k # 0
    BY <2>2, <1>8, <1>1
  <2>4. PICK j \in Rank : k = j + 1
    <3>1. k - 1 \in Rank /\ k = (k - 1) + 1
      BY <2>2, <2>3, <1>1
    <3> QED BY <3>1
  <2>5. Claim(j)
    <3>1. j \in 0 .. NumRank /\ ~(k <= j)
      BY <2>4, <1>1
    <3> QED BY <3>1, <2>1
  <2>6. /\ j \in Nat /\ S(j) \in Nat /\ S(k) = S(j) + (IF j \in Spill(r) THEN v[j] ELSE 0)
        /\ F(j) \in Nat /\ F(k) \in Nat /\ F(j) < F(k)
    <3>1. j \in Nat
      BY <1>1
    <3>2. S(j) \in Nat /\ S(j + 1) = S(j) + (IF j \in Spill(r) THEN v[j] ELSE 0)
      BY <3>1, <1>8
    <3>3. F(j) \in Nat /\ F(j + 1) \in Nat /\ F(j) < F(j + 1)
      BY <1>2
    <3> QED BY ONLY <3>1, <3>2, <3>3, <2>4
  <2>7. CASE j < r
    <3>1. j \notin Spill(r)
      BY <2>7, <2>6, <1>4, <1>1
    <3> QED BY <3>1, <2>7, <2>6, <2>5, <2>4, <2>2, <1>1
  <2>8. CASE j = r
    <3>1. j \notin Spill(r)
      BY <2>8, <2>6, <1>4, <1>1
    <3>2. F(k) = z /\ Least(z, top - 1) = z
      <4>1. F(k) = z
        BY <2>8, <2>4, <1>1
      <4>2. Least(z, top - 1) = z
        BY ONLY <1>1, <1>3 DEF Least
      <4> QED BY <4>1, <4>2
    <3>3. S(k) = 0 /\ ~(k <= r)
      BY <3>1, <2>8, <2>6, <2>5, <2>4, <1>1
    <3> QED BY <3>2, <3>3, <2>2, <1>1
  <2>9. CASE j > r
    <3>1. j \in r + 1 .. LastRank /\ z <= F(j) /\ ~(k <= r) /\ ~(j <= r)
      <4>1. j \in r + 1 .. LastRank /\ ~(k <= r) /\ ~(j <= r)
        BY <2>9, <2>6, <2>4, <1>1
      <4> QED BY <4>1, <1>5
    <3> DEFINE x == F(j)
               y == F(k)
    <3>2. S(j) = Least(x, top - 1) - z /\ x \in Nat /\ y \in Nat /\ x < y
      BY <3>1, <2>5, <2>6
    <3>3. CASE j \in Spill(r)
      <4>1. v[j] = Least(y, top - 1) - x /\ x + 1 < top
        BY <3>3, <1>4, <1>6, <2>4
      <4>2. S(k) = S(j) + v[j]
        BY <2>6, <3>3
      <4> HIDE DEF x, y
      <4>3. S(k) = Least(y, top - 1) - z
        <5>1. Least(x, top - 1) = x
          BY ONLY <4>1, <3>2, <1>3 DEF Least
        <5>2. Least(y, top - 1) \in Nat
          BY ONLY <3>2, <1>3, <1>1 DEF Least
        <5> QED BY ONLY <4>1, <4>2, <5>1, <5>2, <3>2, <1>1
      <4> QED BY <4>3, <3>1, <2>2 DEF y
    <3>4. CASE j \notin Spill(r)
      <4>1. ~(x + 1 < top)
        BY <3>1, <3>4, <1>4
      <4>2. S(k) = S(j)
        BY <2>6, <3>4
      <4> HIDE DEF x, y
      <4>3. Least(x, top - 1) = Least(y, top - 1)
        BY ONLY <4>1, <3>2, <1>3 DEF Least
      <4>4. S(k) = Least(y, top - 1) - z
        BY <4>2, <4>3, <3>2
      <4> QED BY <4>4, <3>1, <2>2 DEF y
    <3> QED BY <3>3, <3>4
  <2> QED BY <2>6, <2>7, <2>8, <2>9, <1>1
<1>10. S(NumRank) = Least(F(NumRank), top - 1) - z
  <2>1. NumRank \in 0 .. NumRank /\ NumRank \notin Bad
    BY <1>9, <1>1
  <2> QED BY <2>1, <1>1
<1>11. Least(N, top - 1) = top - 1
  BY ONLY <1>1, <1>3 DEF Least
<1> QED BY <1>1, <1>10, <1>11 DEF S, v, top

\* k gathers begin among the first p traces.
Begun(m, e, p, k) == k \in 0 .. m /\ (k > 0 => e[k] <= p) /\ p < e[k + 1]

\* The count is there for every p, is one, and ascends.
LEMMA BegunExists ==
  ASSUME NEW s, NEW n \in Nat, NEW m, NEW e, Marks(s, n, m, e), NEW p \in 0 .. n
  PROVE  \E k \in 0 .. m : Begun(m, e, p, k)
<1>1. m \in Nat /\ e[1] = 1
  BY DEF Marks
<1>2. CASE p = 0
  <2>1. Begun(m, e, p, 0)
    BY <1>1, <1>2 DEF Begun
  <2> QED BY <2>1, <1>1
<1>3. CASE p # 0
  <2>1. p \in 1 .. n
    BY <1>3
  <2>2. PICK j \in 1 .. m : In(m, e, p, j)
    BY <2>1, RunOf
  <2>3. j \in 0 .. m /\ Begun(m, e, p, j)
    BY <2>2, <1>1 DEF In, Begun
  <2> QED BY <2>3
<1> QED BY <1>2, <1>3

LEMMA BegunOnce ==
  ASSUME NEW s, NEW n \in Nat, NEW m, NEW e, Marks(s, n, m, e), NEW p \in Nat,
         NEW q \in Nat, p <= q, NEW i, Begun(m, e, p, i), NEW j, Begun(m, e, q, j)
  PROVE  i <= j /\ (p = q => i = j)
<1>1. m \in Nat /\ e \in [1 .. m + 1 -> Nat]
  BY DEF Marks
<1>2. ASSUME NEW x \in 0 .. m, NEW y \in 0 .. m, NEW u \in Nat, NEW v \in Nat,
             x < y, u < e[x + 1], y > 0 => e[y] <= v
      PROVE  u < v
  <2> DEFINE x1 == x + 1
  <2>1. x1 \in 1 .. m + 1 /\ y \in 1 .. m + 1 /\ x1 <= y /\ y > 0
    BY <1>1, <1>2
  <2>2. u < e[x1] /\ e[y] <= v
    BY <1>2, <2>1
  <2> HIDE DEF x1
  <2>3. e[x1] \in Nat /\ e[y] \in Nat /\ e[x1] <= e[y]
    BY <2>1, MarksAscend
  <2> QED BY ONLY <2>2, <2>3, u \in Nat, v \in Nat
<1>3. /\ i \in 0 .. m /\ j \in 0 .. m /\ i \in Nat /\ j \in Nat
      /\ p < e[i + 1] /\ q < e[j + 1]
      /\ i > 0 => e[i] <= p
      /\ j > 0 => e[j] <= q
  BY <1>1 DEF Begun
<1>4. ~(j < i)
  <2>1. ASSUME j < i
        PROVE  FALSE
    <3>1. q < p
      BY <2>1, <1>2, <1>3
    <3> QED BY <3>1
  <2> QED BY <2>1
<1>5. i < j => p < q
  BY <1>2, <1>3
<1> QED BY <1>3, <1>4, <1>5

FoundFrom(r, e, ka, kz) ==
  /\ Found(r) \in Seq(Gather) /\ ka <= kz /\ ka \in Nat /\ kz \in Nat
  /\ Len(Found(r)) = kz - ka
  /\ \A i \in 1 .. kz - ka :
       Found(r)[i] = [n |-> e[ka + i + 1] - e[ka + i], id |-> line[e[ka + i]]]

(***************************************************************************)
(* The gathers that begin on r are the gathers of the file that begin      *)
(* among its traces, in full.                                              *)
(***************************************************************************)
LEMMA FoundIs ==
  ASSUME line \in Lines, NEW m, NEW e, Marks(line, Len(line), m, e), NEW r \in Rank,
         NEW a, a = First(Len(line), r), NEW z, z = First(Len(line), r + 1),
         NEW ka, Begun(m, e, a, ka), NEW kz, Begun(m, e, z, kz)
  PROVE  FoundFrom(r, e, ka, kz)
<1> DEFINE N == Len(line)
           b == a + 1
<1>1. /\ line \in Seq(Nat) /\ N \in Nat /\ a \in Nat /\ z \in Nat /\ a < z /\ z <= N /\ b \in 1 .. N
      /\ b = a + 1 /\ a <= z
  BY BlockIs
<1> HIDE DEF b
<1>2. PICK lo \in 1 .. m : In(m, e, b, lo)
  BY <1>1, RunOf
<1>3. /\ m \in Nat /\ e \in [1 .. m + 1 -> Nat] /\ e[1] = 1
  BY DEF Marks
<1>4. /\ kz \in Nat /\ kz > 0 /\ kz \in 1 .. m /\ In(m, e, z, kz)
  <2>1. kz \in 0 .. m /\ (kz > 0 => e[kz] <= z) /\ z < e[kz + 1]
    BY DEF Begun
  <2>2. kz # 0
    <3>1. kz = 0 => z < 1
      BY <2>1, <1>3
    <3> QED BY <3>1, <1>1
  <2> QED BY <2>1, <2>2, <1>3 DEF In
<1>5. ka \in Nat /\ ka <= kz
  <2>1. ka \in 0 .. m
    BY DEF Begun
  <2>2. ka <= kz
    <3> HIDE DEF N
    <3> QED BY <1>1, BegunOnce DEF N
  <2> QED BY <2>1, <2>2, <1>3
<1> DEFINE runs == Local(r)
           L == kz - lo + 1
           top == e[kz + 1]
<1>6. /\ lo <= kz
      /\ runs = LocalRuns(m, e, lo, kz, a, z)
      /\ runs \in Seq(Gather)
      /\ Len(runs) = L
  BY <1>1, <1>2, <1>4, EndsAre
<1>7. Start(r) = IF e[lo] = b THEN 0 ELSE 1
  BY <1>1, <1>2, StartIs
<1>8. /\ lo \in Nat /\ e[lo] \in Nat /\ e[lo] <= b /\ b < e[lo + 1] /\ e[lo + 1] \in Nat
      /\ e[kz] \in Nat /\ e[kz] <= z /\ z < top /\ top \in Nat
  <2>1. e[lo] <= b /\ b < e[lo + 1]
    BY <1>2 DEF In
  <2>2. e[kz] <= z /\ z < top
    BY <1>4 DEF In
  <2>3. e[lo] \in Nat /\ e[lo + 1] \in Nat /\ e[kz] \in Nat /\ top \in Nat
    BY <1>1, <1>2, <1>4, MarkIn
  <2> QED BY <2>1, <2>2, <2>3, <1>3
\* The gathers below r's first.
<1>9. ka = lo - 1 + Start(r)
  <2>1. CASE e[lo] = b
    <3> DEFINE k == lo - 1
    <3>1. k \in 0 .. m /\ k + 1 = lo
      BY <1>2, <1>3, <1>8
    <3>2. a < e[k + 1]
      BY <3>1, <2>1, <1>1
    <3>3. k > 0 => e[k] <= a
      <4>1. ASSUME k > 0
            PROVE  e[k] <= a
        <5>1. k \in 1 .. m
          BY <3>1, <4>1
        <5> HIDE DEF k
        <5>2. e[k] \in Nat /\ e[k] < e[k + 1]
          BY <5>1, <1>1, MarkIn
        <5>3. e[k + 1] = b
          BY <3>1, <2>1
        <5> QED BY ONLY <5>2, <5>3, <1>1
      <4> QED BY <4>1
    <3> HIDE DEF k
    <3>4. Begun(m, e, a, k)
      BY <3>1, <3>2, <3>3 DEF Begun
    <3>5. k = ka
      BY <3>4, <1>1, BegunOnce
    <3>6. Start(r) = 0
      BY ONLY <2>1, <1>7
    <3>7. k + 1 = lo
      BY ONLY <3>1
    <3> DEFINE x == Start(r)
    <3>8. x = 0 /\ ka = lo - 1
      BY ONLY <3>5, <3>6, <3>7, <1>5, <1>8
    <3> HIDE DEF x
    <3>9. lo \in Nat
      BY ONLY <1>8
    <3>10. ka = lo - 1 + x
      BY ONLY <3>8, <3>9
    <3> QED BY ONLY <3>10 DEF x
  <2>2. CASE e[lo] # b
    <3>1. e[lo] <= a /\ a < e[lo + 1]
      BY ONLY <2>2, <1>8, <1>1
    <3>2. Begun(m, e, a, lo)
      BY <3>1, <1>2, <1>3 DEF Begun
    <3>3. lo = ka
      BY <3>2, <1>1, BegunOnce
    <3> QED BY <3>3, <2>2, <1>7, <1>8
  <2> QED BY <2>1, <2>2
<1> DEFINE st == Start(r)
           X == SumBelow([i \in Spill(r) |-> Front(i).n], NumRank)
           all == IF st < Len(runs) THEN [runs EXCEPT ![Len(runs)].n = @ + X] ELSE runs
<1>10. X = top - 1 - z
  <2>1. Marks(line, Len(line), m, e) /\ z = First(Len(line), r + 1) /\ In(m, e, z, kz)
    BY <1>4
  <2> QED BY <2>1, SpillSum
<1>11. Found(r) = SubSeq(all, st + 1, Len(runs))
  BY DEF Found
<1>12. st \in {0, 1} /\ L \in Nat /\ L > 0 /\ ka = lo - 1 + st /\ L - st = kz - ka
       /\ st \in Nat
  <2>1. st \in {0, 1} /\ ka = lo - 1 + st
    BY <1>7, <1>9
  <2> HIDE DEF st
  <2> QED BY <2>1, <1>4, <1>5, <1>6, <1>8
<1> HIDE DEF X, st, top
<1>13. ASSUME NEW j \in st + 1 .. L, NEW x, x = lo + j - 1
       PROVE  /\ all[j] = [n |-> e[x + 1] - e[x], id |-> line[e[x]]]
              /\ all[j] \in Gather
              /\ x = ka + (j - st)
  <2>1. /\ j \in Nat /\ j \in 1 .. L /\ x = ka + (j - st) /\ x \in 1 .. m /\ lo + j = x + 1
        /\ (j = 1 => x = lo /\ st = 0) /\ (j = L <=> x = kz)
    BY <1>12, <1>13, <1>8, <1>4, <1>2, <1>3
  <2>2. e[x] \in Nat /\ e[x + 1] \in Nat /\ e[x] < e[x + 1] /\ e[x] \in 1 .. N
    <3>1. e[x] \in Nat /\ e[x + 1] \in Nat /\ e[x] < e[x + 1] /\ 1 <= e[x] /\ e[x] <= N
      BY <2>1, <1>1, MarkIn
    <3> HIDE DEF N
    <3> QED BY <3>1, <1>1
  <2>3. line[e[x]] \in Nat
    <3> DEFINE y == e[x]
    <3>1. y \in 1 .. N
      BY <2>2
    <3> HIDE DEF y
    <3>2. line[y] \in Nat
      BY <3>1, <1>1, ElementOfSeq
    <3> QED BY <3>2 DEF y
  <2>4. runs[j] = [n  |-> (IF j = L THEN z + 1 ELSE e[x + 1]) - (IF j = 1 THEN a + 1 ELSE e[x]),
                   id |-> line[e[x]]]
    <3>1. runs = [i \in 1 .. L |->
                   [n  |-> (IF i = L THEN z + 1 ELSE e[lo + i]) - (IF i = 1 THEN a + 1 ELSE e[lo + i - 1]),
                    id |-> line[e[lo + i - 1]]]]
      BY <1>6 DEF LocalRuns
    <3> HIDE DEF runs, L
    <3>2. runs[j] = [n  |-> (IF j = L THEN z + 1 ELSE e[lo + j]) - (IF j = 1 THEN a + 1 ELSE e[lo + j - 1]),
                     id |-> line[e[lo + j - 1]]]
      BY ONLY <3>1, <2>1
    <3> QED BY ONLY <3>2, <2>1, <1>13
  <2>5. (IF j = 1 THEN a + 1 ELSE e[x]) = e[x]
    <3>1. j = 1 => e[lo] = b
      BY <2>1, <1>7 DEF st
    <3>2. j = 1 => e[x] = a + 1
      BY <3>1, <2>1, <1>1
    <3> QED BY <3>2
  <2>6. all = [runs EXCEPT ![L].n = @ + X]
    <3>1. st < Len(runs)
      BY <1>6, <1>12, <1>13
    <3> QED BY <3>1, <1>6
  <2>7. runs \in [1 .. L -> Gather] /\ L \in 1 .. L
    <3> HIDE DEF runs, L
    <3> QED BY <1>6, <1>12, LenProperties
  <2> HIDE DEF runs, L, all
  <2>8. CASE j = L
    <3>1. all[j] = [runs[j] EXCEPT !.n = @ + X]
      BY <2>6, <2>7, <2>8
    <3> DEFINE u == e[x]
    <3>2. runs[j] = [n |-> z + 1 - u, id |-> line[u]]
      <4>1. (IF j = L THEN z + 1 ELSE e[x + 1]) = z + 1
        BY <2>8
      <4> DEFINE p == IF j = L THEN z + 1 ELSE e[x + 1]
                 q == IF j = 1 THEN a + 1 ELSE e[x]
      <4>2. p = z + 1 /\ q = u /\ runs[j] = [n |-> p - q, id |-> line[u]]
        BY <4>1, <2>4, <2>5
      <4>3. u \in Nat /\ z \in Nat
        BY <2>2, <1>1
      <4> HIDE DEF u, p, q
      <4>4. p - q = z + 1 - u
        BY ONLY <4>2, <4>3
      <4> QED BY ONLY <4>2, <4>4
    <3>3. all[j] = [n |-> z + 1 - u + X, id |-> line[u]]
      BY ONLY <3>1, <3>2
    <3>4. top = e[x + 1]
      BY <2>1, <2>8 DEF top
    <3>5. u \in Nat /\ z \in Nat /\ top \in Nat
      BY <2>2, <1>1, <1>8
    <3> HIDE DEF u
    <3>6. z + 1 - u + X = top - u
      BY ONLY <3>5, <1>10
    <3>7. all[j] = [n |-> e[x + 1] - e[x], id |-> line[e[x]]]
      BY <3>3, <3>4, <3>6 DEF u
    <3> QED BY <3>7, <2>1, <2>2, <2>3 DEF Gather
  <2>9. CASE j # L
    <3>1. all[j] = runs[j]
      BY <2>6, <2>7, <2>9, <2>1
    <3>2. all[j] = [n |-> e[x + 1] - e[x], id |-> line[e[x]]]
      BY <3>1, <2>4, <2>5, <2>9
    <3> QED BY <3>2, <2>1, <2>2, <2>3 DEF Gather
  <2> QED BY <2>8, <2>9
<1> HIDE DEF runs, L, all
<1>14. /\ SubSeq(all, st + 1, L) \in Seq(Gather)
       /\ Len(SubSeq(all, st + 1, L)) = kz - ka
       /\ \A i \in 1 .. kz - ka : SubSeq(all, st + 1, L)[i] = all[st + i]
  <2>1. \A j \in st + 1 .. L : all[j] \in Gather
    BY <1>13
  <2>2. st + 1 \in Int /\ L \in Int
    BY <1>12
  <2>3. /\ SubSeq(all, st + 1, L) \in Seq(Gather)
        /\ Len(SubSeq(all, st + 1, L)) = IF st + 1 <= L THEN L - (st + 1) + 1 ELSE 0
        /\ \A i \in 1 .. L - (st + 1) + 1 : SubSeq(all, st + 1, L)[i] = all[st + 1 + i - 1]
    BY <2>1, <2>2, SubSeqProperties
  <2>4. /\ (IF st + 1 <= L THEN L - (st + 1) + 1 ELSE 0) = kz - ka
        /\ L - (st + 1) + 1 = kz - ka
        /\ \A i \in 1 .. kz - ka : st + 1 + i - 1 = st + i
    BY <1>12, <1>5, <1>4
  <2> QED BY <2>3, <2>4
<1>15. Found(r) = SubSeq(all, st + 1, L)
  BY <1>6, <1>11
<1>16. ASSUME NEW i \in 1 .. kz - ka
       PROVE  Found(r)[i] = [n |-> e[ka + i + 1] - e[ka + i], id |-> line[e[ka + i]]]
  <2> DEFINE j == st + i
             x == lo + j - 1
  <2>1. j \in st + 1 .. L /\ j - st = i
    BY <1>12, <1>4, <1>5
  <2>2. x = lo + j - 1
    OBVIOUS
  <2>3. Found(r)[i] = all[j]
    BY <1>14, <1>15
  <2> HIDE DEF x, j
  <2>4. all[j] = [n |-> e[x + 1] - e[x], id |-> line[e[x]]] /\ x = ka + (j - st)
    BY <2>1, <2>2, <1>13
  <2>5. x = ka + i /\ x + 1 = ka + i + 1
    BY <2>1, <2>4
  <2> QED BY <2>3, <2>4, <2>5
<1> QED BY <1>4, <1>5, <1>14, <1>15, <1>16 DEF FoundFrom

\* The sums over the lists count the gathers that begin below a process.
LEMMA CountBegun ==
  ASSUME line \in Lines, NEW m, NEW e, Marks(line, Len(line), m, e),
         NEW v, v = [r \in Rank |-> Len(Found(r))]
  PROVE  /\ \A k \in 0 .. NumRank : Begun(m, e, First(Len(line), k), SumBelow(v, k))
         /\ SumBelow(v, NumRank) = m
         /\ \A k \in 0 .. NumRank : First(Len(line), k) \in 0 .. Len(line) /\ SumBelow(v, k) \in Nat
<1> DEFINE N == Len(line)
           F(i) == First(Len(line), i)
           S(k) == SumBelow(v, k)
<1>1. /\ NumRank \in Nat /\ NumRank > 0 /\ Rank = 0 .. NumRank - 1 /\ 0 \in Rank
  BY NumRankAssumption DEF Rank
<1>2. N \in Nat /\ F(0) = 0 /\ F(NumRank) = N
  <2>1. N \in Nat
    BY <1>1, BlockIs
  <2> QED BY <2>1, <1>1, BlocksEndToEnd
<1>3. \A r \in Rank : F(r) \in Nat /\ F(r + 1) \in Nat /\ F(r) < F(r + 1) /\ F(r + 1) <= N
  BY BlockIs
<1>4. \A r \in Rank : Found(r) \in Seq(Gather) /\ v[r] \in Nat
  <2> SUFFICES ASSUME NEW r \in Rank
               PROVE  Found(r) \in Seq(Gather) /\ v[r] \in Nat
    OBVIOUS
  <2> DEFINE a == F(r)
             z == F(r + 1)
  <2>1. a \in 0 .. N /\ z \in 0 .. N
    <3>1. a \in Nat /\ z \in Nat /\ a < z /\ z <= N
      BY <1>3
    <3> HIDE DEF a, z, N
    <3> QED BY <3>1, <1>2
  <2>2. PICK ka \in 0 .. m : Begun(m, e, a, ka)
    <3> HIDE DEF a, N
    <3> QED BY <2>1, <1>2, BegunExists DEF N
  <2>3. PICK kz \in 0 .. m : Begun(m, e, z, kz)
    <3> HIDE DEF z, N
    <3> QED BY <2>1, <1>2, BegunExists DEF N
  <2>4. Found(r) \in Seq(Gather)
    <3>1. FoundFrom(r, e, ka, kz)
      BY <2>2, <2>3, FoundIs
    <3> QED BY <3>1 DEF FoundFrom
  <2> QED BY <2>4, LenProperties
<1>5. DOMAIN v = Rank /\ \A k \in DOMAIN v : v[k] \in Nat
  BY <1>4
<1>6. S(0) = 0 /\ \A k \in Nat : S(k) \in Nat /\ S(k + 1) = S(k) + (IF k \in Rank THEN v[k] ELSE 0)
  BY <1>5, SumStep
<1> HIDE DEF S
<1>7. m \in Nat /\ e[1] = 1 /\ e[m + 1] = N + 1
  BY DEF Marks
<1> DEFINE Bad == {k \in 0 .. NumRank : ~Begun(m, e, F(k), S(k))}
<1>8. ASSUME Bad # {}
      PROVE  FALSE
  <2>1. PICK k \in Bad : \A j \in Bad : k <= j
    <3>1. Bad \in SUBSET Nat
      BY <1>1
    <3> HIDE DEF Bad
    <3> QED BY <3>1, <1>8, LeastNat
  <2>2. k \in 0 .. NumRank /\ ~Begun(m, e, F(k), S(k))
    BY <2>1
  <2>3. Begun(m, e, F(0), S(0))
    <3>1. Begun(m, e, 0, 0)
      BY <1>7 DEF Begun
    <3> QED BY <3>1, <1>2, <1>6
  <2>4. PICK j \in Rank : k = j + 1
    <3>1. k # 0
      BY <2>2, <2>3
    <3>2. k - 1 \in Rank /\ k = (k - 1) + 1
      BY <2>2, <3>1, <1>1
    <3> QED BY <3>2
  <2>5. Begun(m, e, F(j), S(j))
    <3>1. j \in 0 .. NumRank /\ ~(k <= j)
      BY <2>4, <1>1
    <3> QED BY <3>1, <2>1
  <2> DEFINE a == F(j)
             z == F(j + 1)
             ka == S(j)
  <2>6. a \in Nat /\ z \in Nat /\ z \in 0 .. N
    <3>1. a \in Nat /\ z \in Nat /\ z <= N
      BY <1>3
    <3> HIDE DEF a, z, N
    <3> QED BY <3>1, <1>2
  <2>7. PICK kz \in 0 .. m : Begun(m, e, z, kz)
    <3> HIDE DEF z, N
    <3> QED BY <2>6, <1>2, BegunExists DEF N
  <2>8. Len(Found(j)) = kz - ka /\ ka \in Nat /\ kz \in Nat
    <3>1. Begun(m, e, a, ka) /\ a = First(Len(line), j) /\ z = First(Len(line), j + 1)
      BY <2>5
    <3> HIDE DEF a, z, ka
    <3>2. FoundFrom(j, e, ka, kz)
      BY <3>1, <2>7, FoundIs
    <3> QED BY <3>2 DEF FoundFrom
  <2>9. S(k) = kz
    <3>1. j \in Nat
      BY <1>1
    <3>2. S(j + 1) = S(j) + v[j]
      BY <3>1, <1>6
    <3>3. v[j] = kz - ka
      BY <2>8
    <3>4. S(j + 1) = ka + (kz - ka)
      BY ONLY <3>2, <3>3
    <3> DEFINE x == ka
    <3>5. x \in Nat /\ kz \in Nat /\ S(j + 1) = x + (kz - x)
      BY ONLY <3>4, <2>8
    <3>6. S(k) = S(j + 1)
      BY ONLY <2>4
    <3> HIDE DEF x, S
    <3>7. x + (kz - x) = kz
      BY ONLY <3>5
    <3> QED BY ONLY <3>5, <3>6, <3>7
  <2>10. F(k) = z
    BY <2>4
  <2> QED BY <2>2, <2>7, <2>9, <2>10
<1>9. S(NumRank) = m
  <2>1. Begun(m, e, N, S(NumRank))
    <3>1. NumRank \in 0 .. NumRank /\ NumRank \notin Bad
      BY <1>8, <1>1
    <3> QED BY <3>1, <1>2
  <2>2. Begun(m, e, N, m)
    <3>1. m > 0 => e[m] <= N
      <4>1. ASSUME m > 0
            PROVE  e[m] <= N
        <5>1. m \in 1 .. m
          BY <4>1, <1>7
        <5> QED BY <5>1, <1>2, MarkIn
      <4> QED BY <4>1
    <3> HIDE DEF N
    <3> QED BY <3>1, <1>7, <1>2 DEF Begun
  <2> HIDE DEF N
  <2> QED BY <2>1, <2>2, <1>2, BegunOnce DEF N
<1>10. \A k \in 0 .. NumRank : F(k) \in 0 .. N /\ S(k) \in Nat
  <2> SUFFICES ASSUME NEW k \in 0 .. NumRank
               PROVE  F(k) \in 0 .. N /\ S(k) \in Nat
    OBVIOUS
  <2>1. k \in Nat
    BY <1>1
  <2>2. F(k) \in 0 .. N
    <3>1. CASE k = NumRank
      BY <3>1, <1>2
    <3>2. CASE k # NumRank
      <4>1. k \in Rank
        BY <3>2, <1>1
      <4>2. F(k) \in Nat /\ F(k + 1) \in Nat /\ F(k) < F(k + 1) /\ F(k + 1) <= N
        BY <4>1, <1>3
      <4> HIDE DEF F, N
      <4> QED BY <4>2, <1>2
    <3> QED BY <3>1, <3>2
  <2> QED BY <2>1, <2>2, <1>6
<1>11. \A k \in 0 .. NumRank : Begun(m, e, F(k), S(k))
  BY <1>8
<1> QED BY <1>9, <1>10, <1>11 DEF S, F

\* The gathers of the file: the traces of the first g of them, and the traces
\* of number g.
TracesTo(g) == SumBelow([k \in 0 .. Len(AllGathers) - 1 |-> AllGathers[k + 1].n], g)

FileOK ==
  /\ line \in Seq(Nat) /\ Len(line) \in Nat
  /\ AllGathers \in Seq(Gather) /\ Len(AllGathers) \in Nat /\ Len(AllGathers) <= Len(line)
  /\ TracesTo(0) = 0
  /\ \A g \in 0 .. Len(AllGathers) : TracesTo(g) \in 0 .. Len(line)
  /\ \A g \in 0 .. Len(AllGathers) - 1 :
       /\ AllGathers[g + 1] \in Gather
       /\ TracesTo(g + 1) = TracesTo(g) + AllGathers[g + 1].n
       /\ Members(g) = TracesTo(g) .. TracesTo(g) + AllGathers[g + 1].n - 1

\* The gathers of the file come one after the other, and fill it.
LEMMA FileIs ==
  ASSUME line \in Lines
  PROVE  FileOK
<1> DEFINE N == Len(line)
           A == AllGathers
<1>1. line \in Seq(Nat) /\ N \in Nat /\ N > 0
  <2>1. 0 \in Rank
    BY NumRankAssumption DEF Rank
  <2> QED BY <2>1, BlockIs
<1>2. PICK m \in Nat \ {0} : \E e \in [1 .. m + 1 -> Nat] : Marks(line, N, m, e)
  BY <1>1, MarksExist DEF Marked
<1>3. PICK e \in [1 .. m + 1 -> Nat] : Marks(line, N, m, e)
  BY <1>2
<1>4. A = [j \in 1 .. m |-> [n |-> e[j + 1] - e[j], id |-> line[e[j]]]]
  <2>1. A = RunsOf(line, m, e)
    BY <1>1, <1>3, RunsAre DEF AllGathers
  <2> QED BY <2>1 DEF RunsOf
<1>5. ASSUME NEW j \in 1 .. m
      PROVE  /\ e[j] \in 1 .. N /\ e[j] \in Nat /\ e[j + 1] \in Nat /\ e[j] < e[j + 1] /\ e[j + 1] <= N + 1
             /\ A[j].n = e[j + 1] - e[j] /\ A[j].id = line[e[j]] /\ A[j] \in Gather
  <2>1. e[j] \in 1 .. N /\ e[j] \in Nat /\ e[j + 1] \in Nat /\ e[j] < e[j + 1] /\ e[j + 1] <= N + 1
    <3>1. /\ 1 <= e[j] /\ e[j] \in Nat /\ e[j + 1] \in Nat /\ e[j] < e[j + 1]
          /\ e[j] <= N /\ e[j + 1] <= N + 1
      BY <1>1, <1>3, MarkIn
    <3> HIDE DEF N
    <3> QED BY <3>1, <1>1
  <2>2. line[e[j]] \in Nat
    <3> DEFINE y == e[j]
    <3>1. y \in 1 .. N
      BY <2>1
    <3> HIDE DEF y
    <3>2. line[y] \in Nat
      BY <3>1, <1>1, ElementOfSeq
    <3> QED BY <3>2 DEF y
  <2>3. A[j] = [n |-> e[j + 1] - e[j], id |-> line[e[j]]]
    BY <1>4
  <2>4. e[j + 1] - e[j] \in Nat
    BY ONLY <2>1
  <2> HIDE DEF A
  <2> QED BY <2>1, <2>2, <2>3, <2>4 DEF Gather
<1> HIDE DEF A, N
<1>6. A \in Seq(Gather) /\ Len(A) = m /\ m \in Nat
  <2>1. A \in [1 .. m -> Gather]
    BY <1>4, <1>5
  <2> QED BY <2>1, FunctionSeq
<1>7. /\ e[1] = 1 /\ e[m + 1] = N + 1
      /\ \A i, j \in 1 .. m + 1 : i < j => e[i] < e[j]
      /\ \A j \in 1 .. m : \A k \in e[j] .. e[j + 1] - 1 : line[k] = line[e[j]]
      /\ \A j \in 2 .. m : line[e[j]] # line[e[j] - 1]
  BY <1>3 DEF Marks
<1> DEFINE w == [k \in 0 .. m - 1 |-> A[k + 1].n]
           S(g) == SumBelow(w, g)
<1>8. ASSUME NEW k \in 0 .. m - 1
      PROVE  w[k] = e[k + 2] - e[k + 1] /\ w[k] \in Nat /\ k + 1 \in 1 .. m
  <2> DEFINE j == k + 1
  <2>1. j \in 1 .. m /\ w[k] = A[j].n /\ j + 1 = k + 2
    BY <1>6
  <2> HIDE DEF j, w
  <2>2. w[k] = e[j + 1] - e[j] /\ e[j] \in Nat /\ e[j + 1] \in Nat /\ e[j] < e[j + 1]
    BY <2>1, <1>5
  <2>3. w[k] \in Nat
    BY ONLY <2>2
  <2> QED BY <2>1, <2>2, <2>3 DEF j
<1>9. DOMAIN w = 0 .. m - 1 /\ \A k \in DOMAIN w : w[k] \in Nat
  BY <1>8
<1> HIDE DEF w
<1>10. S(0) = 0 /\ \A k \in Nat : S(k) \in Nat /\ S(k + 1) = S(k) + (IF k \in 0 .. m - 1 THEN w[k] ELSE 0)
  BY <1>9, SumStep
<1>11. \A g \in Nat : TracesTo(g) = S(g)
  BY <1>6 DEF TracesTo, A, w
<1> HIDE DEF S
\* Traces in the first g gathers.
<1>12. \A g \in 0 .. m : S(g) = e[g + 1] - 1
  <2> DEFINE Bad == {g \in 0 .. m : S(g) # e[g + 1] - 1}
  <2>1. ASSUME Bad # {}
        PROVE  FALSE
    <3>1. PICK g \in Bad : \A h \in Bad : g <= h
      <4>1. Bad \in SUBSET Nat
        BY <1>6
      <4> HIDE DEF Bad
      <4> QED BY <4>1, <2>1, LeastNat
    <3>2. g \in 0 .. m /\ S(g) # e[g + 1] - 1
      BY <3>1
    <3>3. g # 0
      BY <3>2, <1>7, <1>10
    <3> DEFINE h == g - 1
    <3>4. h \in 0 .. m - 1 /\ h \in 0 .. m /\ h \in Nat /\ h + 1 = g /\ h + 2 = g + 1 /\ ~(g <= h)
      BY <3>2, <3>3, <1>6
    <3> HIDE DEF h
    <3>5. S(h) = e[h + 1] - 1
      BY <3>4, <3>1
    <3>6. S(h + 1) = S(h) + w[h] /\ w[h] = e[h + 2] - e[h + 1]
      BY <3>4, <1>8, <1>10
    <3>7. e[h + 1] \in Nat /\ e[h + 2] \in Nat
      <4>1. g \in 1 .. m
        BY <3>2, <3>3, <1>6
      <4> QED BY <4>1, <3>4, <1>5
    <3>8. S(h + 1) = e[h + 2] - 1
      BY ONLY <3>5, <3>6, <3>7
    <3>9. h + 1 = g /\ h + 2 = g + 1
      BY ONLY <3>4
    <3> QED BY ONLY <3>8, <3>9, <3>2
  <2> QED BY <2>1
<1>13. \A g \in 0 .. m : S(g) \in 0 .. N /\ e[g + 1] \in Nat
  <2> SUFFICES ASSUME NEW g \in 0 .. m
               PROVE  S(g) \in 0 .. N /\ e[g + 1] \in Nat
    OBVIOUS
  <2> DEFINE j == g + 1
  <2>1. j \in 1 .. m + 1 /\ S(g) = e[j] - 1
    BY <1>6, <1>12
  <2> HIDE DEF j
  <2>2. e[j] \in Nat /\ 1 <= e[j] /\ e[j] <= N + 1
    BY <2>1, <1>1, <1>3, MarkBounds
  <2>3. S(g) \in 0 .. N
    BY ONLY <2>1, <2>2, <1>1
  <2> QED BY <2>2, <2>3 DEF j
<1>14. m <= N
  <2>1. \A j \in 1 .. m + 1 : j <= e[j]
    <3> DEFINE Bad == {j \in 1 .. m + 1 : ~(j <= e[j])}
    <3>1. ASSUME Bad # {}
          PROVE  FALSE
      <4>1. PICK j \in Bad : \A i \in Bad : j <= i
        <5>1. Bad \in SUBSET Nat
          BY <1>6
        <5> HIDE DEF Bad
        <5> QED BY <5>1, <3>1, LeastNat
      <4>2. j \in 1 .. m + 1 /\ ~(j <= e[j])
        BY <4>1
      <4>3. j # 1
        BY <4>2, <1>7
      <4> DEFINE i == j - 1
      <4>4. i \in 1 .. m /\ i \in 1 .. m + 1 /\ ~(j <= i) /\ i + 1 = j
        BY <4>2, <4>3, <1>6
      <4> HIDE DEF i
      <4>5. i <= e[i] /\ e[i] < e[i + 1] /\ e[i] \in Nat /\ e[i + 1] \in Nat
        BY <4>4, <4>1, <1>5
      <4>6. i + 1 <= e[i + 1]
        <5>1. i \in Nat
          BY <4>4, <1>6
        <5> QED BY ONLY <4>5, <5>1
      <4> QED BY <4>6, <4>4, <4>2
    <3> QED BY <3>1
  <2>2. m + 1 <= e[m + 1]
    <3>1. m + 1 \in 1 .. m + 1
      BY <1>6
    <3> QED BY <3>1, <2>1
  <2> QED BY <2>2, <1>1, <1>6, <1>7
\* Equal values are in one gather, as the file is sorted by gather.
<1>15. ASSUME NEW g \in 0 .. m - 1
       PROVE  Members(g) = S(g) .. S(g) + A[g + 1].n - 1
  <2> DEFINE j == g + 1
             lo == e[j]
             top == e[j + 1]
  <2>1. j \in 1 .. m /\ g \in 0 .. m
    BY <1>6
  <2> HIDE DEF j
  <2>2. /\ lo \in 1 .. N /\ lo \in Nat /\ top \in Nat /\ lo < top /\ top <= N + 1
        /\ A[j].n = top - lo /\ A[j].id = line[lo]
    BY <2>1, <1>5
  <2>3. S(g) = lo - 1
    BY <2>1, <1>12 DEF j
  <2>4. ASSUME NEW k \in 1 .. N, lo <= k, k < top
        PROVE  line[k] = line[lo]
    <3>1. k \in lo .. top - 1
      BY <2>4, <2>2, <1>1
    <3> QED BY <3>1, <2>1, <1>7
  <2>5. ASSUME NEW k \in 1 .. N, line[k] = line[lo]
        PROVE  lo <= k /\ k < top
    <3>1. ASSUME k < lo
          PROVE  FALSE
      <4>1. j # 1
        BY <3>1, <1>7, <1>1
      <4>2. j \in 2 .. m
        BY <4>1, <2>1, <1>6
      <4>3. line[lo] # line[lo - 1]
        BY <4>2, <1>7
      <4> DEFINE p == lo - 1
      <4>4. p \in 1 .. N /\ lo \in 1 .. N /\ k <= p /\ p <= lo
        <5> HIDE DEF lo, top
        <5> QED BY ONLY <3>1, <2>2, <1>1, k \in 1 .. N
      <4>5. line[k] <= line[p] /\ line[p] <= line[lo] /\ line[p] \in Nat /\ line[lo] \in Nat
        <5> HIDE DEF p, lo
        <5> QED BY <4>4, LineAscends DEF N
      <4>6. line[p] = line[lo]
        BY ONLY <4>5, <2>5
      <4> QED BY <4>3, <4>6
    <3>2. ASSUME top <= k
          PROVE  FALSE
      <4>1. top \in 1 .. N /\ top - 1 \in 1 .. N /\ lo <= top - 1 /\ top - 1 < top
        <5> HIDE DEF lo, top
        <5> QED BY ONLY <3>2, <2>2, <1>1, k \in 1 .. N
      <4>2. j # m
        <5>1. j = m => top = N + 1
          BY <1>7
        <5> HIDE DEF top
        <5> QED BY <5>1, <4>1, <1>1
      <4>3. j + 1 \in 2 .. m
        BY <4>2, <2>1, <1>6
      <4>4. line[top] # line[top - 1]
        BY <4>3, <1>7
      <4>5. line[top - 1] = line[lo]
        BY <4>1, <2>4
      <4>6. line[lo] <= line[top] /\ line[top] <= line[k] /\ line[top] \in Nat /\ line[lo] \in Nat
        <5>1. lo \in 1 .. N /\ top \in 1 .. N /\ lo <= top /\ top <= k
          BY <4>1, <2>2, <3>2
        <5> HIDE DEF lo, top
        <5> QED BY <5>1, LineAscends DEF N
      <4>7. line[top] = line[lo]
        BY ONLY <4>6, <2>5
      <4> QED BY <4>4, <4>5, <4>7
    <3> HIDE DEF lo, top
    <3> QED BY <3>1, <3>2, <2>2, <1>1
  <2> HIDE DEF lo, top
  <2>6. Members(g) = {k \in 0 .. N - 1 : line[k + 1] = line[lo]}
    BY <2>2 DEF Members, j, A, N
  <2>7. \A k \in 0 .. N - 1 : line[k + 1] = line[lo] <=> lo <= k + 1 /\ k + 1 < top
    <3> SUFFICES ASSUME NEW k \in 0 .. N - 1
                 PROVE  line[k + 1] = line[lo] <=> lo <= k + 1 /\ k + 1 < top
      OBVIOUS
    <3> DEFINE x == k + 1
    <3>1. x \in 1 .. N
      BY <1>1
    <3> HIDE DEF x
    <3>2. line[x] = line[lo] <=> lo <= x /\ x < top
      BY <3>1, <2>4, <2>5
    <3> QED BY <3>2 DEF x
  <2>8. {k \in 0 .. N - 1 : lo <= k + 1 /\ k + 1 < top} = lo - 1 .. top - 2
    <3>1. lo \in Nat /\ top \in Nat /\ N \in Nat /\ 1 <= lo /\ top <= N + 1
      BY ONLY <2>2, <1>1
    <3> HIDE DEF N
    <3>2. ASSUME NEW k \in 0 .. N - 1, lo <= k + 1, k + 1 < top
          PROVE  k \in lo - 1 .. top - 2
      BY ONLY <3>1, <3>2
    <3>3. ASSUME NEW k \in lo - 1 .. top - 2
          PROVE  k \in 0 .. N - 1 /\ lo <= k + 1 /\ k + 1 < top
      BY ONLY <3>1, <3>3
    <3> QED BY ONLY <3>2, <3>3
  <2>9. S(g) + A[j].n - 1 = top - 2
    BY ONLY <2>2, <2>3
  <2> QED BY <2>3, <2>6, <2>7, <2>8, <2>9 DEF j
<1>16. \A g \in 0 .. m - 1 : S(g + 1) = S(g) + A[g + 1].n /\ A[g + 1] \in Gather
  <2> SUFFICES ASSUME NEW g \in 0 .. m - 1
               PROVE  S(g + 1) = S(g) + A[g + 1].n /\ A[g + 1] \in Gather
    OBVIOUS
  <2>1. g \in Nat /\ g + 1 \in 1 .. m
    BY <1>6
  <2>2. w[g] = A[g + 1].n
    BY DEF w
  <2> QED BY <2>1, <2>2, <1>5, <1>10
<1>17. \A g \in 0 .. m - 1 : g \in Nat /\ g + 1 \in Nat
  BY <1>6
<1>18. \A g \in 0 .. m : g \in Nat
  BY <1>6
<1> QED
  BY <1>1, <1>6, <1>10, <1>11, <1>13, <1>14, <1>15, <1>16, <1>17, <1>18 DEF FileOK, A, N

\* The gathers the processes found are the gathers of the file.
ListOK ==
  /\ Size = Len(AllGathers) /\ Size \in Nat
  /\ \A r \in Rank :
       /\ lline[r] \in Seq(Gather) /\ Len(lline[r]) \in Nat
       /\ Offset(r) \in Nat /\ Offset(r) + Len(lline[r]) <= Size
       /\ \A i \in 0 .. Len(lline[r]) - 1 : lline[r][i + 1] = AllGathers[Offset(r) + i + 1]
  /\ \A g \in 0 .. Size - 1 :
       \E r \in Rank : \E i \in 0 .. Len(lline[r]) - 1 : g = Offset(r) + i

\* The lists of the processes, one after the other, are the list of the file.
LEMMA ListIs ==
  ASSUME line \in Lines, lline = [r \in Rank |-> Found(r)]
  PROVE  ListOK
<1> DEFINE N == Len(line)
           A == AllGathers
           v == [r \in Rank |-> Len(lline[r])]
           S(k) == SumBelow(v, k)
           F(i) == First(Len(line), i)
<1>1. line \in Seq(Nat) /\ N \in Nat /\ N > 0
  <2>1. 0 \in Rank
    BY NumRankAssumption DEF Rank
  <2> QED BY <2>1, BlockIs
<1>2. PICK m \in Nat \ {0} : \E e \in [1 .. m + 1 -> Nat] : Marks(line, N, m, e)
  BY <1>1, MarksExist DEF Marked
<1>3. PICK e \in [1 .. m + 1 -> Nat] : Marks(line, N, m, e)
  BY <1>2
<1>4. A = [j \in 1 .. m |-> [n |-> e[j + 1] - e[j], id |-> line[e[j]]]]
  <2>1. A = RunsOf(line, m, e)
    BY <1>1, <1>3, RunsAre DEF AllGathers
  <2> QED BY <2>1 DEF RunsOf
<1>5. A \in Seq(Gather) /\ Len(A) = m
  <2>1. A \in Seq(Gather)
    BY FileIs DEF FileOK
  <2>2. A \in [1 .. Len(A) -> Gather] /\ Len(A) \in Nat
    BY <2>1, LenProperties
  <2>3. 1 .. Len(A) = 1 .. m
    BY <1>4, <2>2
  <2> HIDE DEF A
  <2>4. A \in [1 .. m -> Gather] /\ m \in Nat
    BY <2>2, <2>3
  <2> QED BY <2>1, <2>4, FunctionSeq
<1>6. \A r \in Rank : r \in Nat /\ r \in 0 .. NumRank /\ r + 1 \in 0 .. NumRank /\ r + 1 <= NumRank
  BY NumRankAssumption DEF Rank
<1>7. v = [r \in Rank |-> Len(Found(r))]
  OBVIOUS
<1>8. /\ \A k \in 0 .. NumRank : Begun(m, e, F(k), S(k))
      /\ S(NumRank) = m
      /\ \A k \in 0 .. NumRank : F(k) \in 0 .. N /\ S(k) \in Nat
  <2> HIDE DEF v
  <2> QED BY <1>3, <1>7, CountBegun
<1>9. ASSUME NEW r \in Rank
      PROVE  /\ lline[r] = Found(r) /\ lline[r] \in Seq(Gather)
             /\ Len(lline[r]) = S(r + 1) - S(r) /\ S(r) <= S(r + 1)
             /\ S(r) \in Nat /\ S(r + 1) \in Nat
             /\ \A i \in 1 .. S(r + 1) - S(r) :
                  lline[r][i] = [n |-> e[S(r) + i + 1] - e[S(r) + i], id |-> line[e[S(r) + i]]]
  <2> DEFINE a == F(r)
             z == F(r + 1)
             ka == S(r)
             kz == S(r + 1)
  <2>1. Begun(m, e, a, ka) /\ Begun(m, e, z, kz) /\ a = First(Len(line), r) /\ z = First(Len(line), r + 1)
    BY <1>6, <1>8
  <2>2. Marks(line, Len(line), m, e)
    BY <1>3
  <2> HIDE DEF a, z, ka, kz
  <2>3. /\ Found(r) \in Seq(Gather) /\ ka <= kz /\ ka \in Nat /\ kz \in Nat
        /\ Len(Found(r)) = kz - ka
        /\ \A i \in 1 .. kz - ka :
              Found(r)[i] = [n |-> e[ka + i + 1] - e[ka + i], id |-> line[e[ka + i]]]
    <3>1. FoundFrom(r, e, ka, kz)
      BY ONLY line \in Lines, <2>1, <2>2, FoundIs
    <3> QED BY <3>1 DEF FoundFrom
  <2>4. lline[r] = Found(r)
    OBVIOUS
  <2> QED BY <2>3, <2>4 DEF ka, kz
<1>10. \A r \in Rank : S(r + 1) <= m
  <2> SUFFICES ASSUME NEW r \in Rank
               PROVE  S(r + 1) <= m
    OBVIOUS
  <2> DEFINE k == r + 1
  <2>1. k \in 0 .. NumRank
    BY <1>6
  <2> HIDE DEF k, S
  <2>2. S(k) \in 0 .. m
    BY <2>1, <1>8 DEF Begun
  <2>3. S(k) <= m
    BY ONLY <2>2, m \in Nat
  <2> QED BY <2>3 DEF k
<1>11. Size = m /\ \A r \in Rank : Offset(r) = S(r)
  BY <1>8 DEF Size, Offset
<1>12. ASSUME NEW r \in Rank
       PROVE  /\ lline[r] \in Seq(Gather) /\ Len(lline[r]) \in Nat
              /\ Offset(r) \in Nat /\ Offset(r) + Len(lline[r]) <= Size
              /\ \A i \in 0 .. Len(lline[r]) - 1 : lline[r][i + 1] = A[Offset(r) + i + 1]
  <2> DEFINE ka == S(r)
             kz == S(r + 1)
  <2>1. /\ lline[r] \in Seq(Gather) /\ Len(lline[r]) = kz - ka /\ ka <= kz /\ ka \in Nat /\ kz \in Nat
        /\ \A i \in 1 .. kz - ka :
              lline[r][i] = [n |-> e[ka + i + 1] - e[ka + i], id |-> line[e[ka + i]]]
    BY <1>9
  <2>2. Offset(r) = ka /\ Size = m /\ kz <= m
    BY <1>10, <1>11
  <2> HIDE DEF ka, kz
  <2>3. ASSUME NEW i \in 0 .. Len(lline[r]) - 1
        PROVE  lline[r][i + 1] = A[Offset(r) + i + 1]
    <3> DEFINE j == i + 1
               x == ka + j
    <3>1. j \in 1 .. kz - ka /\ x \in 1 .. m /\ Offset(r) + i + 1 = x
      <4> DEFINE l == Len(lline[r])
                 o == Offset(r)
      <4>1. /\ l = kz - ka /\ ka <= kz /\ ka \in Nat /\ kz \in Nat
            /\ o = ka /\ kz <= m /\ i \in 0 .. l - 1 /\ m \in Nat
        BY <2>1, <2>2
      <4> HIDE DEF l, o
      <4>2. j \in 1 .. kz - ka /\ x \in 1 .. m /\ o + i + 1 = x
        BY ONLY <4>1
      <4> QED BY <4>2 DEF o
    <3> HIDE DEF j
    <3>2. lline[r][j] = [n |-> e[ka + j + 1] - e[ka + j], id |-> line[e[ka + j]]]
      BY <3>1, <2>1
    <3>3. ka + j + 1 = x + 1
      BY <2>1
    <3> HIDE DEF x
    <3>4. A[x] = [n |-> e[x + 1] - e[x], id |-> line[e[x]]]
      BY <3>1, <1>4
    <3> QED BY <3>1, <3>2, <3>3, <3>4 DEF j, x
  <2>4. Len(lline[r]) \in Nat /\ ka + Len(lline[r]) <= m
    BY ONLY <2>1, <2>2, m \in Nat
  <2> QED BY <2>1, <2>2, <2>3, <2>4
<1>13. ASSUME NEW g \in 0 .. Size - 1
       PROVE  \E r \in Rank : \E i \in 0 .. Len(lline[r]) - 1 : g = Offset(r) + i
  <2>1. DOMAIN v = Rank /\ \A k \in DOMAIN v : v[k] \in Nat
    BY <1>12
  <2>2. g \in Nat /\ g < SumBelow(v, NumRank) /\ NumRank \in Nat
    BY <1>11, <1>8, NumRankAssumption
  <2>3. PICK k \in Rank : S(k) <= g /\ g < S(k) + v[k]
    <3> HIDE DEF v
    <3> QED BY <2>1, <2>2, SumFind
  <2>4. S(k) \in Nat /\ v[k] = Len(lline[k]) /\ Len(lline[k]) \in Nat /\ Offset(k) = S(k)
    BY <1>9, <1>11, <1>12
  <2> HIDE DEF S, v
  <2>5. g - S(k) \in 0 .. Len(lline[k]) - 1 /\ g = Offset(k) + (g - S(k))
    BY ONLY <2>2, <2>3, <2>4
  <2> QED BY <2>5
<1> QED BY <1>5, <1>11, <1>12, <1>13 DEF ListOK

-----------------------------------------------------------------------------
(***************************************************************************)
(* The global array: every index below the size has a cell of its own.     *)
(***************************************************************************)
LEMMA LOffsetIs ==
  ASSUME NEW sz \in Nat
  PROVE  /\ LOffset(sz, 0) = 0 /\ LOffset(sz, NumRank) = sz
         /\ \A r \in Rank : /\ LOffset(sz, r) \in Nat /\ SzAll(sz, r) \in Nat
                            /\ LOffset(sz, r + 1) = LOffset(sz, r) + SzAll(sz, r)
<1> DEFINE v == [q \in Rank |-> SzAll(sz, q)]
           S(k) == SumBelow(v, k)
<1>1. NumRank \in Nat /\ NumRank > 0 /\ Rank = 0 .. NumRank - 1
  BY NumRankAssumption DEF Rank
<1>2. \A r \in Rank : v[r] = Share(sz, r) /\ v[r] \in Nat
  BY BlocksEndToEnd DEF SzAll
<1>3. DOMAIN v = Rank /\ \A k \in DOMAIN v : v[k] \in Nat
  BY <1>2
<1>4. \A k : LOffset(sz, k) = S(k)
  BY DEF LOffset
<1> HIDE DEF v
<1>5. S(0) = 0 /\ \A k \in Nat : S(k) \in Nat /\ S(k + 1) = S(k) + (IF k \in Rank THEN v[k] ELSE 0)
  BY <1>3, SumStep
<1> HIDE DEF S
<1>6. First(sz, 0) = 0 /\ First(sz, NumRank) = sz
  <2>1. 0 \in Rank
    BY <1>1
  <2> QED BY ONLY <2>1, sz \in Nat, BlocksEndToEnd
<1>7. \A k \in 0 .. NumRank : S(k) = First(sz, k)
  <2> DEFINE Bad == {k \in 0 .. NumRank : S(k) # First(sz, k)}
  <2>1. ASSUME Bad # {}
        PROVE  FALSE
    <3>1. PICK k \in Bad : \A j \in Bad : k <= j
      <4>1. Bad \in SUBSET Nat
        BY <1>1
      <4> HIDE DEF Bad
      <4> QED BY <4>1, <2>1, LeastNat
    <3>2. k \in 0 .. NumRank /\ S(k) # First(sz, k)
      BY <3>1
    <3>3. k # 0
      BY <3>2, <1>5, <1>6
    <3>4. PICK j \in Rank : k = j + 1
      <4>1. k - 1 \in Rank /\ k = (k - 1) + 1
        BY <3>2, <3>3, <1>1
      <4> QED BY <4>1
    <3>5. j \in 0 .. NumRank /\ ~(k <= j) /\ j \in Nat
      BY <3>4, <1>1
    <3>6. S(j) = First(sz, j)
      BY <3>5, <3>1
    <3>7. S(j + 1) = S(j) + v[j] /\ First(sz, j) + Share(sz, j) = First(sz, j + 1) /\ v[j] = Share(sz, j)
      BY <3>5, <1>2, <1>5, BlocksEndToEnd
    <3> QED BY ONLY <3>2, <3>4, <3>6, <3>7
  <2> QED BY <2>1
<1>8. S(NumRank) = sz
  BY <1>1, <1>6, <1>7
<1>9. ASSUME NEW r \in Rank
      PROVE  S(r) \in Nat /\ S(r + 1) = S(r) + v[r] /\ v[r] \in Nat
  <2>1. r \in Nat
    BY <1>1
  <2>2. S(r + 1) = S(r) + (IF r \in Rank THEN v[r] ELSE 0) /\ S(r) \in Nat
    BY ONLY <2>1, <1>5
  <2> QED BY ONLY <2>2, <1>2, r \in Rank
<1>10. \A r \in Rank : v[r] = SzAll(sz, r)
  BY DEF v
<1>11. ASSUME NEW r \in Rank
       PROVE  /\ LOffset(sz, r) \in Nat /\ SzAll(sz, r) \in Nat
              /\ LOffset(sz, r + 1) = LOffset(sz, r) + SzAll(sz, r)
  <2>1. LOffset(sz, r) = S(r) /\ LOffset(sz, r + 1) = S(r + 1)
    BY <1>4
  <2> QED BY ONLY <2>1, <1>9, <1>10, r \in Rank
<1>12. LOffset(sz, 0) = 0 /\ LOffset(sz, NumRank) = sz
  BY <1>4, <1>5, <1>8
<1> QED BY <1>11, <1>12

\* Every number has a cell, in the block of the process that it is on.
LEMMA CellIs ==
  ASSUME NEW sz \in Nat, NEW i \in 0 .. sz - 1
  PROVE  /\ Cell(sz, i).rank \in Rank
         /\ Cell(sz, i).at \in 1 .. Share(sz, Cell(sz, i).rank)
         /\ i = LOffset(sz, Cell(sz, i).rank) + Cell(sz, i).at - 1
<1> DEFINE T == {r \in Rank : i < LOffset(sz, r) + SzAll(sz, r)}
           v == [q \in Rank |-> SzAll(sz, q)]
           R == LRank(sz, i)
<1>1. NumRank \in Nat /\ NumRank > 0 /\ Rank = 0 .. NumRank - 1
  BY NumRankAssumption DEF Rank
<1>2. /\ LOffset(sz, 0) = 0 /\ LOffset(sz, NumRank) = sz
      /\ \A r \in Rank : /\ LOffset(sz, r) \in Nat /\ SzAll(sz, r) \in Nat
                         /\ LOffset(sz, r + 1) = LOffset(sz, r) + SzAll(sz, r)
  BY LOffsetIs
<1>3. T # {}
  <2>1. DOMAIN v = Rank /\ \A k \in DOMAIN v : v[k] \in Nat
    BY <1>2
  <2>2. i \in Nat /\ i < SumBelow(v, NumRank)
    BY <1>2 DEF LOffset
  <2>3. \E k \in DOMAIN v : SumBelow(v, k) <= i /\ i < SumBelow(v, k) + v[k]
    <3> HIDE DEF v
    <3> QED BY <2>1, <2>2, <1>1, SumFind
  <2> QED BY <2>3 DEF LOffset
<1>4. R \in T /\ \A x \in T : R <= x
  <2>1. T \in SUBSET Nat
    BY <1>1
  <2>2. \E x \in T : \A y \in T : x <= y
    <3> HIDE DEF T
    <3> QED BY <2>1, <1>3, LeastNat
  <2>3. R = Min(T)
    BY DEF LRank
  <2> HIDE DEF T, R
  <2> QED BY <2>2, <2>3 DEF Min
<1> HIDE DEF R
<1>5. R \in Rank /\ i < LOffset(sz, R) + SzAll(sz, R)
  BY <1>4
<1>6. LOffset(sz, R) <= i
  <2>1. CASE R = 0
    BY <2>1, <1>2
  <2>2. CASE R # 0
    <3> DEFINE k == R - 1
    <3>1. k \in Rank /\ k + 1 = R /\ ~(R <= k)
      BY <2>2, <1>1, <1>5
    <3> HIDE DEF k
    <3>2. k \notin T
      BY <3>1, <1>4
    <3>3. ~(i < LOffset(sz, k) + SzAll(sz, k))
      BY <3>1, <3>2
    <3>4. LOffset(sz, R) = LOffset(sz, k) + SzAll(sz, k) /\ LOffset(sz, R) \in Nat
      BY <3>1, <1>2, <1>5
    <3> QED BY ONLY <3>3, <3>4, i \in 0 .. sz - 1, sz \in Nat
  <2> QED BY <2>1, <2>2
<1>7. Cell(sz, i) = [rank |-> R, at |-> i - LOffset(sz, R) + 1]
  BY DEF Cell, R
<1>8. LOffset(sz, R) \in Nat /\ SzAll(sz, R) \in Nat /\ SzAll(sz, R) = Share(sz, R)
  BY <1>2, <1>5 DEF SzAll
<1>9. /\ i - LOffset(sz, R) + 1 \in 1 .. Share(sz, R)
      /\ i = LOffset(sz, R) + (i - LOffset(sz, R) + 1) - 1
  BY ONLY <1>5, <1>6, <1>8, i \in 0 .. sz - 1, sz \in Nat
<1> QED BY <1>5, <1>7, <1>9

\* vec holds sz gathers.
Array(x, sz) == /\ x \in [Rank -> Seq(Gather)]
                /\ \A r \in Rank : Len(x[r]) = Share(sz, r)

LEMMA GetTyped ==
  ASSUME NEW sz \in Nat, NEW x, Array(x, sz), NEW i \in 0 .. sz - 1
  PROVE  Get(x, sz, i) \in Gather
<1> DEFINE c == Cell(sz, i)
<1>1. c.rank \in Rank /\ c.at \in 1 .. Share(sz, c.rank)
  BY CellIs
<1> HIDE DEF c
<1>2. x[c.rank] \in Seq(Gather) /\ c.at \in 1 .. Len(x[c.rank])
  BY <1>1 DEF Array
<1>3. x[c.rank][c.at] \in Gather
  BY <1>2, ElementOfSeq
<1> QED BY <1>3 DEF Get, c

\* A put changes what a get of the same number gives, and no other.
LEMMA PutGet ==
  ASSUME NEW sz \in Nat, NEW x, Array(x, sz), NEW i \in 0 .. sz - 1, NEW val \in Gather
  PROVE  /\ Array(Put(x, sz, i, val), sz)
         /\ Get(Put(x, sz, i, val), sz, i) = val
         /\ \A j \in 0 .. sz - 1 : j # i => Get(Put(x, sz, i, val), sz, j) = Get(x, sz, j)
<1> DEFINE c == Cell(sz, i)
           y == Put(x, sz, i, val)
<1>1. c.rank \in Rank /\ c.at \in 1 .. Share(sz, c.rank) /\ i = LOffset(sz, c.rank) + c.at - 1
  BY CellIs
<1>2. y = [x EXCEPT ![c.rank][c.at] = val]
  BY DEF Put
<1>3. \A j \in 0 .. sz - 1 : Get(y, sz, j) = y[Cell(sz, j).rank][Cell(sz, j).at]
  BY DEF Get
<1> HIDE DEF c, y
<1>4. x \in [Rank -> Seq(Gather)] /\ x[c.rank] \in Seq(Gather) /\ Len(x[c.rank]) = Share(sz, c.rank)
  BY <1>1 DEF Array
<1> DEFINE s == x[c.rank]
           u == [s EXCEPT ![c.at] = val]
<1>5. /\ u \in Seq(Gather) /\ Len(u) = Len(s)
      /\ \A j \in 1 .. Len(s) : u[j] = IF j = c.at THEN val ELSE s[j]
  <2> HIDE DEF s
  <2>1. c.at \in 1 .. Len(s) /\ s \in Seq(Gather)
    BY <1>1, <1>4 DEF s
  <2> QED BY <2>1, ExceptSeq
<1>6. y = [x EXCEPT ![c.rank] = u]
  BY <1>2
<1> HIDE DEF s, u
<1>7. Array(y, sz)
  BY <1>1, <1>4, <1>5, <1>6 DEF Array, s
<1>8. Get(y, sz, i) = val
  <2>1. Get(y, sz, i) = y[c.rank][c.at]
    BY <1>3 DEF c
  <2>2. y[c.rank] = u /\ u[c.at] = val
    BY <1>1, <1>4, <1>5, <1>6 DEF s
  <2> QED BY <2>1, <2>2
<1>9. ASSUME NEW j \in 0 .. sz - 1, j # i
      PROVE  Get(y, sz, j) = Get(x, sz, j)
  <2> DEFINE d == Cell(sz, j)
  <2>1. d.rank \in Rank /\ d.at \in 1 .. Share(sz, d.rank) /\ j = LOffset(sz, d.rank) + d.at - 1
    BY CellIs
  <2>2. Get(y, sz, j) = y[d.rank][d.at] /\ Get(x, sz, j) = x[d.rank][d.at]
    BY <1>3 DEF Get
  <2> HIDE DEF d
  <2>3. d.rank # c.rank \/ d.at # c.at
    BY <1>1, <1>9, <2>1
  <2>4. CASE d.rank # c.rank
    BY <2>1, <2>2, <2>4, <1>4, <1>6
  <2>5. CASE d.rank = c.rank /\ d.at # c.at
    <3>1. y[d.rank] = u /\ x[d.rank] = s /\ d.at \in 1 .. Len(s)
      BY <2>1, <2>5, <1>4, <1>6, <1>1 DEF s
    <3>2. u[d.at] = s[d.at]
      BY <3>1, <2>5, <1>5
    <3> QED BY <2>2, <3>1, <3>2
  <2> QED BY <2>3, <2>4, <2>5
<1> QED BY <1>7, <1>8, <1>9 DEF y

LEMMA NewArray ==
  ASSUME NEW sz \in Nat
  PROVE  Array(NewUniray(sz), sz)
<1>1. Empty \in Gather
  BY DEF Empty, Gather
<1>2. ASSUME NEW r \in Rank
      PROVE  /\ NewUniray(sz)[r] \in Seq(Gather)
             /\ Len(NewUniray(sz)[r]) = Share(sz, r)
  <2> DEFINE n == Share(sz, r)
             f == [j \in 1 .. n |-> Empty]
  <2>1. n \in Nat
    BY BlocksEndToEnd
  <2>2. NewUniray(sz)[r] = f
    BY DEF NewUniray, SzAll
  <2> HIDE DEF n
  <2>3. f \in [1 .. n -> Gather]
    BY <1>1
  <2> HIDE DEF f
  <2>4. f \in Seq(Gather) /\ Len(f) = n
    BY <2>1, <2>3, FunctionSeq
  <2> QED BY <2>2, <2>4 DEF n
<1>3. NewUniray(sz) = [r \in Rank |-> NewUniray(sz)[r]]
  BY DEF NewUniray
<1>4. NewUniray(sz) \in [Rank -> Seq(Gather)]
  <2> DEFINE u == NewUniray(sz)
  <2>1. u = [r \in Rank |-> u[r]] /\ \A r \in Rank : u[r] \in Seq(Gather)
    BY <1>2, <1>3
  <2> HIDE DEF u
  <2>2. u \in [Rank -> Seq(Gather)]
    BY <2>1
  <2> QED BY <2>2 DEF u
<1> QED BY <1>2, <1>4 DEF Array

-----------------------------------------------------------------------------
(***************************************************************************)
(* The gathers of a turn.                                                  *)
(***************************************************************************)
LEMMA BusyIs ==
  ASSUME NEW sz \in Nat, NEW t \in Nat, NEW r \in Rank
  PROVE  /\ GNum(r, t) \in Nat /\ t * NumRank \in Nat /\ GNum(r, t) = t * NumRank + r
         /\ t < Share(sz, r) <=> GNum(r, t) < sz
         /\ (t + 1) * NumRank = t * NumRank + NumRank
<1> DEFINE q == sz \div NumRank
           m == sz % NumRank
           n == NumRank
           tn == n * t
           qn == n * q
<1>1. n \in Nat /\ n > 0 /\ r \in Nat /\ r < n
  BY NumRankAssumption DEF Rank
<1>2. q \in Nat /\ m \in Nat /\ sz = qn + m /\ m < n
  BY NumRankAssumption, DivFacts
<1>3. Share(sz, r) = q + (IF r < m THEN 1 ELSE 0)
  BY ShareIs
<1> HIDE DEF q, m
<1>4. tn \in Nat /\ qn \in Nat
  BY <1>1, <1>2, TimesNat
<1>5. (t < q => tn + n <= qn) /\ (q < t => qn + n <= tn)
  BY <1>1, <1>2, TimesStep
<1>6. t * n = tn /\ (t + 1) * n = tn + n
  BY <1>1
<1>7. t = q => tn = qn
  OBVIOUS
<1>8. GNum(r, t) = tn + r
  BY <1>6 DEF GNum
<1> HIDE DEF tn, qn, n
<1>9. t < Share(sz, r) <=> tn + r < sz
  <2>1. CASE t < q
    BY ONLY <2>1, <1>1, <1>2, <1>3, <1>4, <1>5, t \in Nat
  <2>2. CASE t = q
    BY ONLY <2>2, <1>1, <1>2, <1>3, <1>4, <1>7, t \in Nat
  <2>3. CASE q < t
    BY ONLY <2>3, <1>1, <1>2, <1>3, <1>4, <1>5, t \in Nat
  <2> QED BY <2>1, <2>2, <2>3, <1>2
<1> QED BY <1>1, <1>4, <1>6, <1>8, <1>9 DEF n

\* In a turn that begins at item x of sz, process k has item x + k, of the
\* size w[k], if there is one.  The items before g have the size f[g].
Deals(sz, f, x, w) ==
  /\ f \in [0 .. sz -> Nat] /\ DOMAIN w = Rank
  /\ \A k \in Rank : /\ w[k] \in Nat
                     /\ x + k < sz => f[x + k + 1] = f[x + k] + w[k]
                     /\ ~(x + k < sz) => w[k] = 0

\* What the first k processes have then.
DealtBelow(sz, f, x, w) ==
  \A k \in 0 .. NumRank : /\ SumBelow(w, k) \in Nat /\ f[Least(x, sz)] \in Nat
                          /\ f[Least(x, sz)] + SumBelow(w, k) = f[Least(x + k, sz)]

\* The running sums of a turn are the places where the items lie.
LEMMA SumFrom ==
  ASSUME NEW sz \in Nat, NEW f, NEW x \in Nat, NEW w, Deals(sz, f, x, w)
  PROVE  DealtBelow(sz, f, x, w)
<1>0. /\ f \in [0 .. sz -> Nat] /\ DOMAIN w = Rank
      /\ \A k \in Rank : /\ w[k] \in Nat
                         /\ x + k < sz => f[x + k + 1] = f[x + k] + w[k]
                         /\ ~(x + k < sz) => w[k] = 0
  BY DEF Deals
<1> DEFINE S(k) == SumBelow(w, k)
           P(k) == f[Least(x, sz)] + S(k) = f[Least(x + k, sz)]
           Bad == {k \in 0 .. NumRank : ~P(k)}
<1>1. NumRank \in Nat /\ NumRank > 0 /\ Rank = 0 .. NumRank - 1
  BY NumRankAssumption DEF Rank
<1>2. S(0) = 0 /\ \A k \in Nat : S(k) \in Nat /\ S(k + 1) = S(k) + (IF k \in Rank THEN w[k] ELSE 0)
  BY <1>0, SumStep
<1> HIDE DEF S
<1>3. \A k \in Nat : Least(x + k, sz) \in 0 .. sz /\ f[Least(x + k, sz)] \in Nat
  <2> SUFFICES ASSUME NEW k \in Nat
               PROVE  Least(x + k, sz) \in 0 .. sz /\ f[Least(x + k, sz)] \in Nat
    OBVIOUS
  <2>1. Least(x + k, sz) \in 0 .. sz
    BY DEF Least
  <2> QED BY <2>1, <1>0
<1>4. f[Least(x, sz)] \in Nat
  <2>1. Least(x, sz) \in 0 .. sz
    BY DEF Least
  <2> QED BY <2>1, <1>0
<1>5. ASSUME Bad # {}
      PROVE  FALSE
  <2>1. PICK k \in Bad : \A j \in Bad : k <= j
    <3>1. Bad \in SUBSET Nat
      BY <1>1
    <3> HIDE DEF Bad
    <3> QED BY <3>1, <1>5, LeastNat
  <2>2. k \in 0 .. NumRank /\ ~P(k)
    BY <2>1
  <2>3. k # 0
    <3>1. P(0)
      <4>1. x + 0 = x
        OBVIOUS
      <4>2. Least(x + 0, sz) = Least(x, sz)
        BY <4>1
      <4> DEFINE y == f[Least(x, sz)]
      <4>3. y \in Nat /\ f[Least(x + 0, sz)] = y
        BY <4>2, <1>4
      <4> HIDE DEF y
      <4>4. y + S(0) = f[Least(x + 0, sz)]
        BY ONLY <4>3, <1>2
      <4> QED BY <4>4 DEF y
    <3> QED BY <3>1, <2>2
  <2>4. PICK j \in Rank : k = j + 1
    <3>1. k - 1 \in Rank /\ k = (k - 1) + 1
      BY <2>2, <2>3, <1>1
    <3> QED BY <3>1
  <2>5. j \in 0 .. NumRank /\ ~(k <= j) /\ j \in Nat
    BY <2>4, <1>1
  <2>6. P(j)
    BY <2>5, <2>1
  <2>7. S(k) = S(j) + w[j] /\ S(j) \in Nat /\ w[j] \in Nat
    BY <2>4, <2>5, <1>0, <1>2
  <2> DEFINE y == x + j
  <2>8. y \in Nat /\ x + k = y + 1 /\ x + j + 1 = y + 1
    BY <2>4, <2>5
  <2>9. CASE y < sz
    <3>1. f[y + 1] = f[y] + w[j]
      BY <2>9, <2>8, <1>0
    <3>2. Least(y, sz) = y /\ Least(y + 1, sz) = y + 1
      <4> HIDE DEF y
      <4> QED BY ONLY <2>8, <2>9, sz \in Nat DEF Least
    <3>3. f[Least(x, sz)] + S(j) = f[y]
      BY <2>6, <3>2
    <3>4. f[y] \in Nat
      BY <3>2, <1>3, <2>5
    <3> HIDE DEF y
    <3>5. f[Least(x, sz)] + S(k) = f[y + 1]
      BY ONLY <3>1, <3>3, <3>4, <2>7, <1>4
    <3> QED BY <3>5, <3>2, <2>8, <2>2
  <2>10. CASE ~(y < sz)
    <3>1. w[j] = 0
      BY <2>10, <1>0
    <3>2. Least(y, sz) = sz /\ Least(y + 1, sz) = sz
      <4> HIDE DEF y
      <4> QED BY ONLY <2>8, <2>10, sz \in Nat DEF Least
    <3>3. f[Least(x, sz)] + S(j) = f[sz]
      BY <2>6, <3>2
    <3>4. S(k) = S(j)
      BY ONLY <3>1, <2>7
    <3> HIDE DEF y
    <3>5. f[Least(x, sz)] + S(k) = f[sz]
      BY <3>3, <3>4
    <3> QED BY <3>5, <3>2, <2>8, <2>2
  <2> QED BY <2>9, <2>10
<1>6. \A k \in 0 .. NumRank : k \in Nat
  BY <1>1
<1> QED BY <1>2, <1>4, <1>5, <1>6 DEF S, DealtBelow

\* The turns of the loop are the same number for all.
Turns == Max({NumGather(q) : q \in Rank})

\* All make the same number of calls, and then no gather is left.
LEMMA TurnsAre ==
  ASSUME Size \in Nat
  PROVE  /\ Turns \in Nat /\ Turns <= Size
         /\ \A r \in Rank : /\ NumGather(r) \in Nat /\ NumGather(r) <= Turns
                            /\ NumGather(r) + Extra(r) = Turns
         /\ \A t \in Nat : t >= Turns => t * NumRank \in Nat /\ Size <= t * NumRank
<1> DEFINE s == [r \in Rank |-> NumGather(r)]
<1>1. \A r \in Rank : NumGather(r) = Share(Size, r) /\ NumGather(r) \in Nat /\ NumGather(r) <= Size
  <2> SUFFICES ASSUME NEW r \in Rank
               PROVE  NumGather(r) = Share(Size, r) /\ NumGather(r) \in Nat /\ NumGather(r) <= Size
    OBVIOUS
  <2>1. /\ First(Size, r) \in Nat /\ Share(Size, r) \in Nat
        /\ First(Size, r) + Share(Size, r) = First(Size, r + 1)
        /\ First(Size, r + 1) <= Size
    BY BlocksEndToEnd, ShareIs
  <2>2. NumGather(r) = Share(Size, r)
    BY DEF NumGather
  <2>3. Share(Size, r) <= Size
    BY ONLY <2>1, Size \in Nat
  <2> QED BY <2>1, <2>2, <2>3
<1>2. s \in [Rank -> Nat] /\ {s[r] : r \in Rank} = {NumGather(q) : q \in Rank}
  BY <1>1
<1>3. /\ Turns \in Nat /\ \A r \in Rank : s[r] <= Turns
      /\ \E r \in Rank : s[r] = Turns
  <2>1. Turns = Max({s[r] : r \in Rank})
    BY <1>2 DEF Turns
  <2> HIDE DEF s
  <2> QED BY <2>1, <1>2, Busiest
<1>4. \A r \in Rank : NumGather(r) <= Turns /\ NumGather(r) + Extra(r) = Turns
  <2> SUFFICES ASSUME NEW r \in Rank
               PROVE  NumGather(r) <= Turns /\ NumGather(r) + Extra(r) = Turns
    OBVIOUS
  <2>1. Extra(r) = Turns - NumGather(r) /\ s[r] = NumGather(r)
    BY DEF Extra, Turns
  <2> HIDE DEF s
  <2> QED BY <2>1, <1>1, <1>3
<1>5. Turns <= Size
  BY <1>1, <1>3
<1>6. ASSUME NEW t \in Nat, t >= Turns
      PROVE  t * NumRank \in Nat /\ Size <= t * NumRank
  <2>1. 0 \in Rank
    BY NumRankAssumption DEF Rank
  <2>2. ~(t < Share(Size, 0))
    <3>1. NumGather(0) = Share(Size, 0) /\ NumGather(0) <= Turns /\ NumGather(0) \in Nat
      BY <2>1, <1>1, <1>4
    <3> QED BY ONLY <3>1, <1>3, <1>6
  <2>3. ~(t * NumRank + 0 < Size) /\ t * NumRank \in Nat
    BY <2>1, <2>2, BusyIs
  <2> QED BY ONLY <2>3, Size \in Nat
<1> QED BY <1>1, <1>3, <1>4, <1>5, <1>6
-----------------------------------------------------------------------------
(***************************************************************************)
(* The invariant.  The processes are in one of six phases together.        *)
(***************************************************************************)
At(steps) == \A r \in Rank : pc[r] \in steps

Steps == {"exchange", "set", "open", "state", "model", "get", "read", "write", "done"}

Shapes ==
  /\ line \in Lines
  /\ pc    \in [Rank -> Steps]
  /\ lline \in [Rank -> Seq(Gather)]
  /\ puts  \in [Rank -> Nat]
  /\ vec   \in [Rank -> Seq(Gather)]
  /\ il    \in [Rank -> Seq(Gather)]
  /\ gval  \in [Rank -> Gather]
  /\ block \in [Rank -> SUBSET (0 .. Len(line) - 1)]
  /\ \A r \in Rank : puts[r] <= Len(lline[r])

\* No process has its list of gathers, or knows one for its state, or has
\* worked on one.
NoLists == lline = [r \in Rank |-> <<>>] /\ puts = [r \in Rank |-> 0]
NoState == il = [r \in Rank |-> <<>>]
NoTurns == turn = [r \in Rank |-> 0] /\ iOffset = 0 /\ wOffset = 0 /\ out = {}

\* All have their lists, and there is room for them in the array.
Listed == lline = [r \in Rank |-> Found(r)] /\ Array(vec, Size)

\* The array is the list of the gathers of the file.
Filled == \A g \in 0 .. Size - 1 : Get(vec, Size, g) = AllGathers[g + 1]

\* What r has put is there, and it puts until its list is exhausted.
PutRight(r) ==
  /\ pc[r] = "set" <=> puts[r] < Len(lline[r])
  /\ \A i \in 0 .. puts[r] - 1 : Get(vec, Size, Offset(r) + i) = lline[r][i + 1]

\* What r has got for its state is right.
StateRight(r) == \A i \in 1 .. Len(il[r]) : il[r][i] = AllGathers[GNum(r, i - 1) + 1]

HasState(r) == StateRight(r) /\ Len(il[r]) = NumGather(r)

\* The gathers dealt with in t turns, and what has been written of them.
Upto(t)    == Least(t * NumRank, Size)
OutUpto(k) == UNION {{<<(g - 1) * OGSz + j, AllGathers[g].id>> : j \in 0 .. OGSz - 1} : g \in 1 .. k}

\* t turns are complete.
Turned(t) == /\ turn = [r \in Rank |-> t]
             /\ wOffset = OGSz * Upto(t)
             /\ out = OutUpto(Upto(t))

GatherRight(r) == Busy(r) => gval[r] = AllGathers[GNum(r, turn[r]) + 1]
BlockRight(r)  == block[r] = IF Busy(r) THEN Members(GNum(r, turn[r])) ELSE {}

Ready == Listed /\ Filled /\ \A r \in Rank : HasState(r)

Finding == At({"exchange"}) /\ NoLists /\ NoState /\ NoTurns

Putting == /\ At({"set", "open"}) /\ Listed /\ NoState /\ NoTurns
           /\ \A r \in Rank : PutRight(r)

Stating == /\ At({"state", "model"}) /\ Listed /\ Filled /\ NoTurns
           /\ \A r \in Rank : /\ StateRight(r) /\ Len(il[r]) <= NumGather(r)
                              /\ pc[r] = "state" <=> Len(il[r]) < NumGather(r)

Getting(t) == /\ At({"get", "read"}) /\ Ready /\ Turned(t) /\ t < Turns
              /\ iOffset = TracesTo(Upto(t))
              /\ \A r \in Rank : /\ pc[r] = "get" => Busy(r)
                                 /\ pc[r] = "read" => GatherRight(r)

Writing(t) == /\ At({"write"}) /\ Ready /\ Turned(t) /\ t < Turns
              /\ iOffset = TracesTo(Upto(t + 1))
              /\ \A r \in Rank : GatherRight(r) /\ BlockRight(r)

Ended(t) == /\ At({"done"}) /\ Ready /\ Turned(t) /\ t = Turns
            /\ iOffset = TracesTo(Upto(t))

IInv == /\ Shapes
        /\ \/ Finding \/ Putting \/ Stating
           \/ \E t \in Nat : Getting(t) \/ Writing(t) \/ Ended(t)

LEMMA FoundFixed ==
  ASSUME line' = line
  PROVE  \A r : Found(r)' = Found(r)
<1>1. \A r : Local(r)' = Local(r)
  BY DEF Local
<1>2. \A r : Front(r)' = Front(r) /\ Back(r)' = Back(r)
  BY <1>1 DEF Front, Back
<1>3. \A r : Start(r)' = Start(r) /\ Spill(r)' = Spill(r)
  BY <1>2 DEF Start, Spill
<1> QED BY <1>1, <1>2, <1>3 DEF Found

\* What depends on the file and on the lists only.
LEMMA Fixed ==
  ASSUME line' = line, lline' = lline
  PROVE  /\ Size' = Size /\ AllGathers' = AllGathers /\ Turns' = Turns
         /\ \A r : Offset(r)' = Offset(r) /\ Found(r)' = Found(r)
         /\ \A r : NumGather(r)' = NumGather(r) /\ Extra(r)' = Extra(r)
         /\ \A g : Members(g)' = Members(g) /\ TracesTo(g)' = TracesTo(g)
         /\ \A t : Upto(t)' = Upto(t) /\ OutUpto(t)' = OutUpto(t)
<1>1. Size' = Size /\ AllGathers' = AllGathers
  BY DEF Size, AllGathers
<1>2. \A r : Offset(r)' = Offset(r) /\ NumGather(r)' = NumGather(r)
  BY <1>1 DEF Offset, NumGather
<1>3. \A r : Found(r)' = Found(r)
  BY FoundFixed
<1>4. Turns' = Turns
  BY <1>2 DEF Turns
<1>5. \A r : Extra(r)' = Extra(r)
  BY <1>2, <1>4 DEF Extra, Turns
<1>6. \A g : Members(g)' = Members(g)
  BY <1>1 DEF Members
<1>7. \A g : TracesTo(g)' = TracesTo(g)
  BY <1>1 DEF TracesTo
<1>8. \A t : Upto(t)' = Upto(t) /\ OutUpto(t)' = OutUpto(t)
  BY <1>1 DEF Upto, OutUpto
<1> QED BY <1>1, <1>2, <1>3, <1>4, <1>5, <1>6, <1>7, <1>8

\* The size of the new array, before the lists are there.
LEMMA FoundSize ==
  ASSUME line \in Lines
  PROVE  /\ SumBelow([r \in Rank |-> Len(Found(r))], NumRank) \in Nat
         /\ \A r \in Rank : Found(r) \in Seq(Gather)
<1> DEFINE N == Len(line)
           v == [r \in Rank |-> Len(Found(r))]
           S(k) == SumBelow(v, k)
           F(i) == First(N, i)
<1>1. line \in Seq(Nat) /\ N \in Nat /\ N > 0
  <2>1. 0 \in Rank
    BY NumRankAssumption DEF Rank
  <2> QED BY <2>1, BlockIs
<1>2. PICK m \in Nat \ {0} : \E e \in [1 .. m + 1 -> Nat] : Marks(line, N, m, e)
  BY <1>1, MarksExist DEF Marked
<1>3. PICK e \in [1 .. m + 1 -> Nat] : Marks(line, N, m, e)
  BY <1>2
<1>4. /\ \A k \in 0 .. NumRank : Begun(m, e, F(k), S(k))
      /\ \A k \in 0 .. NumRank : F(k) \in 0 .. N /\ S(k) \in Nat
  <2> HIDE DEF v
  <2>1. v = [r \in Rank |-> Len(Found(r))]
    BY DEF v
  <2> QED BY <2>1, <1>3, CountBegun
<1>5. ASSUME NEW r \in Rank
      PROVE  Found(r) \in Seq(Gather)
  <2> DEFINE a == F(r)
             z == F(r + 1)
             ka == S(r)
             kz == S(r + 1)
  <2>1. r \in 0 .. NumRank /\ r + 1 \in 0 .. NumRank
    BY NumRankAssumption DEF Rank
  <2>2. Begun(m, e, a, ka) /\ Begun(m, e, z, kz) /\ a = First(N, r) /\ z = First(N, r + 1)
    BY <2>1, <1>4
  <2> HIDE DEF a, z, ka, kz
  <2>3. FoundFrom(r, e, ka, kz)
    BY ONLY line \in Lines, <1>3, <2>2, FoundIs
  <2> QED BY <2>3 DEF FoundFrom
<1>6. NumRank \in 0 .. NumRank
  BY NumRankAssumption
<1> QED BY <1>4, <1>5, <1>6

LEMMA InitInv == Init => IInv
<1> SUFFICES ASSUME Init
             PROVE  IInv
  OBVIOUS
<1>1. Empty \in Gather
  BY DEF Empty, Gather
<1>2. <<>> \in Seq(Gather) /\ Len(<<>>) = 0
  OBVIOUS
<1>3. Shapes
  BY <1>1, <1>2 DEF Init, Shapes, Steps
<1>4. Finding
  BY DEF Init, Finding, At, NoLists, NoState, NoTurns
<1> QED BY <1>3, <1>4 DEF IInv

\* The step of each action, from the phase that it is taken in.
LEMMA ExchangeStep ==
  ASSUME Shapes, Finding, Exchange
  PROVE  Shapes' /\ Putting'
<1>1. /\ line \in Lines /\ line' = line
      /\ lline' = [r \in Rank |-> Found(r)]
      /\ vec' = NewUniray(Size')
      /\ pc' = [r \in Rank |-> IF lline'[r] = <<>> THEN "open" ELSE "set"]
      /\ puts' = puts /\ puts = [r \in Rank |-> 0]
      /\ UNCHANGED <<il, turn, gval, iOffset, wOffset, block, out>>
  BY DEF Shapes, Finding, NoLists, Exchange
<1>2. \A r \in Rank : Found(r) \in Seq(Gather) /\ lline'[r] = Found(r)
  BY <1>1, FoundSize
<1>3. Size' \in Nat
  <2> DEFINE v == [r \in Rank |-> Len(Found(r))]
  <2>1. [r \in Rank |-> Len(lline'[r])] = v
    BY <1>1
  <2>2. SumBelow(v, NumRank) \in Nat
    BY <1>1, FoundSize
  <2>3. Size' = SumBelow([r \in Rank |-> Len(lline'[r])], NumRank)
    BY DEF Size
  <2> HIDE DEF v
  <2> QED BY <2>1, <2>2, <2>3
<1>4. Array(vec', Size')
  <2> DEFINE sz == Size'
  <2> HIDE DEF sz
  <2>1. sz \in Nat /\ vec' = NewUniray(sz)
    BY <1>1, <1>3 DEF sz
  <2>2. Array(vec', sz)
    BY <2>1, NewArray
  <2> QED BY <2>2 DEF sz
<1>5. lline' \in [Rank -> Seq(Gather)]
  BY <1>1, <1>2
<1>6. ASSUME NEW r \in Rank
      PROVE  /\ lline'[r] \in Seq(Gather) /\ Len(lline'[r]) \in Nat
             /\ pc'[r] = "set" <=> 0 < Len(lline'[r])
             /\ pc'[r] \in {"set", "open"} /\ puts'[r] = 0
  <2>1. lline'[r] \in Seq(Gather)
    BY <1>5
  <2> DEFINE l == lline'[r]
  <2> HIDE DEF l
  <2>2. l \in Seq(Gather)
    BY <2>1 DEF l
  <2>3. Len(l) \in Nat /\ (l = <<>> <=> Len(l) = 0)
    BY <2>2, EmptySeq, LenProperties
  <2>4. pc'[r] = IF l = <<>> THEN "open" ELSE "set"
    BY <1>1 DEF l
  <2>5. pc'[r] = "set" <=> 0 < Len(l)
    BY <2>3, <2>4
  <2>6. pc'[r] \in {"set", "open"} /\ puts'[r] = 0
    BY <2>4, <1>1
  <2> QED BY <2>1, <2>3, <2>5, <2>6 DEF l
<1>7. Shapes'
  <2>1. pc' \in [Rank -> Steps]
    BY <1>1 DEF Steps
  <2>2. vec' \in [Rank -> Seq(Gather)]
    BY <1>4 DEF Array
  <2>3. \A r \in Rank : puts'[r] <= Len(lline'[r])
    BY <1>6
  <2>4. /\ puts' \in [Rank -> Nat] /\ il' \in [Rank -> Seq(Gather)] /\ gval' \in [Rank -> Gather]
        /\ block' \in [Rank -> SUBSET (0 .. Len(line') - 1)]
    BY <1>1 DEF Shapes
  <2> QED BY <1>1, <1>5, <2>1, <2>2, <2>3, <2>4 DEF Shapes
<1>8. At({"set", "open"})'
  BY <1>6 DEF At
<1>9. Listed'
  <2>1. \A r : Found(r)' = Found(r)
    BY <1>1, FoundFixed
  <2>2. lline' = [r \in Rank |-> Found(r)']
    BY <1>1, <2>1
  <2> QED BY <1>4, <2>2 DEF Listed
<1>10. NoState' /\ NoTurns'
  BY <1>1 DEF Finding, NoState, NoTurns
<1>11. ASSUME NEW r \in Rank
       PROVE  PutRight(r)'
  BY <1>6 DEF PutRight
<1> QED BY <1>7, <1>8, <1>9, <1>10, <1>11 DEF Putting

\* What the invariant says of the file and of the lists.
LEMMA Known ==
  ASSUME line \in Lines, Listed
  PROVE  /\ FileOK /\ ListOK /\ Size \in Nat /\ Size = Len(AllGathers)
         /\ \A r \in Rank : NumGather(r) = Share(Size, r) /\ NumGather(r) \in Nat
         /\ \A g \in 0 .. Size - 1 : AllGathers[g + 1] \in Gather
<1>1. FileOK
  BY FileIs
<1>2. ListOK
  BY ListIs DEF Listed
<1>3. Size \in Nat /\ Size = Len(AllGathers)
  BY <1>2 DEF ListOK
<1>4. \A r \in Rank : NumGather(r) = Share(Size, r) /\ NumGather(r) \in Nat
  BY <1>3, TurnsAre DEF NumGather
<1>5. \A g \in 0 .. Size - 1 : AllGathers[g + 1] \in Gather
  BY <1>1, <1>3 DEF FileOK
<1> QED BY <1>1, <1>2, <1>3, <1>4, <1>5

LEMMA SetStep ==
  ASSUME Shapes, Putting, NEW r \in Rank, Set(r)
  PROVE  Shapes' /\ Putting'
<1> DEFINE k  == puts[r]
           i0 == k + Offset(r)
           val == lline[r][k + 1]
<1>1. /\ line \in Lines /\ Listed /\ Array(vec, Size) /\ lline = [q \in Rank |-> Found(q)]
      /\ NoState /\ NoTurns /\ \A q \in Rank : PutRight(q)
  BY DEF Shapes, Putting, Listed
<1>2. /\ pc[r] = "set" /\ vec' = Put(vec, Size, i0, val)
      /\ puts' = [puts EXCEPT ![r] = @ + 1]
      /\ pc' = [pc EXCEPT ![r] = IF puts[r] + 1 = Len(lline[r]) THEN "open" ELSE "set"]
      /\ UNCHANGED <<line, lline, il, turn, gval, iOffset, wOffset, block, out>>
  BY DEF Set
<1>3. /\ Size' = Size /\ \A q : Offset(q)' = Offset(q) /\ Found(q)' = Found(q)
  BY <1>2, Fixed
<1>4. /\ Size \in Nat /\ ListOK
      /\ \A q \in Rank :
           /\ lline[q] \in Seq(Gather) /\ Len(lline[q]) \in Nat
           /\ Offset(q) \in Nat /\ Offset(q) + Len(lline[q]) <= Size
           /\ \A i \in 0 .. Len(lline[q]) - 1 : lline[q][i + 1] = AllGathers[Offset(q) + i + 1]
  BY <1>1, Known DEF ListOK
<1>5. \A q \in Rank : puts[q] \in Nat /\ puts[q] <= Len(lline[q])
  BY DEF Shapes
<1>6. k \in 0 .. Len(lline[r]) - 1 /\ k + 1 \in 1 .. Len(lline[r]) /\ k \in Nat
  <2>1. k < Len(lline[r])
    BY <1>1, <1>2 DEF PutRight
  <2> QED BY <2>1, <1>4, <1>5
<1>7. val \in Gather
  BY <1>4, <1>6, ElementOfSeq
<1>8. i0 \in 0 .. Size - 1
  BY ONLY <1>4, <1>6, r \in Rank
<1>9. /\ Array(vec', Size) /\ Get(vec', Size, i0) = val
      /\ \A j \in 0 .. Size - 1 : j # i0 => Get(vec', Size, j) = Get(vec, Size, j)
  <2> HIDE DEF i0, val
  <2> QED BY ONLY <1>1, <1>2, <1>4, <1>7, <1>8, PutGet
<1>10. ASSUME NEW q \in Rank
       PROVE  /\ puts'[q] \in Nat /\ puts'[q] <= Len(lline[q])
              /\ pc'[q] \in {"set", "open"}
              /\ pc'[q] = "set" <=> puts'[q] < Len(lline[q])
              /\ \A i \in 0 .. puts'[q] - 1 : Get(vec', Size, Offset(q) + i) = lline[q][i + 1]
  <2>1. \A i \in 0 .. puts[q] - 1 : Get(vec, Size, Offset(q) + i) = lline[q][i + 1]
    BY <1>1 DEF PutRight
  <2>2. pc[q] \in {"set", "open"} /\ (pc[q] = "set" <=> puts[q] < Len(lline[q]))
    BY <1>1 DEF Putting, At, PutRight
  <2>3. /\ q = r => /\ puts'[q] = k + 1
                    /\ pc'[q] = IF k + 1 = Len(lline[r]) THEN "open" ELSE "set"
        /\ q # r => puts'[q] = puts[q] /\ pc'[q] = pc[q]
    BY <1>2 DEF Shapes
  <2>4. puts'[q] \in Nat /\ puts'[q] <= Len(lline[q])
    BY <2>3, <1>4, <1>5, <1>6
  <2>5. pc'[q] \in {"set", "open"} /\ (pc'[q] = "set" <=> puts'[q] < Len(lline[q]))
    <3>1. CASE q # r
      BY ONLY <3>1, <2>2, <2>3
    <3>2. CASE q = r
      BY <3>2, <2>3, <1>4, <1>6
    <3> QED BY ONLY <3>1, <3>2
  <2>6. ASSUME NEW i \in 0 .. puts'[q] - 1
        PROVE  Get(vec', Size, Offset(q) + i) = lline[q][i + 1]
    <3> DEFINE p == Offset(q) + i
               l == Len(lline[q])
    <3>1. l \in Nat /\ Offset(q) \in Nat /\ Offset(q) + l <= Size /\ Size \in Nat /\ i \in Nat
      BY <1>4, <2>4
    <3>2. i \in 0 .. l - 1
      BY <2>4, <3>1
    <3>3. p \in 0 .. Size - 1
      <4> HIDE DEF l
      <4> QED BY ONLY <3>1, <3>2
    <3>4. lline[q][i + 1] = AllGathers[p + 1]
      BY <3>2, <1>4
    <3>5. CASE p = i0
      <4>1. val = AllGathers[Offset(r) + k + 1]
        BY <1>4, <1>6
      <4>2. Offset(r) + k = i0
        BY <1>4, <1>6
      <4> HIDE DEF p, i0, val
      <4> QED BY <3>4, <3>5, <4>1, <4>2, <1>9 DEF p
    <3>6. CASE p # i0
      <4>1. i \in 0 .. puts[q] - 1
        <5>1. CASE q = r
          <6>1. i # k
            BY <5>1, <3>6, <3>1, <1>6
          <6> QED BY <6>1, <5>1, <2>3, <1>6
        <5>2. CASE q # r
          BY <5>2, <2>3
        <5> QED BY <5>1, <5>2
      <4>2. Get(vec, Size, p) = lline[q][i + 1]
        BY <4>1, <2>1
      <4> HIDE DEF p, i0
      <4> QED BY <4>2, <3>3, <3>6, <1>9 DEF p
    <3> QED BY <3>5, <3>6
  <2> QED BY <2>4, <2>5, <2>6
<1>11. Shapes'
  <2>1. pc' \in [Rank -> Steps]
    BY <1>2 DEF Shapes, Steps
  <2>2. puts' \in [Rank -> Nat]
    BY <1>2, <1>6 DEF Shapes
  <2>3. vec' \in [Rank -> Seq(Gather)]
    BY <1>9 DEF Array
  <2>4. \A q \in Rank : puts'[q] <= Len(lline'[q])
    BY <1>2, <1>10
  <2> QED BY <1>2, <2>1, <2>2, <2>3, <2>4 DEF Shapes
<1>12. At({"set", "open"})'
  BY <1>10 DEF At
<1>13. Listed'
  BY <1>1, <1>2, <1>3, <1>9 DEF Listed
<1>14. NoState' /\ NoTurns'
  BY <1>1, <1>2 DEF NoState, NoTurns
<1>15. ASSUME NEW q \in Rank
       PROVE  PutRight(q)'
  BY <1>2, <1>3, <1>10 DEF PutRight
<1> QED BY <1>11, <1>12, <1>13, <1>14, <1>15 DEF Putting

\* When all the puts are made the array is complete.
LEMMA AllPut ==
  ASSUME Shapes, Putting, \A r \in Rank : pc[r] = "open"
  PROVE  Filled
<1>1. /\ line \in Lines /\ Listed /\ \A r \in Rank : PutRight(r)
  BY DEF Shapes, Putting
<1> SUFFICES ASSUME NEW g \in 0 .. Size - 1
             PROVE  Get(vec, Size, g) = AllGathers[g + 1]
  BY DEF Filled
<1>2. PICK r \in Rank : \E i \in 0 .. Len(lline[r]) - 1 : g = Offset(r) + i
  BY <1>1, Known DEF ListOK
<1>3. PICK i \in 0 .. Len(lline[r]) - 1 : g = Offset(r) + i
  BY <1>2
<1>4. /\ lline[r][i + 1] = AllGathers[Offset(r) + i + 1] /\ Len(lline[r]) \in Nat
  BY <1>1, Known DEF ListOK
<1>5. ~(puts[r] < Len(lline[r])) /\ puts[r] \in Nat
  BY <1>1 DEF PutRight, Shapes
<1>6. i \in 0 .. puts[r] - 1
  BY <1>4, <1>5
<1>7. Get(vec, Size, Offset(r) + i) = lline[r][i + 1]
  BY <1>6, <1>1 DEF PutRight
<1> QED BY <1>3, <1>4, <1>7

LEMMA OpenStep ==
  ASSUME Shapes, Putting, Open
  PROVE  Shapes' /\ Stating'
<1>1. /\ line \in Lines /\ Listed /\ NoState /\ NoTurns /\ \A q \in Rank : PutRight(q)
  BY DEF Shapes, Putting
<1>2. /\ \A r \in Rank : pc[r] = "open"
      /\ pc' = [r \in Rank |-> AfterState(r, 0)]
      /\ UNCHANGED <<line, lline, puts, vec, il, turn, gval, iOffset, wOffset, block, out>>
  BY DEF Open
<1>3. /\ Size' = Size /\ AllGathers' = AllGathers
      /\ \A q : Offset(q)' = Offset(q) /\ Found(q)' = Found(q) /\ NumGather(q)' = NumGather(q)
  BY <1>2, Fixed
<1>4. Filled
  BY <1>2, AllPut
<1>5. ASSUME NEW r \in Rank
      PROVE  /\ pc'[r] \in {"state", "model"} /\ il[r] = <<>> /\ Len(il[r]) = 0
             /\ pc'[r] = "state" <=> Len(il[r]) < NumGather(r)
             /\ Len(il[r]) <= NumGather(r)
  <2>1. NumGather(r) \in Nat
    BY <1>1, Known
  <2>2. il[r] = <<>>
    BY <1>1 DEF NoState
  <2>3. Len(il[r]) = 0
    BY <2>2
  <2> QED BY <1>2, <2>1, <2>2, <2>3 DEF AfterState
<1>6. Shapes'
  <2>1. pc' \in [Rank -> Steps]
    BY <1>2, <1>5 DEF Steps
  <2> QED BY <1>2, <2>1 DEF Shapes
<1>7. At({"state", "model"})'
  BY <1>5 DEF At
<1>8. Listed' /\ Filled' /\ NoTurns'
  BY <1>1, <1>2, <1>3, <1>4 DEF Listed, Filled, NoTurns
<1>9. ASSUME NEW r \in Rank
      PROVE  /\ StateRight(r)' /\ Len(il'[r]) <= NumGather(r)'
             /\ pc'[r] = "state" <=> Len(il'[r]) < NumGather(r)'
  <2>1. StateRight(r)'
    BY <1>2, <1>5 DEF StateRight
  <2> QED BY <2>1, <1>2, <1>3, <1>5
<1> QED BY <1>6, <1>7, <1>8, <1>9 DEF Stating

\* A get of a gather that there is.
LEMMA GetRight ==
  ASSUME line \in Lines, Listed, Filled, NEW r \in Rank, NEW t \in Nat, t < NumGather(r)
  PROVE  /\ Get(vec, Size, GNum(r, t)) = AllGathers[GNum(r, t) + 1]
         /\ AllGathers[GNum(r, t) + 1] \in Gather
<1>1. Size \in Nat /\ NumGather(r) = Share(Size, r)
  BY Known
<1>2. GNum(r, t) \in Nat /\ GNum(r, t) < Size
  BY <1>1, BusyIs
<1>3. GNum(r, t) \in 0 .. Size - 1
  BY ONLY <1>1, <1>2
<1> QED BY <1>3, Known DEF Filled

LEMMA StateStep ==
  ASSUME Shapes, Stating, NEW r \in Rank, State(r)
  PROVE  Shapes' /\ Stating'
<1> DEFINE n == Len(il[r])
           x == Get(vec, Size, GNum(r, n))
<1>1. /\ line \in Lines /\ Listed /\ Filled /\ NoTurns
      /\ \A q \in Rank : /\ StateRight(q) /\ Len(il[q]) <= NumGather(q)
                         /\ pc[q] = "state" <=> Len(il[q]) < NumGather(q)
  BY DEF Shapes, Stating
<1>2. /\ pc[r] = "state" /\ il' = [il EXCEPT ![r] = Append(il[r], x)]
      /\ pc' = [pc EXCEPT ![r] = AfterState(r, Len(il'[r]))]
      /\ UNCHANGED <<line, lline, puts, vec, turn, gval, iOffset, wOffset, block, out>>
  BY DEF State
<1>3. /\ Size' = Size /\ AllGathers' = AllGathers
      /\ \A q : Found(q)' = Found(q) /\ NumGather(q)' = NumGather(q)
  BY <1>2, Fixed
<1>4. il \in [Rank -> Seq(Gather)] /\ pc \in [Rank -> Steps]
  BY DEF Shapes
<1>5. il[r] \in Seq(Gather) /\ n \in Nat
  BY <1>4, LenProperties
<1>6. n < NumGather(r) /\ \A q \in Rank : NumGather(q) \in Nat
  BY <1>1, <1>2, Known
<1>7. x = AllGathers[GNum(r, n) + 1] /\ x \in Gather
  <2> HIDE DEF n
  <2>1. Get(vec, Size, GNum(r, n)) = AllGathers[GNum(r, n) + 1] /\ AllGathers[GNum(r, n) + 1] \in Gather
    BY <1>1, <1>5, <1>6, GetRight
  <2> QED BY <2>1
<1> HIDE DEF x
<1>8. /\ Append(il[r], x) \in Seq(Gather) /\ Len(Append(il[r], x)) = n + 1
      /\ \A i \in 1 .. n : Append(il[r], x)[i] = il[r][i]
      /\ Append(il[r], x)[n + 1] = x
  BY <1>5, <1>7, AppendProperties
<1>9. il' \in [Rank -> Seq(Gather)] /\ il'[r] = Append(il[r], x) /\ \A q \in Rank : q # r => il'[q] = il[q]
  BY <1>2, <1>4, <1>8
<1>10. StateRight(r)'
  <2> SUFFICES ASSUME NEW i \in 1 .. Len(il'[r])
               PROVE  il'[r][i] = AllGathers[GNum(r, i - 1) + 1]
    BY <1>3 DEF StateRight, GNum
  <2>1. i \in 1 .. n + 1 /\ i \in Nat
    BY <1>5, <1>8, <1>9
  <2>2. CASE i \in 1 .. n
    BY <2>2, <1>1, <1>8, <1>9 DEF StateRight
  <2>3. CASE i = n + 1
    <3>1. i - 1 = n /\ il'[r][i] = x
      BY <2>3, <1>5, <1>8, <1>9
    <3> HIDE DEF n
    <3> QED BY <3>1, <1>7
  <2> QED BY <2>1, <2>2, <2>3, <1>5
<1>11. ASSUME NEW q \in Rank
       PROVE  /\ StateRight(q)' /\ Len(il'[q]) <= NumGather(q)
              /\ pc'[q] \in {"state", "model"}
              /\ pc'[q] = "state" <=> Len(il'[q]) < NumGather(q)
  <2>1. CASE q = r
    <3>1. pc'[r] = AfterState(r, n + 1) /\ Len(il'[r]) = n + 1
      BY <1>2, <1>4, <1>8, <1>9
    <3> HIDE DEF n
    <3> QED BY <2>1, <3>1, <1>5, <1>6, <1>10 DEF AfterState
  <2>2. CASE q # r
    <3>1. il'[q] = il[q] /\ pc'[q] = pc[q] /\ pc[q] \in {"state", "model"}
      BY <2>2, <1>2, <1>4, <1>9 DEF Stating, At
    <3>2. StateRight(q)'
      BY <3>1, <1>1, <1>3 DEF StateRight, GNum
    <3> QED BY <3>1, <3>2, <1>1
  <2> QED BY <2>1, <2>2
<1>12. Shapes'
  <2>1. pc' \in [Rank -> Steps]
    <3>1. pc'[r] \in {"state", "model"}
      BY <1>11
    <3> QED BY <3>1, <1>2 DEF Shapes, Steps
  <2> QED BY <1>2, <1>9, <2>1 DEF Shapes
<1>13. At({"state", "model"})'
  BY <1>11 DEF At
<1>14. Listed' /\ Filled' /\ NoTurns'
  BY <1>1, <1>2, <1>3 DEF Listed, Filled, NoTurns
<1>15. \A q \in Rank : /\ StateRight(q)' /\ Len(il'[q]) <= NumGather(q)'
                       /\ pc'[q] = "state" <=> Len(il'[q]) < NumGather(q)'
  BY <1>3, <1>11
<1> QED BY <1>12, <1>13, <1>14, <1>15 DEF Stating

\* Where the processes go for their next turn.
LEMMA NextTurn ==
  ASSUME Size \in Nat, NEW t \in Nat, t <= Turns,
         line' = line, lline' = lline, turn' = [r \in Rank |-> t],
         pc' = [r \in Rank |-> AfterTurn(r, t)]
  PROVE  /\ pc' \in [Rank -> Steps]
         /\ t < Turns => At({"get", "read"})'
         /\ t = Turns => At({"done"})'
         /\ \A r \in Rank : /\ pc'[r] = "get" => Busy(r)'
                            /\ pc'[r] = "read" => ~Busy(r)'
         /\ t < Turns \/ t = Turns
<1>1. /\ Turns \in Nat
      /\ \A r \in Rank : /\ NumGather(r) \in Nat /\ NumGather(r) <= Turns
                         /\ NumGather(r) + Extra(r) = Turns
  BY TurnsAre
<1>2. \A r \in Rank : turn'[r] = t /\ NumGather(r)' = NumGather(r) /\ pc'[r] = AfterTurn(r, t)
  BY Fixed
<1>3. ASSUME NEW r \in Rank
      PROVE  /\ pc'[r] = IF t < NumGather(r) THEN "get" ELSE IF t < Turns THEN "read" ELSE "done"
             /\ Busy(r)' <=> t < NumGather(r)
  <2>1. Busy(r)' <=> t < NumGather(r)
    BY <1>2 DEF Busy
  <2> QED BY <2>1, <1>1, <1>2 DEF AfterTurn
<1>4. \A r \in Rank : /\ pc'[r] = "get" => Busy(r)'
                      /\ pc'[r] = "read" => ~Busy(r)'
  BY <1>3
<1>5. t < Turns => At({"get", "read"})'
  BY <1>3 DEF At
<1>6. t = Turns => At({"done"})'
  BY <1>1, <1>3 DEF At
<1>7. pc' \in [Rank -> Steps]
  <2>1. \A r \in Rank : AfterTurn(r, t) \in {"get", "read", "done"}
    BY DEF AfterTurn
  <2> QED BY <2>1 DEF Steps
<1>8. t < Turns \/ t = Turns
  BY <1>1
<1> QED BY <1>4, <1>5, <1>6, <1>7, <1>8

LEMMA ModelStep ==
  ASSUME Shapes, Stating, Model
  PROVE  Shapes' /\ (Getting(0)' \/ Ended(0)')
<1>1. /\ line \in Lines /\ Listed /\ Filled /\ NoTurns
      /\ \A q \in Rank : /\ StateRight(q) /\ Len(il[q]) <= NumGather(q)
                         /\ pc[q] = "state" <=> Len(il[q]) < NumGather(q)
  BY DEF Shapes, Stating
<1>2. /\ \A r \in Rank : pc[r] = "model"
      /\ pc' = [r \in Rank |-> AfterTurn(r, 0)]
      /\ UNCHANGED <<line, lline, puts, vec, il, turn, gval, iOffset, wOffset, block, out>>
  BY DEF Model
<1>3. /\ Size' = Size /\ AllGathers' = AllGathers /\ Turns' = Turns
      /\ \A q : Found(q)' = Found(q) /\ NumGather(q)' = NumGather(q)
      /\ \A t : Upto(t)' = Upto(t) /\ OutUpto(t)' = OutUpto(t) /\ TracesTo(t)' = TracesTo(t)
  BY <1>2, Fixed
<1>4. Size \in Nat /\ FileOK /\ \A r \in Rank : NumGather(r) \in Nat
  BY <1>1, Known
<1>5. turn' = [r \in Rank |-> 0] /\ 0 <= Turns /\ Turns \in Nat
  BY <1>1, <1>2, <1>4, TurnsAre DEF NoTurns
<1>6. /\ pc' \in [Rank -> Steps]
      /\ 0 < Turns => At({"get", "read"})'
      /\ 0 = Turns => At({"done"})'
      /\ \A r \in Rank : /\ pc'[r] = "get" => Busy(r)'
                         /\ pc'[r] = "read" => ~Busy(r)'
      /\ 0 < Turns \/ 0 = Turns
  BY <1>2, <1>4, <1>5, NextTurn
<1>7. Upto(0) = 0
  <2>1. 0 * NumRank = 0
    BY NumRankAssumption
  <2> QED BY <2>1, <1>4 DEF Upto, Least
<1>8. OutUpto(0) = {}
  BY DEF OutUpto
<1>9. OGSz * 0 = 0
  BY OGSzAssumption
<1>10. Turned(0)'
  <2>1. wOffset' = OGSz * Upto(0)' /\ out' = OutUpto(Upto(0))'
    <3>1. wOffset' = 0 /\ out' = {} /\ Upto(0)' = 0 /\ OutUpto(Upto(0))' = {}
      BY <1>1, <1>2, <1>3, <1>7, <1>8 DEF NoTurns
    <3> QED BY <3>1, <1>9
  <2> QED BY <2>1, <1>5 DEF Turned
<1>11. iOffset' = TracesTo(Upto(0))'
  <2>1. iOffset' = 0 /\ TracesTo(0) = 0
    BY <1>1, <1>2, <1>4 DEF NoTurns, FileOK
  <2> QED BY <2>1, <1>3, <1>7
<1>12. Ready'
  <2>1. ASSUME NEW r \in Rank
        PROVE  HasState(r)'
    <3>1. Len(il[r]) = NumGather(r)
      <4>1. il[r] \in Seq(Gather)
        BY DEF Shapes
      <4>2. Len(il[r]) \in Nat
        BY <4>1, LenProperties
      <4>3. ~(Len(il[r]) < NumGather(r)) /\ Len(il[r]) <= NumGather(r)
        BY <1>1, <1>2
      <4> QED BY <4>2, <4>3, <1>4
    <3>2. StateRight(r)'
      BY <1>1, <1>2, <1>3 DEF StateRight, GNum
    <3> QED BY <3>1, <3>2, <1>2, <1>3 DEF HasState
  <2>2. Listed' /\ Filled'
    BY <1>1, <1>2, <1>3 DEF Listed, Filled
  <2> QED BY <2>1, <2>2 DEF Ready
<1>13. Shapes'
  BY <1>2, <1>6 DEF Shapes
<1>14. CASE 0 < Turns
  <2>1. \A r \in Rank : /\ pc'[r] = "get" => Busy(r)'
                        /\ pc'[r] = "read" => GatherRight(r)'
    BY <1>6 DEF GatherRight
  <2>2. 0 < Turns'
    BY <1>3, <1>14
  <2> QED BY <1>6, <1>10, <1>11, <1>12, <1>13, <1>14, <2>1, <2>2 DEF Getting
<1>15. CASE 0 = Turns
  BY <1>3, <1>6, <1>10, <1>11, <1>12, <1>13, <1>15 DEF Ended
<1> QED BY <1>6, <1>14, <1>15

LEMMA NextGatherStep ==
  ASSUME Shapes, NEW t \in Nat, Getting(t), NEW r \in Rank, NextGather(r)
  PROVE  Shapes' /\ Getting(t)'
<1> DEFINE x == Get(vec, Size, GNum(r, turn[r]))
<1>1. /\ line \in Lines /\ Ready /\ Listed /\ Filled /\ Turned(t) /\ t < Turns
      /\ iOffset = TracesTo(Upto(t)) /\ turn = [q \in Rank |-> t]
      /\ \A q \in Rank : /\ pc[q] = "get" => Busy(q)
                         /\ pc[q] = "read" => GatherRight(q)
      /\ \A q \in Rank : HasState(q)
  BY DEF Shapes, Getting, Ready, Turned
<1>2. /\ pc[r] = "get" /\ gval' = [gval EXCEPT ![r] = x]
      /\ pc' = [pc EXCEPT ![r] = "read"]
      /\ UNCHANGED <<line, lline, puts, vec, il, turn, iOffset, wOffset, block, out>>
  BY DEF NextGather
<1>3. /\ Size' = Size /\ AllGathers' = AllGathers /\ Turns' = Turns
      /\ \A q : Found(q)' = Found(q) /\ NumGather(q)' = NumGather(q)
      /\ \A k : Upto(k)' = Upto(k) /\ OutUpto(k)' = OutUpto(k) /\ TracesTo(k)' = TracesTo(k)
  BY <1>2, Fixed
<1>4. \A q \in Rank : Busy(q)' <=> Busy(q)
  BY <1>2, <1>3 DEF Busy
<1>5. x = AllGathers[GNum(r, turn[r]) + 1] /\ x \in Gather
  <2>1. turn[r] = t /\ t < NumGather(r)
    BY <1>1, <1>2 DEF Busy
  <2>2. Get(vec, Size, GNum(r, t)) = AllGathers[GNum(r, t) + 1] /\ AllGathers[GNum(r, t) + 1] \in Gather
    BY <1>1, <2>1, GetRight
  <2> QED BY <2>1, <2>2
<1> HIDE DEF x
<1>6. ASSUME NEW q \in Rank
      PROVE  /\ pc'[q] \in {"get", "read"}
             /\ pc'[q] = "get" => Busy(q)'
             /\ pc'[q] = "read" => GatherRight(q)'
  <2>1. pc \in [Rank -> Steps] /\ gval \in [Rank -> Gather]
    BY DEF Shapes
  <2>2. CASE q = r
    <3>1. pc'[q] = "read" /\ gval'[q] = AllGathers'[GNum(q, turn'[q]) + 1]
      BY <2>1, <2>2, <1>2, <1>3, <1>5
    <3>2. GatherRight(q)'
      BY <3>1 DEF GatherRight, GNum
    <3> QED BY <3>1, <3>2
  <2>3. CASE q # r
    <3>1. pc'[q] = pc[q] /\ gval'[q] = gval[q] /\ pc[q] \in {"get", "read"}
      BY <2>1, <2>3, <1>2 DEF Getting, At
    <3>2. GatherRight(q) => GatherRight(q)'
      BY <3>1, <1>2, <1>3, <1>4 DEF GatherRight, GNum
    <3> QED BY <3>1, <3>2, <1>1, <1>4
  <2> QED BY <2>2, <2>3
<1>7. Shapes'
  BY <1>2, <1>5 DEF Shapes, Steps
<1>8. Ready'
  <2>1. ASSUME NEW q \in Rank
        PROVE  HasState(q)'
    <3>1. StateRight(q)'
      BY <1>1, <1>2, <1>3 DEF StateRight, GNum, HasState
    <3> QED BY <3>1, <1>1, <1>2, <1>3 DEF HasState
  <2>2. Listed' /\ Filled'
    BY <1>1, <1>2, <1>3 DEF Listed, Filled
  <2> QED BY <2>1, <2>2 DEF Ready
<1>9. Turned(t)'
  <2>1. out' = OutUpto(Upto(t))' /\ wOffset' = OGSz * Upto(t)'
    BY <1>1, <1>2, <1>3 DEF Turned
  <2> QED BY <2>1, <1>1, <1>2 DEF Turned
<1>10. At({"get", "read"})'
  BY <1>6 DEF At
<1>11. iOffset' = TracesTo(Upto(t))' /\ t < Turns'
  BY <1>1, <1>2, <1>3
<1> QED BY <1>6, <1>7, <1>8, <1>9, <1>10, <1>11 DEF Getting

\* The work of turn t: which processes have a gather, and how many are dealt
\* with below them.
LEMMA TurnIs ==
  ASSUME line \in Lines, Listed, NEW t \in Nat, turn = [r \in Rank |-> t]
  PROVE  /\ t * NumRank \in Nat /\ Upto(t + 1) = Least(t * NumRank + NumRank, Size)
         /\ \A r \in Rank : /\ turn[r] = t /\ r \in Nat
                            /\ GNum(r, t) = t * NumRank + r
                            /\ Busy(r) <=> t * NumRank + r < Size
<1>1. Size \in Nat /\ \A r \in Rank : NumGather(r) = Share(Size, r)
  BY Known
<1>2. 0 \in Rank
  BY NumRankAssumption DEF Rank
<1>3. t * NumRank \in Nat /\ (t + 1) * NumRank = t * NumRank + NumRank
  BY <1>1, <1>2, BusyIs
<1>4. ASSUME NEW r \in Rank
      PROVE  /\ turn[r] = t /\ r \in Nat /\ GNum(r, t) = t * NumRank + r
             /\ Busy(r) <=> t * NumRank + r < Size
  <2>1. /\ GNum(r, t) = t * NumRank + r
        /\ t < Share(Size, r) <=> GNum(r, t) < Size
    BY <1>1, BusyIs
  <2>2. turn[r] = t /\ r \in Nat
    BY NumRankAssumption DEF Rank
  <2> QED BY <2>1, <2>2, <1>1 DEF Busy
<1> QED BY <1>3, <1>4 DEF Upto

\* What is read in turn t.
LEMMA ReadIs ==
  ASSUME Shapes, NEW t \in Nat, Getting(t), \A r \in Rank : pc[r] = "read"
  PROVE  /\ iOffset + SumBelow([q \in Rank |-> IGSz(q)], NumRank) = TracesTo(Upto(t + 1))
         /\ \A r \in Rank : FirstRead(r) .. FirstRead(r) + IGSz(r) - 1
                              = IF Busy(r) THEN Members(GNum(r, t)) ELSE {}
<1> DEFINE sz == Size
           x == t * NumRank
           f == [g \in 0 .. sz |-> TracesTo(g)]
           w == [q \in Rank |-> IGSz(q)]
           A == AllGathers
<1>1. /\ line \in Lines /\ Listed /\ turn = [q \in Rank |-> t] /\ iOffset = TracesTo(Upto(t))
      /\ \A q \in Rank : GatherRight(q)
  BY DEF Shapes, Getting, Ready, Turned
<1>2. /\ sz \in Nat /\ sz = Len(A)
      /\ \A g \in 0 .. sz : TracesTo(g) \in 0 .. Len(line)
      /\ \A g \in 0 .. sz - 1 : /\ A[g + 1] \in Gather
                                /\ TracesTo(g + 1) = TracesTo(g) + A[g + 1].n
                                /\ Members(g) = TracesTo(g) .. TracesTo(g) + A[g + 1].n - 1
  BY <1>1, Known DEF FileOK
<1>3. /\ x \in Nat /\ Upto(t + 1) = Least(x + NumRank, sz)
      /\ \A r \in Rank : /\ turn[r] = t /\ r \in Nat /\ GNum(r, t) = x + r
                         /\ Busy(r) <=> x + r < sz
  BY <1>1, TurnIs
<1>4. Upto(t) = Least(x, sz)
  BY DEF Upto
<1> HIDE DEF A, sz, x
<1>5. f \in [0 .. sz -> Nat]
  BY <1>2
<1>6. \A g \in 0 .. sz : f[g] = TracesTo(g)
  OBVIOUS
<1>7. ASSUME NEW k \in Rank
      PROVE  /\ w[k] = IGSz(k) /\ w[k] \in Nat
             /\ x + k < sz => /\ f[x + k + 1] = f[x + k] + w[k]
                              /\ f[x + k] = TracesTo(x + k)
                              /\ Members(GNum(k, t)) = f[x + k] .. f[x + k] + w[k] - 1
             /\ ~(x + k < sz) => w[k] = 0
  <2> DEFINE y == x + k
  <2>1. y \in Nat /\ w[k] = IGSz(k) /\ y + 1 = x + k + 1
    BY <1>3
  <2>2. CASE y < sz
    <3>1. y \in 0 .. sz - 1 /\ y \in 0 .. sz /\ y + 1 \in 0 .. sz
      BY <2>1, <2>2, <1>2
    <3>2. Busy(k) /\ GNum(k, turn[k]) = y /\ GNum(k, t) = y
      BY <2>2, <1>3
    <3>3. gval[k] = A[y + 1]
      BY <3>2, <1>1 DEF GatherRight, A
    <3>4. w[k] = A[y + 1].n
      BY <2>1, <3>2, <3>3 DEF IGSz
    <3> HIDE DEF y, w, f
    <3>5. A[y + 1].n \in Nat
      BY <3>1, <1>2 DEF Gather
    <3>6. f[y + 1] = f[y] + w[k] /\ f[y] = TracesTo(y) /\ Members(y) = f[y] .. f[y] + w[k] - 1
      BY <3>1, <3>4, <1>2, <1>6
    <3>7. f[x + k + 1] = f[y + 1]
      BY <2>1
    <3> QED BY <2>1, <2>2, <3>2, <3>4, <3>5, <3>6, <3>7 DEF y
  <2>3. CASE ~(y < sz)
    <3>1. ~Busy(k)
      BY <2>3, <1>3
    <3> QED BY <2>1, <2>3, <3>1 DEF IGSz
  <2> QED BY <2>2, <2>3
<1>8. DOMAIN w = Rank
  OBVIOUS
<1>9. \A k \in 0 .. NumRank : /\ SumBelow(w, k) \in Nat /\ f[Least(x, sz)] \in Nat
                              /\ f[Least(x, sz)] + SumBelow(w, k) = f[Least(x + k, sz)]
  <2> HIDE DEF f, w
  <2>1. \A k \in Rank : /\ w[k] \in Nat
                        /\ x + k < sz => f[x + k + 1] = f[x + k] + w[k]
                        /\ ~(x + k < sz) => w[k] = 0
    BY <1>7
  <2>2. Deals(sz, f, x, w)
    BY ONLY <2>1, <1>5, <1>8 DEF Deals
  <2>3. DealtBelow(sz, f, x, w)
    BY <2>2, <1>2, <1>3, SumFrom
  <2> QED BY <2>3 DEF DealtBelow
<1>10. iOffset = f[Least(x, sz)]
  <2>1. Least(x, sz) \in 0 .. sz
    BY <1>2, <1>3 DEF Least
  <2> QED BY <2>1, <1>1, <1>4, <1>6
<1>11. \A k \in 0 .. NumRank : iOffset + SumBelow(w, k) = f[Least(x + k, sz)] /\ iOffset + SumBelow(w, k) \in Nat
  <2> HIDE DEF f, w
  <2> QED BY <1>9, <1>10
<1>12. NumRank \in 0 .. NumRank /\ NumRank \in Nat
  BY NumRankAssumption
<1>13. iOffset + SumBelow(w, NumRank) = TracesTo(Upto(t + 1))
  <2>1. Least(x + NumRank, sz) \in 0 .. sz
    BY <1>2, <1>3, <1>12 DEF Least
  <2> HIDE DEF w
  <2> QED BY <2>1, <1>3, <1>6, <1>11, <1>12
<1>14. ASSUME NEW r \in Rank
       PROVE  FirstRead(r) .. FirstRead(r) + IGSz(r) - 1 = IF Busy(r) THEN Members(GNum(r, t)) ELSE {}
  <2> DEFINE a == FirstRead(r)
             y == x + r
  <2>1. r \in 0 .. NumRank
    BY <1>12 DEF Rank
  <2>2. a = f[Least(y, sz)] /\ a \in Nat
    <3>1. a = iOffset + SumBelow(w, r)
      BY DEF FirstRead
    <3> HIDE DEF a, f, w
    <3> QED BY <2>1, <3>1, <1>11
  <2>3. IGSz(r) = w[r]
    BY <1>7
  <2>4. y \in Nat
    BY <1>3
  <2>5. CASE y < sz
    <3>1. Least(y, sz) = y
      BY <2>5 DEF Least
    <3>2. Busy(r) /\ Members(GNum(r, t)) = f[y] .. f[y] + w[r] - 1
      BY <2>5, <1>3, <1>7
    <3> HIDE DEF a, f, w
    <3> QED BY <2>2, <2>3, <3>1, <3>2 DEF a
  <2>6. CASE ~(y < sz)
    <3>1. ~Busy(r) /\ IGSz(r) = 0
      BY <2>6, <2>3, <1>3, <1>7
    <3> HIDE DEF a
    <3>2. a + IGSz(r) - 1 = a - 1
      BY <2>2, <3>1
    <3>3. \A b \in Nat : b .. b - 1 = {}
      OBVIOUS
    <3>4. a .. a - 1 = {}
      BY <2>2, <3>3
    <3> QED BY <3>1, <3>2, <3>4 DEF a
  <2> QED BY <2>5, <2>6
<1> QED BY <1>13, <1>14

LEMMA ReadStep ==
  ASSUME Shapes, NEW t \in Nat, Getting(t), Read
  PROVE  Shapes' /\ Writing(t)'
<1>1. /\ line \in Lines /\ Ready /\ Listed /\ Filled /\ Turned(t) /\ t < Turns
      /\ turn = [q \in Rank |-> t]
      /\ \A q \in Rank : HasState(q)
  BY DEF Shapes, Getting, Ready, Turned
<1>2. /\ \A r \in Rank : pc[r] = "read"
      /\ block'   = [r \in Rank |-> FirstRead(r) .. FirstRead(r) + IGSz(r) - 1]
      /\ iOffset' = iOffset + SumBelow([q \in Rank |-> IGSz(q)], NumRank)
      /\ pc'      = [r \in Rank |-> "write"]
      /\ UNCHANGED <<line, lline, puts, vec, il, turn, gval, wOffset, out>>
  BY DEF Read
<1>3. /\ Size' = Size /\ AllGathers' = AllGathers /\ Turns' = Turns
      /\ \A q : Found(q)' = Found(q) /\ NumGather(q)' = NumGather(q)
      /\ \A g : Members(g)' = Members(g)
      /\ \A k : Upto(k)' = Upto(k) /\ OutUpto(k)' = OutUpto(k) /\ TracesTo(k)' = TracesTo(k)
  BY <1>2, Fixed
<1>4. \A q \in Rank : Busy(q)' <=> Busy(q)
  BY <1>2, <1>3 DEF Busy
<1>5. /\ iOffset' = TracesTo(Upto(t + 1))
      /\ \A r \in Rank : block'[r] = IF Busy(r) THEN Members(GNum(r, t)) ELSE {}
  BY <1>2, ReadIs
<1>6. ASSUME NEW r \in Rank
      PROVE  GatherRight(r)' /\ BlockRight(r)' /\ block'[r] \subseteq 0 .. Len(line) - 1
  <2>1. GatherRight(r)
    BY <1>2 DEF Getting
  <2>2. GatherRight(r)'
    BY <2>1, <1>2, <1>3, <1>4 DEF GatherRight, GNum
  <2>3. block'[r] = IF Busy(r) THEN Members(GNum(r, t)) ELSE {}
    BY <1>5
  <2>4. turn'[r] = t
    BY <1>1, <1>2
  <2>5. BlockRight(r)'
    <3>1. Members(GNum(r, turn[r]))' = Members(GNum(r, t))
      BY <2>4, <1>3 DEF GNum
    <3> QED BY <2>3, <3>1, <1>4 DEF BlockRight
  <2>6. block'[r] \subseteq 0 .. Len(line) - 1
    BY <2>3 DEF Members
  <2> QED BY <2>2, <2>5, <2>6
<1>7. Shapes'
  <2>1. block' \in [Rank -> SUBSET (0 .. Len(line) - 1)]
    BY <1>2, <1>6
  <2>2. pc' \in [Rank -> Steps]
    BY <1>2 DEF Steps
  <2> QED BY <1>2, <2>1, <2>2 DEF Shapes
<1>8. Ready'
  <2>1. ASSUME NEW q \in Rank
        PROVE  HasState(q)'
    <3>1. StateRight(q)'
      BY <1>1, <1>2, <1>3 DEF StateRight, GNum, HasState
    <3> QED BY <3>1, <1>1, <1>2, <1>3 DEF HasState
  <2>2. Listed' /\ Filled'
    BY <1>1, <1>2, <1>3 DEF Listed, Filled
  <2> QED BY <2>1, <2>2 DEF Ready
<1>9. Turned(t)'
  <2>1. out' = OutUpto(Upto(t))' /\ wOffset' = OGSz * Upto(t)'
    BY <1>1, <1>2, <1>3 DEF Turned
  <2> QED BY <2>1, <1>1, <1>2 DEF Turned
<1>10. At({"write"})'
  BY <1>2 DEF At
<1>11. iOffset' = TracesTo(Upto(t + 1))' /\ t < Turns'
  BY <1>1, <1>3, <1>5
<1> QED BY <1>6, <1>7, <1>8, <1>9, <1>10, <1>11 DEF Writing

\* Where the new traces go in turn t, and what they are given.
LEMMA WriteIs ==
  ASSUME Shapes, NEW t \in Nat, Writing(t)
  PROVE  /\ wOffset + SumBelow([q \in Rank |-> OutSz(q)], NumRank) = OGSz * Upto(t + 1)
         /\ \A r \in Rank : Busy(r) => /\ FirstWrite(r) = GNum(r, t) * OGSz
                                       /\ StateOf(r) = AllGathers[GNum(r, t) + 1].id
<1> DEFINE sz == Size
           x == t * NumRank
           f == [g \in 0 .. sz |-> OGSz * g]
           w == [q \in Rank |-> OutSz(q)]
<1>1. /\ line \in Lines /\ Listed /\ turn = [q \in Rank |-> t] /\ wOffset = OGSz * Upto(t)
      /\ \A q \in Rank : HasState(q)
  BY DEF Shapes, Writing, Ready, Turned
<1>2. sz \in Nat /\ OGSz \in Nat
  BY <1>1, Known, OGSzAssumption
<1>3. /\ x \in Nat /\ Upto(t + 1) = Least(x + NumRank, sz)
      /\ \A r \in Rank : /\ turn[r] = t /\ r \in Nat /\ GNum(r, t) = x + r
                         /\ Busy(r) <=> x + r < sz
  BY <1>1, TurnIs
<1>4. Upto(t) = Least(x, sz)
  BY DEF Upto
<1> HIDE DEF sz, x
<1>5. f \in [0 .. sz -> Nat]
  BY <1>2, TimesNat
<1>6. \A g \in 0 .. sz : f[g] = OGSz * g
  OBVIOUS
<1>7. ASSUME NEW k \in Rank
      PROVE  /\ w[k] = OutSz(k) /\ w[k] \in Nat
             /\ x + k < sz => f[x + k + 1] = f[x + k] + w[k]
             /\ ~(x + k < sz) => w[k] = 0
  <2> DEFINE y == x + k
  <2>1. y \in Nat /\ w[k] = OutSz(k) /\ y + 1 = x + k + 1
    BY <1>3
  <2>2. CASE y < sz
    <3>1. y \in 0 .. sz /\ y + 1 \in 0 .. sz
      BY <2>1, <2>2, <1>2
    <3>2. OutSz(k) = OGSz
      BY <2>2, <1>3 DEF OutSz
    <3>3. f[y] = OGSz * y /\ f[y + 1] = OGSz * (y + 1)
      BY <3>1, <1>6
    <3>4. OGSz * (y + 1) = OGSz * y + OGSz
      BY <1>2, <2>1
    <3> HIDE DEF y, w, f
    <3>5. f[y + 1] = f[y] + w[k]
      BY <2>1, <3>2, <3>3, <3>4
    <3>6. f[x + k + 1] = f[y + 1]
      BY <2>1
    <3> QED BY <2>1, <2>2, <3>2, <3>5, <3>6, <1>2 DEF y
  <2>3. CASE ~(y < sz)
    <3>1. ~Busy(k)
      BY <2>3, <1>3
    <3> QED BY <2>1, <2>3, <3>1 DEF OutSz
  <2> QED BY <2>2, <2>3
<1>8. DOMAIN w = Rank
  OBVIOUS
<1>9. \A k \in 0 .. NumRank : /\ SumBelow(w, k) \in Nat /\ f[Least(x, sz)] \in Nat
                              /\ f[Least(x, sz)] + SumBelow(w, k) = f[Least(x + k, sz)]
  <2> HIDE DEF f, w
  <2>1. \A k \in Rank : /\ w[k] \in Nat
                        /\ x + k < sz => f[x + k + 1] = f[x + k] + w[k]
                        /\ ~(x + k < sz) => w[k] = 0
    BY <1>7
  <2>2. Deals(sz, f, x, w)
    BY ONLY <2>1, <1>5, <1>8 DEF Deals
  <2>3. DealtBelow(sz, f, x, w)
    BY <2>2, <1>2, <1>3, SumFrom
  <2> QED BY <2>3 DEF DealtBelow
<1>10. wOffset = f[Least(x, sz)]
  <2>1. Least(x, sz) \in 0 .. sz
    BY <1>2, <1>3 DEF Least
  <2> QED BY <2>1, <1>1, <1>4, <1>6
<1>11. \A k \in 0 .. NumRank : wOffset + SumBelow(w, k) = f[Least(x + k, sz)]
  <2> HIDE DEF f, w
  <2> QED BY <1>9, <1>10
<1>12. NumRank \in 0 .. NumRank /\ NumRank \in Nat
  BY NumRankAssumption
<1>13. wOffset + SumBelow(w, NumRank) = OGSz * Upto(t + 1)
  <2>1. Least(x + NumRank, sz) \in 0 .. sz
    BY <1>2, <1>3, <1>12 DEF Least
  <2> HIDE DEF w
  <2> QED BY <2>1, <1>3, <1>6, <1>11, <1>12
<1>14. ASSUME NEW r \in Rank, Busy(r)
       PROVE  /\ FirstWrite(r) = GNum(r, t) * OGSz
              /\ StateOf(r) = AllGathers[GNum(r, t) + 1].id
  <2> DEFINE y == x + r
  <2>1. r \in 0 .. NumRank
    BY <1>12 DEF Rank
  <2>2. y \in 0 .. sz /\ y < sz /\ GNum(r, t) = y /\ turn[r] = t /\ y \in Nat
    BY <1>2, <1>3, <1>14
  <2>3. Least(y, sz) = y
    BY <2>2 DEF Least
  <2>4. FirstWrite(r) = OGSz * y
    <3>1. FirstWrite(r) = wOffset + SumBelow(w, r)
      BY DEF FirstWrite
    <3>2. wOffset + SumBelow(w, r) = f[Least(y, sz)]
      <4> HIDE DEF f, w
      <4> QED BY <2>1, <1>11
    <3> QED BY <3>1, <3>2, <2>2, <2>3, <1>6
  <2>5. OGSz * y = y * OGSz
    BY <1>2, <2>2
  <2>6. t + 1 \in 1 .. Len(il[r]) /\ (t + 1) - 1 = t
    <3>1. t < NumGather(r) /\ Len(il[r]) = NumGather(r)
      BY <1>1, <1>14, <2>2 DEF Busy, HasState
    <3>2. NumGather(r) \in Nat
      BY <1>1, Known
    <3> QED BY <3>1, <3>2
  <2>7. il[r][t + 1] = AllGathers[GNum(r, t) + 1]
    <3> DEFINE i == t + 1
    <3>1. i \in 1 .. Len(il[r]) /\ i - 1 = t
      BY <2>6
    <3> HIDE DEF i
    <3>2. il[r][i] = AllGathers[GNum(r, i - 1) + 1]
      BY <3>1, <1>1 DEF HasState, StateRight
    <3> QED BY <3>1, <3>2 DEF i
  <2> QED BY <2>2, <2>4, <2>5, <2>7 DEF StateOf
<1> QED BY <1>13, <1>14

\* What the processes write in a turn is what the gathers of the turn give.
LEMMA OutIs ==
  ASSUME Shapes, NEW t \in Nat, Writing(t)
  PROVE  out \cup UNION {{<<FirstWrite(r) + j, StateOf(r)>> : j \in 0 .. OutSz(r) - 1} : r \in Rank}
           = OutUpto(Upto(t + 1))
<1> DEFINE sz == Size
           x == t * NumRank
           n == NumRank
           a == Least(x, sz)
           b == Least(x + n, sz)
           B(g) == {<<(g - 1) * OGSz + j, AllGathers[g].id>> : j \in 0 .. OGSz - 1}
           C(r) == {<<FirstWrite(r) + j, StateOf(r)>> : j \in 0 .. OutSz(r) - 1}
<1>1. line \in Lines /\ Listed /\ turn = [q \in Rank |-> t] /\ out = OutUpto(Upto(t))
  BY DEF Shapes, Writing, Ready, Turned
<1>2. sz \in Nat /\ n \in Nat /\ Rank = 0 .. n - 1
  BY <1>1, Known, NumRankAssumption DEF Rank
<1>3. /\ x \in Nat /\ Upto(t + 1) = b
      /\ \A r \in Rank : /\ r \in Nat /\ GNum(r, t) = x + r /\ (Busy(r) <=> x + r < sz)
  BY <1>1, TurnIs
<1>4. Upto(t) = a
  BY DEF Upto
<1>5. out = UNION {B(g) : g \in 1 .. a} /\ OutUpto(Upto(t + 1)) = UNION {B(g) : g \in 1 .. b}
  BY <1>1, <1>3, <1>4 DEF OutUpto
<1>6. ASSUME NEW r \in Rank
      PROVE  C(r) = IF x + r < sz THEN B(x + r + 1) ELSE {}
  <2> DEFINE g == x + r + 1
  <2>1. CASE x + r < sz
    <3>1. FirstWrite(r) = GNum(r, t) * OGSz /\ StateOf(r) = AllGathers[GNum(r, t) + 1].id /\ OutSz(r) = OGSz
      BY <2>1, <1>3, WriteIs DEF OutSz
    <3>2. GNum(r, t) = g - 1 /\ GNum(r, t) + 1 = g
      BY <1>3
    <3> HIDE DEF g
    <3>3. FirstWrite(r) = (g - 1) * OGSz /\ StateOf(r) = AllGathers[g].id
      BY ONLY <3>1, <3>2
    <3>4. C(r) = B(g)
      BY <3>1, <3>3
    <3> QED BY <2>1, <3>4 DEF g
  <2>2. CASE ~(x + r < sz)
    <3>1. OutSz(r) = 0
      BY <2>2, <1>3 DEF OutSz
    <3>2. 0 .. OutSz(r) - 1 = {}
      BY <3>1
    <3> QED BY <2>2, <3>2
  <2> QED BY <2>1, <2>2
<1>7. \A g : g \in 1 .. b <=> g \in 1 .. a \/ \E r \in Rank : x + r < sz /\ g = x + r + 1
  <2> TAKE g
  <2> HIDE DEF sz, x, n
  <2>1. a \in Nat /\ b \in Nat /\ a <= b /\ a <= x /\ (x < sz => a = x) /\ (~(x < sz) => b = a)
        /\ b <= sz /\ b <= x + n
    BY ONLY <1>2, <1>3 DEF Least
  <2>2. ASSUME g \in 1 .. b, g \notin 1 .. a
        PROVE  \E r \in Rank : x + r < sz /\ g = x + r + 1
    <3> DEFINE r == g - 1 - x
    <3>1. x < sz /\ a = x
      BY ONLY <2>1, <2>2, <1>2, <1>3
    <3>2. r \in Rank /\ x + r < sz /\ g = x + r + 1
      BY ONLY <2>1, <2>2, <3>1, <1>2, <1>3
    <3> QED BY <3>2
  <2>3. ASSUME NEW r \in Rank, x + r < sz, g = x + r + 1
        PROVE  g \in 1 .. b
    BY ONLY <1>2, <1>3, <2>3 DEF Least
  <2>4. g \in 1 .. a => g \in 1 .. b
    BY ONLY <2>1
  <2> QED BY <2>2, <2>3, <2>4
<1> HIDE DEF B, C, a, b, x, sz, n
<1>8. (UNION {B(g) : g \in 1 .. a}) \cup (UNION {C(r) : r \in Rank}) = UNION {B(g) : g \in 1 .. b}
  <2>1. ASSUME NEW c, c \in UNION {B(g) : g \in 1 .. b}
        PROVE  c \in (UNION {B(g) : g \in 1 .. a}) \cup (UNION {C(r) : r \in Rank})
    <3>1. PICK g \in 1 .. b : c \in B(g)
      BY <2>1
    <3>2. CASE g \in 1 .. a
      BY <3>1, <3>2
    <3>3. CASE g \notin 1 .. a
      <4>1. PICK r \in Rank : x + r < sz /\ g = x + r + 1
        BY <3>3, <1>7
      <4>2. C(r) = B(g)
        BY <4>1, <1>6
      <4> QED BY <3>1, <4>2
    <3> QED BY <3>2, <3>3
  <2>2. ASSUME NEW g \in 1 .. a
        PROVE  g \in 1 .. b
    BY <1>7
  <2>3. ASSUME NEW r \in Rank, NEW c \in C(r)
        PROVE  \E g \in 1 .. b : c \in B(g)
    <3>1. x + r < sz /\ c \in B(x + r + 1)
      BY <1>6
    <3> DEFINE g == x + r + 1
    <3>2. g \in 1 .. b
      BY <3>1, <1>7
    <3> QED BY <3>1, <3>2
  <2> QED BY <2>1, <2>2, <2>3
<1> QED BY <1>5, <1>8 DEF C

LEMMA WriteStep ==
  ASSUME Shapes, NEW t \in Nat, Writing(t), Write
  PROVE  Shapes' /\ (Getting(t + 1)' \/ Ended(t + 1)')
<1> DEFINE u == t + 1
<1>1. /\ line \in Lines /\ Ready /\ Listed /\ Filled /\ t < Turns
      /\ turn = [q \in Rank |-> t] /\ iOffset = TracesTo(Upto(u))
      /\ \A q \in Rank : HasState(q)
  BY DEF Shapes, Writing, Ready, Turned
<1>2. /\ out' = out \cup UNION {{<<FirstWrite(r) + j, StateOf(r)>> : j \in 0 .. OutSz(r) - 1} : r \in Rank}
      /\ wOffset' = wOffset + SumBelow([q \in Rank |-> OutSz(q)], NumRank)
      /\ turn'    = [r \in Rank |-> turn[r] + 1]
      /\ pc'      = [r \in Rank |-> AfterTurn(r, turn[r] + 1)]
      /\ UNCHANGED <<line, lline, puts, vec, il, gval, iOffset, block>>
  BY DEF Write
<1>3. /\ Size' = Size /\ AllGathers' = AllGathers /\ Turns' = Turns
      /\ \A q : Found(q)' = Found(q) /\ NumGather(q)' = NumGather(q)
      /\ \A k : Upto(k)' = Upto(k) /\ OutUpto(k)' = OutUpto(k) /\ TracesTo(k)' = TracesTo(k)
  BY <1>2, Fixed
<1>4. out' = OutUpto(Upto(u)) /\ wOffset' = OGSz * Upto(u)
  <2>1. out' = OutUpto(Upto(t + 1))
    BY <1>2, OutIs
  <2>2. wOffset' = OGSz * Upto(t + 1)
    BY <1>2, WriteIs
  <2> QED BY <2>1, <2>2
<1>5. turn' = [r \in Rank |-> u] /\ pc' = [r \in Rank |-> AfterTurn(r, u)]
  BY <1>1, <1>2
<1>6. Size \in Nat /\ u \in Nat /\ u <= Turns
  <2>1. Size \in Nat
    BY <1>1, Known
  <2>2. Turns \in Nat
    BY <2>1, TurnsAre
  <2> QED BY <2>1, <2>2, <1>1
<1> HIDE DEF u
<1>7. /\ pc' \in [Rank -> Steps]
      /\ u < Turns => At({"get", "read"})'
      /\ u = Turns => At({"done"})'
      /\ \A r \in Rank : /\ pc'[r] = "get" => Busy(r)'
                         /\ pc'[r] = "read" => ~Busy(r)'
      /\ u < Turns \/ u = Turns
  BY <1>2, <1>5, <1>6, NextTurn
<1>8. Turned(u)'
  BY <1>3, <1>4, <1>5 DEF Turned
<1>9. Ready'
  <2>1. ASSUME NEW q \in Rank
        PROVE  HasState(q)'
    <3>1. StateRight(q)'
      BY <1>1, <1>2, <1>3 DEF StateRight, GNum, HasState
    <3> QED BY <3>1, <1>1, <1>2, <1>3 DEF HasState
  <2>2. Listed' /\ Filled'
    BY <1>1, <1>2, <1>3 DEF Listed, Filled
  <2> QED BY <2>1, <2>2 DEF Ready
<1>10. iOffset' = TracesTo(Upto(u))'
  BY <1>1, <1>2, <1>3
<1>11. Shapes'
  BY <1>2, <1>7 DEF Shapes
<1>12. CASE u < Turns
  <2>1. \A r \in Rank : /\ pc'[r] = "get" => Busy(r)'
                        /\ pc'[r] = "read" => GatherRight(r)'
    BY <1>7 DEF GatherRight
  <2>2. Getting(u)'
    BY <1>3, <1>7, <1>8, <1>9, <1>10, <1>12, <2>1 DEF Getting
  <2> QED BY <2>2, <1>11 DEF u
<1>13. CASE u = Turns
  <2>1. Ended(u)'
    BY <1>3, <1>7, <1>8, <1>9, <1>10, <1>13 DEF Ended
  <2> QED BY <2>1, <1>11 DEF u
<1> QED BY <1>7, <1>12, <1>13

\* The step of one process tells the phase of all.
LEMMA PhaseOf ==
  ASSUME IInv, NEW r \in Rank
  PROVE  /\ pc[r] = "exchange" => Finding
         /\ pc[r] \in {"set", "open"} => Putting
         /\ pc[r] \in {"state", "model"} => Stating
         /\ pc[r] \in {"get", "read"} => \E t \in Nat : Getting(t)
         /\ pc[r] = "write" => \E t \in Nat : Writing(t)
         /\ pc[r] = "done" => \E t \in Nat : Ended(t)
<1>1. Finding => pc[r] = "exchange"
  BY DEF Finding, At
<1>2. Putting => pc[r] \in {"set", "open"}
  BY DEF Putting, At
<1>3. Stating => pc[r] \in {"state", "model"}
  BY DEF Stating, At
<1>4. \A t \in Nat : /\ Getting(t) => pc[r] \in {"get", "read"}
                     /\ Writing(t) => pc[r] = "write"
                     /\ Ended(t) => pc[r] = "done"
  BY DEF Getting, Writing, Ended, At
<1>5. Finding \/ Putting \/ Stating \/ \E t \in Nat : Getting(t) \/ Writing(t) \/ Ended(t)
  BY DEF IInv
<1> QED BY <1>1, <1>2, <1>3, <1>4, <1>5

\* A step that changes nothing keeps the invariant.
LEMMA Stutter ==
  ASSUME IInv, UNCHANGED vars
  PROVE  IInv'
<1>1. /\ line' = line /\ pc' = pc /\ lline' = lline /\ puts' = puts /\ vec' = vec /\ il' = il
      /\ turn' = turn /\ gval' = gval /\ iOffset' = iOffset /\ wOffset' = wOffset
      /\ block' = block /\ out' = out
  BY DEF vars
<1>2. /\ Size' = Size /\ AllGathers' = AllGathers /\ Turns' = Turns
      /\ \A r : Offset(r)' = Offset(r) /\ Found(r)' = Found(r)
      /\ \A r : NumGather(r)' = NumGather(r)
      /\ \A g : Members(g)' = Members(g) /\ TracesTo(g)' = TracesTo(g)
      /\ \A t : Upto(t)' = Upto(t) /\ OutUpto(t)' = OutUpto(t)
  BY <1>1, Fixed
<1>3. Shapes'
  BY <1>1 DEF IInv, Shapes
<1>4. \A S : At(S)' <=> At(S)
  BY <1>1 DEF At
<1>5. /\ Listed' <=> Listed
      /\ Filled' <=> Filled
      /\ NoLists' <=> NoLists
      /\ NoState' <=> NoState
      /\ NoTurns' <=> NoTurns
  BY <1>1, <1>2 DEF Listed, Filled, NoLists, NoState, NoTurns
<1>6. ASSUME NEW r \in Rank
      PROVE  /\ PutRight(r) => PutRight(r)'
             /\ StateRight(r) => StateRight(r)'
             /\ HasState(r) => HasState(r)'
             /\ Busy(r)' <=> Busy(r)
             /\ GatherRight(r) => GatherRight(r)'
             /\ BlockRight(r) => BlockRight(r)'
  <2>1. PutRight(r) => PutRight(r)'
    BY <1>1, <1>2 DEF PutRight
  <2>2. StateRight(r) => StateRight(r)'
    BY <1>1, <1>2 DEF StateRight, GNum
  <2>3. HasState(r) => HasState(r)'
    BY <2>2, <1>1, <1>2 DEF HasState
  <2>4. Busy(r)' <=> Busy(r)
    BY <1>1, <1>2 DEF Busy
  <2>5. GatherRight(r) => GatherRight(r)'
    BY <2>4, <1>1, <1>2 DEF GatherRight, GNum
  <2>6. BlockRight(r) => BlockRight(r)'
    <3>1. Members(GNum(r, turn[r]))' = Members(GNum(r, turn[r]))
      BY <1>1, <1>2 DEF GNum
    <3> QED BY <3>1, <2>4, <1>1 DEF BlockRight
  <2> QED BY <2>1, <2>2, <2>3, <2>4, <2>5, <2>6
<1>7. Ready => Ready'
  BY <1>5, <1>6 DEF Ready
<1>8. ASSUME NEW t \in Nat
      PROVE  /\ Turned(t) => Turned(t)'
             /\ Getting(t) => Getting(t)'
             /\ Writing(t) => Writing(t)'
             /\ Ended(t) => Ended(t)'
  <2>1. Turned(t) => Turned(t)'
    <3>1. OutUpto(Upto(t))' = OutUpto(Upto(t)) /\ Upto(t)' = Upto(t)
      BY <1>2
    <3> QED BY <3>1, <1>1 DEF Turned
  <2>2. TracesTo(Upto(t))' = TracesTo(Upto(t)) /\ TracesTo(Upto(t + 1))' = TracesTo(Upto(t + 1))
    BY <1>2
  <2>3. Getting(t) => Getting(t)'
    BY <2>1, <2>2, <1>1, <1>2, <1>4, <1>6, <1>7 DEF Getting
  <2>4. Writing(t) => Writing(t)'
    BY <2>1, <2>2, <1>1, <1>2, <1>4, <1>6, <1>7 DEF Writing
  <2>5. Ended(t) => Ended(t)'
    BY <2>1, <2>2, <1>1, <1>2, <1>4, <1>6, <1>7 DEF Ended
  <2> QED BY <2>1, <2>3, <2>4, <2>5
<1>9. (Finding => Finding') /\ (Putting => Putting')
  BY <1>4, <1>5, <1>6 DEF Finding, Putting
<1>10. Stating => Stating'
  BY <1>1, <1>2, <1>4, <1>5, <1>6 DEF Stating
<1> QED BY <1>3, <1>8, <1>9, <1>10 DEF IInv

\* The invariant is inductive.
LEMMA NextInv == IInv /\ [Next]_vars => IInv'
<1> SUFFICES ASSUME IInv, [Next]_vars
             PROVE  IInv'
  OBVIOUS
<1>1. Shapes /\ 0 \in Rank
  BY NumRankAssumption DEF IInv, Rank
<1>2. CASE Exchange
  <2>1. Finding
    BY <1>1, <1>2, PhaseOf DEF Exchange
  <2> QED BY <1>1, <1>2, <2>1, ExchangeStep DEF IInv
<1>3. CASE Open
  <2>1. Putting
    BY <1>1, <1>3, PhaseOf DEF Open
  <2> QED BY <1>1, <1>3, <2>1, OpenStep DEF IInv
<1>4. CASE Model
  <2>1. Stating
    BY <1>1, <1>4, PhaseOf DEF Model
  <2>2. Shapes' /\ (Getting(0)' \/ Ended(0)')
    BY <1>1, <1>4, <2>1, ModelStep
  <2> QED BY <2>2 DEF IInv
<1>5. CASE Read
  <2>1. PICK t \in Nat : Getting(t)
    BY <1>1, <1>5, PhaseOf DEF Read
  <2>2. Shapes' /\ Writing(t)'
    BY <1>1, <1>5, <2>1, ReadStep
  <2> QED BY <2>2 DEF IInv
<1>6. CASE Write
  <2>1. PICK t \in Nat : Writing(t)
    BY <1>1, <1>6, PhaseOf DEF Write
  <2> DEFINE u == t + 1
  <2>2. u \in Nat
    OBVIOUS
  <2>3. Shapes' /\ (Getting(u)' \/ Ended(u)')
    BY <1>1, <1>6, <2>1, WriteStep
  <2> HIDE DEF u
  <2> QED BY <2>2, <2>3 DEF IInv
<1>7. ASSUME NEW r \in Rank, Set(r)
      PROVE  IInv'
  <2>1. Putting
    BY <1>7, PhaseOf DEF Set
  <2> QED BY <1>1, <1>7, <2>1, SetStep DEF IInv
<1>8. ASSUME NEW r \in Rank, State(r)
      PROVE  IInv'
  <2>1. Stating
    BY <1>8, PhaseOf DEF State
  <2> QED BY <1>1, <1>8, <2>1, StateStep DEF IInv
<1>9. ASSUME NEW r \in Rank, NextGather(r)
      PROVE  IInv'
  <2>1. PICK t \in Nat : Getting(t)
    BY <1>9, PhaseOf DEF NextGather
  <2>2. Shapes' /\ Getting(t)'
    BY <1>1, <1>9, <2>1, NextGatherStep
  <2> QED BY <2>2 DEF IInv
<1>10. CASE Finished
  BY <1>10, Stutter DEF Finished
<1>11. CASE UNCHANGED vars
  BY <1>11, Stutter
<1> QED BY <1>2, <1>3, <1>4, <1>5, <1>6, <1>7, <1>8, <1>9, <1>10, <1>11 DEF Next

(***************************************************************************)
(* The invariant holds of every file, every number of processes and every  *)
(* size of the output of the operation.                                    *)
(***************************************************************************)
THEOREM Inductive == Spec => []IInv
  BY InitInv, NextInv, PTL DEF Spec

-----------------------------------------------------------------------------
(***************************************************************************)
(* What follows from it.                                                   *)
(***************************************************************************)
LEMMA UptoIs ==
  ASSUME line \in Lines, Listed, NEW t \in Nat
  PROVE  /\ Upto(t) \in 0 .. Size /\ Upto(t) \in Nat /\ Upto(t) <= Len(line)
         /\ TracesTo(Upto(t)) \in 0 .. Len(line)
         /\ OutUpto(Upto(t)) \subseteq Nat \X Nat
         /\ OGSz * Upto(t) \in 0 .. OGSz * Len(line)
<1>1. /\ Size \in Nat /\ Size = Len(AllGathers) /\ Size <= Len(line) /\ Len(line) \in Nat
      /\ \A g \in 0 .. Size : TracesTo(g) \in 0 .. Len(line)
      /\ \A g \in 0 .. Size - 1 : AllGathers[g + 1] \in Gather
  BY Known DEF FileOK
<1>2. 0 \in Rank
  BY NumRankAssumption DEF Rank
<1>3. t * NumRank \in Nat
  BY <1>1, <1>2, BusyIs
<1> DEFINE x == t * NumRank
           k == Upto(t)
<1>4. k = Least(x, Size)
  BY DEF Upto
<1> HIDE DEF x, k
<1>5. k \in 0 .. Size /\ k \in Nat /\ k <= Len(line)
  BY <1>1, <1>3, <1>4 DEF Least, x
<1>6. OutUpto(k) \subseteq Nat \X Nat
  <2>1. ASSUME NEW g \in 1 .. k, NEW j \in 0 .. OGSz - 1
        PROVE  <<(g - 1) * OGSz + j, AllGathers[g].id>> \in Nat \X Nat
    <3> DEFINE h == g - 1
    <3>1. h \in 0 .. Size - 1 /\ h \in Nat /\ h + 1 = g
      BY <1>1, <1>5
    <3> HIDE DEF h
    <3>2. AllGathers[g] \in Gather
      BY <3>1, <1>1
    <3>3. h * OGSz \in Nat
      BY <3>1, OGSzAssumption, TimesNat
    <3>4. h * OGSz + j \in Nat
      BY <3>3, OGSzAssumption
    <3>5. AllGathers[g].id \in Nat
      BY <3>2 DEF Gather
    <3> QED BY <3>4, <3>5 DEF h
  <2> QED BY <2>1 DEF OutUpto
<1>7. OGSz * k \in 0 .. OGSz * Len(line)
  <2>1. OGSz * k \in Nat /\ OGSz * Len(line) \in Nat /\ OGSz * k <= OGSz * Len(line)
    BY <1>1, <1>5, OGSzAssumption, TimesNat, TimesMonotone
  <2> QED BY <2>1
<1> QED BY <1>1, <1>5, <1>6, <1>7 DEF k

LEMMA TurnTyped ==
  ASSUME line \in Lines, Listed, NEW t \in Nat, Turned(t), t <= Turns
  PROVE  /\ \A r \in Rank : turn[r] \in 0 .. Len(line)
         /\ wOffset \in 0 .. OGSz * Len(line) /\ out \subseteq Nat \X Nat
<1>1. Size \in Nat /\ Size <= Len(line) /\ Len(line) \in Nat
  BY Known DEF FileOK
<1>2. Turns \in Nat /\ Turns <= Size
  BY <1>1, TurnsAre
<1>3. t \in 0 .. Len(line)
  BY <1>1, <1>2
<1> QED BY <1>3, UptoIs DEF Turned

(***************************************************************************)
(* Type correctness.  The counts of traces stay in the file, and those of  *)
(* the output in what OGSz traces for each trace of the file would take.   *)
(***************************************************************************)
THEOREM TypesKept == Spec => []TypeOK
<1>1. IInv => TypeOK
  <2> SUFFICES ASSUME IInv
               PROVE  TypeOK
    OBVIOUS
  <2>1. Shapes
    BY DEF IInv
  <2>2. /\ line \in Lines /\ Len(line) \in Nat
        /\ pc \in [Rank -> Steps]
        /\ \A r \in Rank : /\ lline[r] \in Seq(Gather) /\ vec[r] \in Seq(Gather)
                           /\ il[r] \in Seq(Gather) /\ gval[r] \in Gather
                           /\ block[r] \subseteq 0 .. Len(line) - 1
    BY <2>1, LinesAssumption, LenProperties DEF Shapes
  <2>3. ASSUME NEW r \in Rank
        PROVE  puts[r] \in 0 .. Len(lline[r])
    <3>1. puts[r] \in Nat /\ puts[r] <= Len(lline[r]) /\ lline[r] \in Seq(Gather)
      BY <2>1 DEF Shapes
    <3>2. Len(lline[r]) \in Nat
      BY <3>1, LenProperties
    <3> QED BY <3>1, <3>2
  <2>4. /\ \A r \in Rank : turn[r] \in 0 .. Len(line)
        /\ iOffset \in 0 .. Len(line)
        /\ wOffset \in 0 .. OGSz * Len(line) /\ out \subseteq Nat \X Nat
    <3>1. CASE NoTurns
      <4>1. OGSz * Len(line) \in Nat
        BY <2>2, OGSzAssumption, TimesNat
      <4> QED BY <3>1, <4>1, <2>2 DEF NoTurns
    <3>2. ASSUME NEW t \in Nat, Getting(t) \/ Writing(t) \/ Ended(t)
          PROVE  /\ \A r \in Rank : turn[r] \in 0 .. Len(line)
                 /\ iOffset \in 0 .. Len(line)
                 /\ wOffset \in 0 .. OGSz * Len(line) /\ out \subseteq Nat \X Nat
      <4>1. Listed /\ Turned(t) /\ (iOffset = TracesTo(Upto(t)) \/ iOffset = TracesTo(Upto(t + 1)))
        BY <3>2 DEF Getting, Writing, Ended, Ready
      <4>2. t <= Turns
        <5>1. Turns \in Nat
          BY <2>2, <4>1, Known, TurnsAre
        <5> QED BY <5>1, <3>2 DEF Getting, Writing, Ended
      <4>3. TracesTo(Upto(t)) \in 0 .. Len(line)
        BY <2>2, <4>1, UptoIs
      <4> DEFINE u == t + 1
      <4>4. u \in Nat
        OBVIOUS
      <4>5. TracesTo(Upto(u)) \in 0 .. Len(line)
        <5> HIDE DEF u
        <5> QED BY <2>2, <4>1, <4>4, UptoIs
      <4>6. iOffset \in 0 .. Len(line)
        BY <4>1, <4>3, <4>5
      <4> QED BY <2>2, <4>1, <4>2, <4>6, TurnTyped
    <3>3. NoTurns \/ \E t \in Nat : Getting(t) \/ Writing(t) \/ Ended(t)
      BY DEF IInv, Finding, Putting, Stating
    <3> QED BY <3>1, <3>2, <3>3
  <2> QED BY <2>2, <2>3, <2>4 DEF TypeOK, Steps
<1> QED BY <1>1, Inductive, PTL

(***************************************************************************)
(* When no process is about to put a gather, the global array is the list  *)
(* of the gathers of the file, however the file is cut into gathers and    *)
(* dealt to processes.                                                     *)
(***************************************************************************)
THEOREM ArrayAlwaysComplete == Spec => []ArrayComplete
<1>1. IInv => ArrayComplete
  <2> SUFFICES ASSUME IInv, \A r \in Rank : pc[r] \notin {"exchange", "set"}
               PROVE  /\ Size = Len(AllGathers)
                      /\ \A g \in 0 .. Size - 1 : Get(vec, Size, g) = AllGathers[g + 1]
    BY DEF ArrayComplete
  <2>1. 0 \in Rank /\ Shapes /\ line \in Lines
    BY NumRankAssumption DEF IInv, Rank, Shapes
  <2>2. ~Finding
    BY <2>1 DEF Finding, At
  <2>3. CASE Putting
    <3>1. \A r \in Rank : pc[r] = "open"
      BY <2>3 DEF Putting, At
    <3>2. Filled /\ Listed
      BY <2>1, <2>3, <3>1, AllPut DEF Putting
    <3> QED BY <2>1, <3>2, Known DEF Filled
  <2>4. CASE Listed /\ Filled
    BY <2>1, <2>4, Known DEF Filled
  <2> QED BY <2>2, <2>3, <2>4 DEF IInv, Stating, Getting, Writing, Ended, Ready
<1> QED BY <1>1, Inductive, PTL

(***************************************************************************)
(* No process gets an element of the array that has not been put: what it  *)
(* has got is a gather of the file, and the one that its number names.     *)
(***************************************************************************)
THEOREM GetsAlwaysWhole == Spec => []WholeGets
<1>1. IInv => WholeGets
  <2> SUFFICES ASSUME IInv, NEW r \in Rank
               PROVE  /\ StateRight(r)
                      /\ pc[r] \in {"read", "write"} => GatherRight(r)
    BY DEF WholeGets, StateRight, GatherRight
  <2>1. StateRight(r)
    <3>1. CASE NoState
      <4>1. il[r] = <<>>
        BY <3>1 DEF NoState
      <4>2. 1 .. Len(il[r]) = {}
        BY <4>1
      <4> QED BY <4>2 DEF StateRight
    <3>2. CASE Stating
      BY <3>2 DEF Stating
    <3>3. CASE Ready
      BY <3>3 DEF Ready, HasState
    <3> QED BY <3>1, <3>2, <3>3 DEF IInv, Finding, Putting, Getting, Writing, Ended
  <2>2. CASE pc[r] = "read"
    <3>1. PICK t \in Nat : Getting(t)
      BY <2>2, PhaseOf
    <3> QED BY <2>1, <2>2, <3>1 DEF Getting
  <2>3. CASE pc[r] = "write"
    <3>1. PICK t \in Nat : Writing(t)
      BY <2>3, PhaseOf
    <3> QED BY <2>1, <3>1 DEF Writing
  <2> QED BY <2>1, <2>2, <2>3
<1> QED BY <1>1, Inductive, PTL

(***************************************************************************)
(* A process works on the traces of its gather, all of them and no others, *)
(* whoever holds them.                                                     *)
(***************************************************************************)
THEOREM TracesAlwaysRight == Spec => []RightTraces
<1>1. IInv => RightTraces
  <2> SUFFICES ASSUME IInv, NEW r \in Rank, pc[r] = "write"
               PROVE  BlockRight(r)
    BY DEF RightTraces, BlockRight
  <2>1. PICK t \in Nat : Writing(t)
    BY PhaseOf
  <2> QED BY <2>1 DEF Writing
<1> QED BY <1>1, Inductive, PTL

(***************************************************************************)
(* The finished output has the new traces of all gathers in the order of   *)
(* the gathers, each under the inline and crossline of its own gather.     *)
(***************************************************************************)
THEOREM OutputAlwaysByGather == Spec => []OutputByGather
<1>1. IInv => OutputByGather
  <2> SUFFICES ASSUME IInv, \A r \in Rank : pc[r] = "done"
               PROVE  out = OutUpto(Len(AllGathers))
    BY DEF OutputByGather, OutUpto
  <2>1. 0 \in Rank /\ line \in Lines
    BY NumRankAssumption DEF IInv, Rank, Shapes
  <2>2. PICK t \in Nat : Ended(t)
    BY <2>1, PhaseOf
  <2>3. Listed /\ out = OutUpto(Upto(t)) /\ t = Turns
    BY <2>2 DEF Ended, Ready, Turned
  <2>4. Size \in Nat /\ Size = Len(AllGathers)
    BY <2>1, <2>3, Known
  <2>5. t * NumRank \in Nat /\ Size <= t * NumRank
    <3>1. Turns \in Nat /\ \A u \in Nat : u >= Turns => u * NumRank \in Nat /\ Size <= u * NumRank
      BY <2>4, TurnsAre
    <3> QED BY <3>1, <2>3
  <2>6. Upto(t) = Size
    <3> DEFINE x == t * NumRank
    <3> HIDE DEF x
    <3>1. x \in Nat /\ Size <= x
      BY <2>5 DEF x
    <3>2. Least(x, Size) = Size
      BY ONLY <2>4, <3>1 DEF Least
    <3> QED BY <3>2 DEF Upto, x
  <2> QED BY <2>3, <2>4, <2>6
<1> QED BY <1>1, Inductive, PTL
=============================================================================
