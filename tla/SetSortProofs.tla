---------------------------- MODULE SetSortProofs ----------------------------
(***************************************************************************)
(* The output of a set of files.                                           *)
(*                                                                         *)
(* SetSort, for any number of processes, any files, keys and blocks: no    *)
(* place is written twice, every write ascends, and the finished output    *)
(* has every trace once and their number in its header.  Nothing is        *)
(* assumed of the files for this, nor for the order of files that are only *)
(* put behind each other.  For the order of the keys every process needs   *)
(* four headers, so that neighbours exchange some in a round, and the      *)
(* numbers that the cache gives to the headers have to ascend (Rising),    *)
(* which they do for files of one size.  Rounds that end then leave the    *)
(* headers in order over all processes, and the second sort brings each    *)
(* place to its trace; otherwise each trace still gets a place of its own, *)
(* but perhaps not its own place.                                          *)
(*                                                                         *)
(* FunctionList, for any files and groups, any deferred operations and any *)
(* number of outputs: callers who keep to WellUsed get every part with     *)
(* every operation applied once and in order, and no sort works on headers *)
(* of files the set no longer has.                                         *)
(***************************************************************************)
EXTENDS SetSort, FunctionList, SharedFacts, SequenceTheorems

-----------------------------------------------------------------------------
(***************************************************************************)
(* The traces of a set, and those a process works on.                      *)
(***************************************************************************)
LEMMA SetFacts ==
  ASSUME set \in Sets
  PROVE  /\ Len(set.nts) \in Nat \ {0} /\ Files = DOMAIN set.nts
         /\ \A f \in Files : f \in Nat /\ Nt(f) \in Nat
         /\ \A h : h \in Traces <=> \E f \in Files : \E t \in 0 .. Nt(f) - 1 : h = <<f, t>>
<1>1. set.nts \in Seq(Nat) /\ set.nts # <<>>
  BY SetsAssumption
<1>2. Len(set.nts) \in Nat \ {0} /\ DOMAIN set.nts = 1 .. Len(set.nts)
  BY <1>1
<1>3. \A f \in DOMAIN set.nts : set.nts[f] \in Nat
  BY <1>1
<1> QED BY <1>2, <1>3 DEF Files, Nt, Traces, TracesOf

LEMMA LocalFacts ==
  ASSUME set \in Sets, NEW f \in Files, NEW r \in Rank
  PROVE  /\ Lnt(f, r) \in Nat /\ First(Nt(f), r) \in Nat
         /\ Ilst(f, r) \in [1 .. Lnt(f, r) -> Nat]
         /\ \A i \in 1 .. Lnt(f, r) :
              /\ Ilst(f, r)[i] = First(Nt(f), r) + i - 1
              /\ Ilst(f, r)[i] \in 0 .. Nt(f) - 1
              /\ <<f, Ilst(f, r)[i]>> \in Traces
<1>1. Nt(f) \in Nat
  BY SetFacts
<1>2. /\ First(Nt(f), r) \in Nat /\ Share(Nt(f), r) \in Nat
      /\ First(Nt(f), r) + Share(Nt(f), r) <= Nt(f)
  BY <1>1, BlocksEndToEnd, ShareIs
<1>3. ASSUME NEW i \in 1 .. Lnt(f, r)
      PROVE  /\ Ilst(f, r)[i] = First(Nt(f), r) + i - 1
             /\ Ilst(f, r)[i] \in 0 .. Nt(f) - 1
  BY <1>1, <1>2 DEF Ilst, Lnt
<1>4. \A i \in 1 .. Lnt(f, r) : <<f, Ilst(f, r)[i]>> \in Traces
  BY <1>3, SetFacts
<1>5. Ilst(f, r) \in [1 .. Lnt(f, r) -> Nat]
  <2>1. \A i \in 1 .. Lnt(f, r) : First(Nt(f), r) + i - 1 \in Nat
    BY <1>2 DEF Lnt
  <2> QED BY <2>1 DEF Ilst
<1> QED BY <1>2, <1>3, <1>4, <1>5 DEF Lnt

\* Trace h is the i-th trace of its file on process r.
HeldAt(h, r, i) == i \in 1 .. Lnt(h[1], r) /\ h = <<h[1], Ilst(h[1], r)[i]>>

(***************************************************************************)
(* Every trace is held once.                                               *)
(***************************************************************************)
LEMMA EveryTraceHeld ==
  ASSUME set \in Sets, NEW h \in Traces
  PROVE  /\ h[1] \in Files
         /\ \E r \in Rank : \E i \in Nat : HeldAt(h, r, i)
         /\ \A r, s \in Rank : \A i, j \in Nat :
              HeldAt(h, r, i) /\ HeldAt(h, s, j) => r = s /\ i = j
<1>1. PICK f \in Files : \E t \in 0 .. Nt(f) - 1 : h = <<f, t>>
  BY SetFacts
<1>2. PICK t \in 0 .. Nt(f) - 1 : h = <<f, t>>
  BY <1>1
<1>3. h[1] = f /\ Nt(f) \in Nat /\ t \in Nat
  BY <1>2, SetFacts
<1>4. PICK r \in Rank : Owns(Nt(f), r, t) /\ \A s \in Rank : Owns(Nt(f), s, t) => s = r
  BY <1>3, OneOwner
<1>5. \A s \in Rank : /\ First(Nt(f), s) \in Nat /\ Lnt(f, s) \in Nat
                      /\ Lnt(f, s) = Share(Nt(f), s)
  BY LocalFacts DEF Lnt
<1>6. HeldAt(h, r, t - First(Nt(f), r) + 1)
  <2> DEFINE i == t - First(Nt(f), r) + 1
  <2>1. i \in 1 .. Lnt(f, r) /\ First(Nt(f), r) + i - 1 = t
    BY <1>3, <1>4, <1>5 DEF Owns
  <2>2. Ilst(f, r)[i] = t
    BY <2>1, LocalFacts
  <2> QED BY <1>2, <1>3, <2>1, <2>2 DEF HeldAt
<1>7. ASSUME NEW s \in Rank, NEW j \in Nat, HeldAt(h, s, j)
      PROVE  s = r /\ j = t - First(Nt(f), r) + 1
  <2>1. j \in 1 .. Lnt(f, s) /\ t = First(Nt(f), s) + j - 1
    <3>1. j \in 1 .. Lnt(f, s) /\ t = Ilst(f, s)[j]
      BY <1>2, <1>3, <1>7 DEF HeldAt
    <3> QED BY <3>1, LocalFacts
  <2>2. Owns(Nt(f), s, t)
    BY <1>5, <2>1 DEF Owns
  <2>3. s = r
    BY <1>4, <2>2
  <2> QED BY <1>3, <1>5, <2>1, <2>3
<1>8. t - First(Nt(f), r) + 1 \in Nat
  BY <1>3, <1>4, <1>5 DEF Owns
<1> QED BY <1>3, <1>6, <1>7, <1>8

-----------------------------------------------------------------------------
(***************************************************************************)
(* A set that is counted from 0 has that many members.                     *)
(***************************************************************************)
LEMMA Counted0 ==
  ASSUME NEW n \in Nat, NEW L, NEW p \in [0 .. n - 1 -> L],
         \A x, y \in 0 .. n - 1 : p[x] = p[y] => x = y,
         \A q \in L : \E x \in 0 .. n - 1 : p[x] = q
  PROVE  IsFiniteSet(L) /\ Cardinality(L) = n
<1>1. IsFiniteSet(0 .. n - 1) /\ Cardinality(0 .. n - 1) = n
  <2>1. n - 1 \in Int /\ 0 \in Int
    OBVIOUS
  <2>2. Cardinality(0 .. n - 1) = IF 0 > n - 1 THEN 0 ELSE (n - 1) - 0 + 1
    BY <2>1, FS_Interval
  <2>3. Cardinality(0 .. n - 1) = n
    BY <2>2
  <2> QED BY <2>1, <2>3, FS_Interval
<1>2. p \in Surjection(0 .. n - 1, L) /\ p \in Injection(0 .. n - 1, L)
  BY DEF Surjection, Injection, IsInjective
<1> QED BY <1>1, <1>2, FS_Surjection

(***************************************************************************)
(* The places of the traces when the files are put behind each other are   *)
(* the numbers below the total.                                            *)
(***************************************************************************)
LEMMA ConcatenatedFacts ==
  ASSUME set \in Sets
  PROVE  /\ Total \in Nat
         /\ \A h \in Traces : Concatenated(h) \in 0 .. Total - 1
         /\ \A g, h \in Traces : Concatenated(g) = Concatenated(h) => g = h
         /\ \A n \in 0 .. Total - 1 : \E h \in Traces : Concatenated(h) = n
         /\ IsFiniteSet(Traces) /\ Cardinality(Traces) = Total
<1> DEFINE S(k) == SumBelow(set.nts, k)
           last == Len(set.nts) + 1
<1>1. /\ last \in Nat /\ Files = DOMAIN set.nts /\ Files = 1 .. last - 1
      /\ \A k \in DOMAIN set.nts : set.nts[k] \in Nat /\ set.nts[k] = Nt(k)
  BY SetFacts DEF Nt, Files
<1>2. Total = S(last) /\ \A k \in Nat : S(k) \in Nat
  BY <1>1, SumStep DEF Total
<1>3. ASSUME NEW f \in Files, NEW g \in Nat, f < g
      PROVE  f \in Nat /\ S(f) + Nt(f) <= S(g)
  <2>1. f \in Nat
    BY <1>1
  <2> QED BY <1>1, <1>3, <2>1, SumMonotone
<1> HIDE DEF S, last
<1>4. ASSUME NEW h \in Traces
      PROVE  \E f \in Files : \E t \in 0 .. Nt(f) - 1 :
               /\ h = <<f, t>> /\ Concatenated(h) = S(f) + t /\ f \in Nat /\ f < last
  <2>1. PICK f \in Files : \E t \in 0 .. Nt(f) - 1 : h = <<f, t>>
    BY SetFacts
  <2>2. f \in Nat /\ f < last
    BY <1>1
  <2> QED BY <2>1, <2>2 DEF Concatenated, S
<1>5. \A h \in Traces : Concatenated(h) \in 0 .. Total - 1
  <2> TAKE h \in Traces
  <2>1. PICK f \in Files : \E t \in 0 .. Nt(f) - 1 :
               /\ h = <<f, t>> /\ Concatenated(h) = S(f) + t /\ f \in Nat /\ f < last
    BY <1>4
  <2>2. S(f) + Nt(f) <= S(last) /\ S(f) \in Nat /\ S(last) \in Nat /\ Nt(f) \in Nat
    BY <1>1, <1>2, <1>3, <2>1
  <2> QED BY <1>2, <2>1, <2>2
<1>6. ASSUME NEW g \in Traces, NEW h \in Traces, Concatenated(g) = Concatenated(h)
      PROVE  g = h
  <2>1. PICK f \in Files : \E t \in 0 .. Nt(f) - 1 :
               /\ h = <<f, t>> /\ Concatenated(h) = S(f) + t /\ f \in Nat /\ f < last
    BY <1>4
  <2>2. PICK e \in Files : \E t \in 0 .. Nt(e) - 1 :
               /\ g = <<e, t>> /\ Concatenated(g) = S(e) + t /\ e \in Nat /\ e < last
    BY <1>4
  <2>3. PICK t \in 0 .. Nt(f) - 1 : h = <<f, t>> /\ Concatenated(h) = S(f) + t
    BY <2>1
  <2>4. PICK u \in 0 .. Nt(e) - 1 : g = <<e, u>> /\ Concatenated(g) = S(e) + u
    BY <2>2
  <2>5. /\ S(e) \in Nat /\ S(f) \in Nat /\ Nt(e) \in Nat /\ Nt(f) \in Nat /\ e \in Nat /\ f \in Nat
        /\ e < f => S(e) + Nt(e) <= S(f)
        /\ f < e => S(f) + Nt(f) <= S(e)
    BY <1>1, <1>2, <1>3, <2>1, <2>2
  <2>6. S(f) + t = S(e) + u
    BY <1>6, <2>3, <2>4
  <2>7. e = f
    BY <2>5, <2>6
  <2>8. t = u
    BY <2>5, <2>6, <2>7
  <2> QED BY <2>3, <2>4, <2>7, <2>8
<1>7. ASSUME NEW n \in 0 .. Total - 1
      PROVE  \E h \in Traces : Concatenated(h) = n
  <2>1. n \in Nat /\ n < SumBelow(set.nts, last) /\ last \in Nat
    BY <1>1, <1>2 DEF S
  <2>2. PICK f \in DOMAIN set.nts : /\ f \in Nat /\ f < last
                                    /\ SumBelow(set.nts, f) <= n
                                    /\ n < SumBelow(set.nts, f) + set.nts[f]
    BY <1>1, <2>1, SumFind
  <2>3. f \in Files /\ Nt(f) \in Nat /\ S(f) \in Nat /\ S(f) <= n /\ n < S(f) + Nt(f)
    BY <1>1, <1>2, <2>2 DEF S
  <2>4. n - S(f) \in 0 .. Nt(f) - 1 /\ S(f) + (n - S(f)) = n
    BY <2>1, <2>3
  <2>5. <<f, n - S(f)>> \in Traces
    BY <2>3, <2>4, SetFacts
  <2>6. Concatenated(<<f, n - S(f)>>) = S(f) + (n - S(f))
    BY DEF Concatenated, S
  <2> QED BY <2>4, <2>5, <2>6
<1>8. IsFiniteSet(Traces) /\ Cardinality(Traces) = Total
  <2> DEFINE p == [n \in 0 .. Total - 1 |-> CHOOSE h \in Traces : Concatenated(h) = n]
  <2>1. \A n \in 0 .. Total - 1 : p[n] \in Traces /\ Concatenated(p[n]) = n
    BY <1>7
  <2>2. p \in [0 .. Total - 1 -> Traces]
    BY <2>1
  <2> HIDE DEF p
  <2>3. \A x, y \in 0 .. Total - 1 : p[x] = p[y] => x = y
    BY <2>1
  <2>4. \A h \in Traces : \E n \in 0 .. Total - 1 : p[n] = h
    BY <1>5, <1>6, <2>1
  <2>5. Total \in Nat
    BY <1>1, <1>2
  <2> QED BY <2>2, <2>3, <2>4, <2>5, Counted0
<1> QED BY <1>1, <1>2, <1>5, <1>6, <1>7, <1>8

(***************************************************************************)
(* Every place below the total belongs to one trace by its key.            *)
(***************************************************************************)
LEMMA PlaceOfFacts ==
  ASSUME set \in Sets
  PROVE  /\ Total \in Nat
         /\ \A h \in Traces : PlaceOf(h) \in 0 .. Total - 1
         /\ \A g, h \in Traces : PlaceOf(g) = PlaceOf(h) => g = h
         /\ \A n \in 0 .. Total - 1 : \E h \in Traces : PlaceOf(h) = n
<1> DEFINE low == [h \in Traces |-> {g \in Traces : set.key[g] < set.key[h]}]
<1>1. /\ Total \in Nat /\ IsFiniteSet(Traces) /\ Cardinality(Traces) = Total
  BY ConcatenatedFacts
<1>2. /\ set.key \in [Traces -> Int]
      /\ \A g, h \in Traces : set.key[g] = set.key[h] => g = h
  BY SetsAssumption DEF Traces
<1>3. /\ low \in [Traces -> SUBSET Traces]
      /\ \A h, g \in Traces : g \in low[h] <=> set.key[g] < set.key[h]
      /\ \A h \in Traces : PlaceOf(h) = Cardinality(low[h])
  BY DEF PlaceOf
<1> HIDE DEF low
<1>4. /\ \A h \in Traces : Cardinality(low[h]) \in 0 .. Cardinality(Traces) - 1
      /\ \A g, h \in Traces : Cardinality(low[g]) = Cardinality(low[h]) => g = h
      /\ \A n \in 0 .. Cardinality(Traces) - 1 : \E h \in Traces : Cardinality(low[h]) = n
  BY <1>1, <1>2, <1>3, Ranking
<1> QED BY <1>1, <1>3, <1>4

(***************************************************************************)
(* getSortIndex puts different numbers in ascending order.                 *)
(***************************************************************************)
LEMMA SortIndexIs ==
  ASSUME NEW n \in Nat, NEW s, s \in [1 .. n -> Nat],
         \A i, j \in 1 .. n : s[i] = s[j] => i = j,
         Len(s) = n
  PROVE  /\ SortIndex(s) \in [1 .. n -> 1 .. n]
         /\ \A j, k \in 1 .. n : j < k => s[SortIndex(s)[j]] < s[SortIndex(s)[k]]
         /\ \A i \in 1 .. n : \E j \in 1 .. n : SortIndex(s)[j] = i
<1> DEFINE low == [i \in 1 .. n |-> {j \in 1 .. n : s[j] < s[i]}]
           index == SortIndex(s)
<1>1. IsFiniteSet(1 .. n) /\ Cardinality(1 .. n) = n
  <2>1. 1 \in Int /\ n \in Int
    OBVIOUS
  <2>2. Cardinality(1 .. n) = IF 1 > n THEN 0 ELSE n - 1 + 1
    BY <2>1, FS_Interval
  <2>3. Cardinality(1 .. n) = n
    BY <2>2
  <2> QED BY <2>1, <2>3, FS_Interval
<1>2. /\ low \in [1 .. n -> SUBSET (1 .. n)] /\ s \in [1 .. n -> Int]
      /\ \A i, j \in 1 .. n : j \in low[i] <=> s[j] < s[i]
  OBVIOUS
<1> DEFINE Count(i) == Cardinality({j \in 1 .. n : s[j] < s[i]})
<1>3. index = [k \in 1 .. n |-> CHOOSE i \in 1 .. n : Count(i) = k - 1]
  BY DEF SortIndex
<1>4. \A i \in 1 .. n : Cardinality(low[i]) = Count(i)
  OBVIOUS
<1> HIDE DEF low, index, Count
<1>5. /\ \A i \in 1 .. n : Cardinality(low[i]) \in 0 .. Cardinality(1 .. n) - 1
      /\ \A i, j \in 1 .. n :
           /\ Cardinality(low[i]) = Cardinality(low[j]) => i = j
           /\ s[i] < s[j] <=> Cardinality(low[i]) < Cardinality(low[j])
      /\ \A k \in 0 .. Cardinality(1 .. n) - 1 : \E i \in 1 .. n : Cardinality(low[i]) = k
  <2> DEFINE T == 1 .. n
  <2>1. IsFiniteSet(T) /\ s \in [T -> Int] /\ low \in [T -> SUBSET T]
    BY <1>1, <1>2
  <2>2. /\ \A x, y \in T : s[x] = s[y] => x = y
        /\ \A x, y \in T : y \in low[x] <=> s[y] < s[x]
    BY <1>2
  <2> HIDE DEF T
  <2>3. /\ \A x \in T : Cardinality(low[x]) \in 0 .. Cardinality(T) - 1
        /\ \A x, y \in T : /\ Cardinality(low[x]) = Cardinality(low[y]) => x = y
                           /\ s[x] < s[y] <=> Cardinality(low[x]) < Cardinality(low[y])
        /\ \A k \in 0 .. Cardinality(T) - 1 : \E x \in T : Cardinality(low[x]) = k
    BY ONLY <2>1, <2>2, Ranking
  <2> QED BY <2>3 DEF T
<1>6. /\ \A i \in 1 .. n : Cardinality(low[i]) \in 0 .. n - 1
      /\ \A i, j \in 1 .. n :
           /\ Cardinality(low[i]) = Cardinality(low[j]) => i = j
           /\ s[i] < s[j] <=> Cardinality(low[i]) < Cardinality(low[j])
      /\ \A k \in 0 .. n - 1 : \E i \in 1 .. n : Cardinality(low[i]) = k
  BY <1>1, <1>5
<1>7. ASSUME NEW k \in 1 .. n
      PROVE  index[k] \in 1 .. n /\ Cardinality(low[index[k]]) = k - 1
  <2>1. k - 1 \in 0 .. n - 1
    OBVIOUS
  <2>2. PICK i \in 1 .. n : Cardinality(low[i]) = k - 1
    BY <2>1, <1>6
  <2>3. Count(i) = k - 1
    BY <2>2, <1>4
  <2>4. index[k] \in 1 .. n /\ Count(index[k]) = k - 1
    BY <2>3, <1>3
  <2> QED BY <2>4, <1>4
<1>8. index \in [1 .. n -> 1 .. n]
  BY <1>3, <1>7
<1>9. ASSUME NEW j \in 1 .. n, NEW k \in 1 .. n, j < k
      PROVE  s[index[j]] < s[index[k]]
  <2>1. j - 1 < k - 1
    BY <1>9
  <2>2. Cardinality(low[index[j]]) < Cardinality(low[index[k]])
    BY <1>7, <2>1
  <2> QED BY <1>6, <1>7, <2>2
<1>10. ASSUME NEW i \in 1 .. n
      PROVE  \E j \in 1 .. n : index[j] = i
  <2> DEFINE j == Cardinality(low[i]) + 1
  <2>1. j \in 1 .. n /\ Cardinality(low[i]) = j - 1
    <3>1. Cardinality(low[i]) \in 0 .. n - 1
      BY <1>6
    <3> QED BY <3>1
  <2>2. Cardinality(low[index[j]]) = Cardinality(low[i])
    BY <2>1, <1>7
  <2>3. index[j] = i
    BY <2>1, <2>2, <1>6, <1>7
  <2> QED BY <2>1, <2>3
<1> QED BY <1>8, <1>9, <1>10 DEF index

-----------------------------------------------------------------------------
(***************************************************************************)
(* The headers of all processes one after the other: those of file f on    *)
(* process r begin at place Offset(r) + Loff(f, r).                        *)
(***************************************************************************)
Pos(f, r, i) == Offset(r) + Loff(f, r) + i - 1

\* Header i of file f on r is before header j of file g on s.
Ahead(f, r, i, g, s, j) == r < s \/ (r = s /\ (f < g \/ (f = g /\ i < j)))

LEMMA LoffFacts ==
  ASSUME set \in Sets, NEW r \in Rank
  PROVE  /\ AllLnt(r) \in Nat
         /\ \A f \in Files : Loff(f, r) \in Nat /\ Loff(f, r) + Lnt(f, r) <= AllLnt(r)
         /\ \A f, g \in Files : f < g => Loff(f, r) + Lnt(f, r) <= Loff(g, r)
         /\ \A n \in 0 .. AllLnt(r) - 1 : \E f \in Files : \E i \in 1 .. Lnt(f, r) :
                                            n = Loff(f, r) + i - 1
<1> DEFINE v == [g \in Files |-> Lnt(g, r)]
           last == Len(set.nts) + 1
<1>1. last \in Nat /\ Files = 1 .. last - 1 /\ \A f \in Files : f \in Nat /\ f < last
  BY SetFacts DEF Files
<1>2. DOMAIN v = Files /\ \A k \in DOMAIN v : v[k] \in Nat /\ v[k] = Lnt(k, r)
  BY LocalFacts
<1>3. AllLnt(r) = SumBelow(v, last) /\ \A f : Loff(f, r) = SumBelow(v, f)
  BY DEF AllLnt, Loff
<1> HIDE DEF v, last
<1>4. \A k \in Nat : SumBelow(v, k) \in Nat
  BY <1>2, SumStep
<1>5. ASSUME NEW f \in Files, NEW k \in Nat, f < k
      PROVE  SumBelow(v, f) + v[f] <= SumBelow(v, k)
  <2>1. f \in Nat /\ f <= k
    BY <1>1, <1>5
  <2> QED BY <1>2, <1>5, <2>1, SumMonotone
<1>6. ASSUME NEW n \in 0 .. AllLnt(r) - 1
      PROVE  \E f \in Files : \E i \in 1 .. Lnt(f, r) : n = Loff(f, r) + i - 1
  <2>1. n \in Nat /\ n < SumBelow(v, last)
    BY <1>1, <1>3, <1>4
  <2>2. PICK f \in DOMAIN v : SumBelow(v, f) <= n /\ n < SumBelow(v, f) + v[f] /\ f \in Nat
    BY <1>1, <1>2, <2>1, SumFind
  <2>3. n - SumBelow(v, f) + 1 \in 1 .. v[f]
    BY <1>2, <1>4, <2>1, <2>2
  <2>4. n = SumBelow(v, f) + (n - SumBelow(v, f) + 1) - 1
    BY <1>4, <2>1, <2>2
  <2> QED BY <1>2, <1>3, <2>3, <2>4
<1> QED BY <1>1, <1>2, <1>3, <1>4, <1>5, <1>6

LEMMA OffsetFacts ==
  ASSUME set \in Sets
  PROVE  /\ \A r \in Nat : Offset(r) \in Nat
         /\ \A r \in Rank : \A s \in Nat : r < s => Offset(r) + AllLnt(r) <= Offset(s)
         /\ \A n \in 0 .. Offset(NumRank) - 1 : \E r \in Rank :
               Offset(r) <= n /\ n < Offset(r) + AllLnt(r)
<1> DEFINE v == [q \in Rank |-> AllLnt(q)]
<1>1. NumRank \in Nat /\ \A r \in Rank : r \in Nat /\ r < NumRank
  BY NumRankAssumption DEF Rank
<1>2. DOMAIN v = Rank /\ \A k \in DOMAIN v : v[k] \in Nat /\ v[k] = AllLnt(k)
  BY LoffFacts
<1>3. \A r : Offset(r) = SumBelow(v, r)
  BY DEF Offset
<1> HIDE DEF v
<1>4. \A k \in Nat : SumBelow(v, k) \in Nat
  BY <1>2, SumStep
<1>5. ASSUME NEW r \in Rank, NEW s \in Nat, r < s
      PROVE  SumBelow(v, r) + v[r] <= SumBelow(v, s)
  <2>1. r \in Nat /\ r <= s
    BY <1>1, <1>5
  <2> QED BY <1>2, <1>5, <2>1, SumMonotone
<1>6. ASSUME NEW n \in 0 .. Offset(NumRank) - 1
      PROVE  \E r \in Rank : Offset(r) <= n /\ n < Offset(r) + AllLnt(r)
  <2>1. n \in Nat /\ n < SumBelow(v, NumRank)
    BY <1>1, <1>3, <1>4
  <2>2. PICK r \in DOMAIN v : SumBelow(v, r) <= n /\ n < SumBelow(v, r) + v[r]
    BY <1>1, <1>2, <2>1, SumFind
  <2> QED BY <1>2, <1>3, <2>2
<1> QED BY <1>2, <1>3, <1>4, <1>5, <1>6

LEMMA PosFacts ==
  ASSUME set \in Sets
  PROVE  /\ \A r, s \in Rank : \A f, g \in Files :
              \A i \in 1 .. Lnt(f, r) : \A j \in 1 .. Lnt(g, s) :
                 /\ Pos(f, r, i) \in 0 .. Offset(NumRank) - 1
                 /\ Ahead(f, r, i, g, s, j) => Pos(f, r, i) < Pos(g, s, j)
         /\ \A n \in 0 .. Offset(NumRank) - 1 :
              \E r \in Rank : \E f \in Files : \E i \in 1 .. Lnt(f, r) : n = Pos(f, r, i)
<1>1. NumRank \in Nat /\ \A r \in Rank : r \in Nat /\ r < NumRank
  BY NumRankAssumption DEF Rank
<1>2. ASSUME NEW r \in Rank, NEW f \in Files, NEW i \in 1 .. Lnt(f, r)
      PROVE  /\ Pos(f, r, i) \in Nat /\ i \in Nat /\ f \in Nat /\ Lnt(f, r) \in Nat
             /\ Offset(r) \in Nat /\ Loff(f, r) \in Nat /\ AllLnt(r) \in Nat
             /\ Offset(r) + Loff(f, r) <= Pos(f, r, i)
             /\ Pos(f, r, i) < Offset(r) + Loff(f, r) + Lnt(f, r)
             /\ Pos(f, r, i) < Offset(r) + AllLnt(r)
             /\ Offset(r) + AllLnt(r) <= Offset(NumRank) /\ Offset(NumRank) \in Nat
  <2>1. Lnt(f, r) \in Nat /\ i \in Nat /\ i >= 1 /\ i <= Lnt(f, r) /\ f \in Nat
    BY LocalFacts, SetFacts
  <2>2. /\ Offset(r) \in Nat /\ Loff(f, r) \in Nat /\ AllLnt(r) \in Nat
        /\ Loff(f, r) + Lnt(f, r) <= AllLnt(r)
    BY <1>1, LoffFacts, OffsetFacts
  <2>3. Offset(r) + AllLnt(r) <= Offset(NumRank) /\ Offset(NumRank) \in Nat
    BY <1>1, OffsetFacts
  <2> QED BY <2>1, <2>2, <2>3 DEF Pos
<1>3. ASSUME NEW r \in Rank, NEW s \in Rank, NEW f \in Files, NEW g \in Files,
             NEW i \in 1 .. Lnt(f, r), NEW j \in 1 .. Lnt(g, s), Ahead(f, r, i, g, s, j)
      PROVE  Pos(f, r, i) < Pos(g, s, j)
  <2>1. CASE r < s
    <3>1. Offset(r) + AllLnt(r) <= Offset(s)
      BY <1>1, <2>1, OffsetFacts
    <3> QED BY <3>1, <1>2
  <2>2. CASE r = s /\ f < g
    <3>1. Loff(f, r) + Lnt(f, r) <= Loff(g, r)
      BY <2>2, LoffFacts
    <3> QED BY <3>1, <2>2, <1>2
  <2>3. CASE r = s /\ f = g /\ i < j
    BY <2>3, <1>2 DEF Pos
  <2> QED BY <1>3, <2>1, <2>2, <2>3 DEF Ahead
<1>4. ASSUME NEW n \in 0 .. Offset(NumRank) - 1
      PROVE  \E r \in Rank : \E f \in Files : \E i \in 1 .. Lnt(f, r) : n = Pos(f, r, i)
  <2>1. PICK r \in Rank : Offset(r) <= n /\ n < Offset(r) + AllLnt(r)
    BY OffsetFacts
  <2>2. Offset(r) \in Nat /\ AllLnt(r) \in Nat /\ n \in Nat
    BY <1>1, LoffFacts, OffsetFacts
  <2>3. n - Offset(r) \in 0 .. AllLnt(r) - 1
    BY <2>1, <2>2
  <2>4. PICK f \in Files : \E i \in 1 .. Lnt(f, r) : n - Offset(r) = Loff(f, r) + i - 1
    BY <2>3, LoffFacts
  <2>5. PICK i \in 1 .. Lnt(f, r) : n - Offset(r) = Loff(f, r) + i - 1
    BY <2>4
  <2>6. i \in Nat /\ Loff(f, r) \in Nat
    BY <1>2
  <2>7. n = Pos(f, r, i)
    BY <2>2, <2>5, <2>6 DEF Pos
  <2> QED BY <2>7
<1>5. ASSUME NEW r \in Rank, NEW f \in Files, NEW i \in 1 .. Lnt(f, r)
      PROVE  Pos(f, r, i) \in 0 .. Offset(NumRank) - 1
  BY <1>2
<1> QED BY <1>3, <1>4, <1>5

(***************************************************************************)
(* Of two headers one is ahead of the other.                               *)
(***************************************************************************)
LEMMA AheadTotal ==
  ASSUME set \in Sets, NEW r \in Rank, NEW s \in Rank, NEW f \in Files, NEW g \in Files,
         NEW i \in 1 .. Lnt(f, r), NEW j \in 1 .. Lnt(g, s)
  PROVE  \/ Ahead(f, r, i, g, s, j)
         \/ Ahead(g, s, j, f, r, i)
         \/ r = s /\ f = g /\ i = j
<1>1. r \in Nat /\ s \in Nat
  BY DEF Rank
<1>2. f \in Nat /\ g \in Nat
  BY SetFacts
<1> QED BY <1>1, <1>2 DEF Ahead

(***************************************************************************)
(* The headers of all processes are the traces of the set.                 *)
(***************************************************************************)
LEMMA HeadersAreTraces ==
  ASSUME set \in Sets
  PROVE  Offset(NumRank) = Total
<1> DEFINE m == Offset(NumRank)
           At(n, h) == \E r \in Rank : \E i \in Nat : HeldAt(h, r, i) /\ n = Pos(h[1], r, i)
           p == [n \in 0 .. m - 1 |-> CHOOSE h \in Traces : At(n, h)]
<1>1. m \in Nat
  BY NumRankAssumption, OffsetFacts
<1> HIDE DEF m
<1>2. ASSUME NEW n \in 0 .. m - 1
      PROVE  \E h \in Traces : At(n, h)
  <2>1. PICK r \in Rank, f \in Files : \E i \in 1 .. Lnt(f, r) : n = Pos(f, r, i)
    BY PosFacts DEF m
  <2>2. PICK i \in 1 .. Lnt(f, r) : n = Pos(f, r, i)
    BY <2>1
  <2> DEFINE h == <<f, Ilst(f, r)[i]>>
  <2>3. h \in Traces /\ h[1] = f /\ i \in Nat
    BY LocalFacts
  <2>4. HeldAt(h, r, i)
    BY <2>3 DEF HeldAt
  <2> HIDE DEF h
  <2>5. At(n, h)
    BY <2>2, <2>3, <2>4
  <2> QED BY <2>3, <2>5
<1>3. \A n \in 0 .. m - 1 : p[n] \in Traces /\ At(n, p[n])
  BY <1>2
<1>4. p \in [0 .. m - 1 -> Traces]
  BY <1>3
<1> HIDE DEF p
<1>5. ASSUME NEW h \in Traces, NEW x, NEW y, At(x, h), At(y, h)
      PROVE  x = y
  <2>1. PICK r \in Rank : \E i \in Nat : HeldAt(h, r, i) /\ x = Pos(h[1], r, i)
    BY <1>5
  <2>2. PICK i \in Nat : HeldAt(h, r, i) /\ x = Pos(h[1], r, i)
    BY <2>1
  <2>3. PICK s \in Rank : \E j \in Nat : HeldAt(h, s, j) /\ y = Pos(h[1], s, j)
    BY <1>5
  <2>4. PICK j \in Nat : HeldAt(h, s, j) /\ y = Pos(h[1], s, j)
    BY <2>3
  <2>5. r = s /\ i = j
    BY <2>2, <2>4, EveryTraceHeld
  <2> QED BY <2>2, <2>4, <2>5
<1>6. ASSUME NEW h \in Traces
      PROVE  \E n \in 0 .. m - 1 : At(n, h)
  <2>1. PICK r \in Rank : \E i \in Nat : HeldAt(h, r, i)
    BY EveryTraceHeld
  <2>2. PICK i \in Nat : HeldAt(h, r, i)
    BY <2>1
  <2>3. h[1] \in Files /\ i \in 1 .. Lnt(h[1], r)
    BY <2>2, EveryTraceHeld DEF HeldAt
  <2>4. Pos(h[1], r, i) \in 0 .. m - 1
    BY <2>3, PosFacts DEF m
  <2>5. At(Pos(h[1], r, i), h)
    BY <2>2
  <2> QED BY <2>4, <2>5
<1>7. ASSUME NEW g \in Traces, NEW h \in Traces, NEW n, At(n, g), At(n, h)
      PROVE  g = h
  <2>1. PICK r \in Rank : \E i \in Nat : HeldAt(g, r, i) /\ n = Pos(g[1], r, i)
    BY <1>7
  <2>2. PICK i \in Nat : HeldAt(g, r, i) /\ n = Pos(g[1], r, i)
    BY <2>1
  <2>3. PICK s \in Rank : \E j \in Nat : HeldAt(h, s, j) /\ n = Pos(h[1], s, j)
    BY <1>7
  <2>4. PICK j \in Nat : HeldAt(h, s, j) /\ n = Pos(h[1], s, j)
    BY <2>3
  <2>5. /\ g[1] \in Files /\ h[1] \in Files
        /\ i \in 1 .. Lnt(g[1], r) /\ j \in 1 .. Lnt(h[1], s)
    BY <2>2, <2>4, EveryTraceHeld DEF HeldAt
  <2>6. /\ n \in Nat
        /\ ~Ahead(g[1], r, i, h[1], s, j) /\ ~Ahead(h[1], s, j, g[1], r, i)
    <3>1. /\ Pos(g[1], r, i) \in 0 .. m - 1
          /\ Ahead(g[1], r, i, h[1], s, j) => Pos(g[1], r, i) < Pos(h[1], s, j)
          /\ Ahead(h[1], s, j, g[1], r, i) => Pos(h[1], s, j) < Pos(g[1], r, i)
      BY <2>5, PosFacts DEF m
    <3> QED BY <2>2, <2>4, <3>1
  <2>7. r = s /\ g[1] = h[1] /\ i = j
    BY <2>5, <2>6, AheadTotal
  <2>8. g = <<g[1], Ilst(g[1], r)[i]>> /\ h = <<h[1], Ilst(h[1], s)[j]>>
    BY <2>2, <2>4 DEF HeldAt
  <2> QED BY <2>7, <2>8
<1> HIDE DEF At
<1>8. \A x, y \in 0 .. m - 1 : p[x] = p[y] => x = y
  BY <1>3, <1>5
<1>9. \A h \in Traces : \E n \in 0 .. m - 1 : p[n] = h
  <2> TAKE h \in Traces
  <2>1. PICK n \in 0 .. m - 1 : At(n, h)
    BY <1>6
  <2>2. p[n] = h
    BY <2>1, <1>3, <1>7
  <2> QED BY <2>2
<1>10. Cardinality(Traces) = m
  BY <1>1, <1>4, <1>8, <1>9, Counted0
<1> QED BY <1>10, ConcatenatedFacts DEF m

-----------------------------------------------------------------------------
(***************************************************************************)
(* Which process has which header, in any arrangement k of them that gives *)
(* every process as many as it has read.                                   *)
(***************************************************************************)
On(k, r) == {h \in Traces : k[h] = r}

Dealt(k) == /\ k \in [Traces -> Rank]
            /\ \A r \in Rank : Cardinality(On(k, r)) = AllLnt(r)

LEMMA ReaderIs ==
  ASSUME set \in Sets, NEW h \in Traces, NEW r \in Rank, NEW i \in Nat, HeldAt(h, r, i)
  PROVE  Reader(h) = r
<1>1. \A s \in Rank : h[2] \in Range(Ilst(h[1], s)) <=> \E j \in Nat : HeldAt(h, s, j)
  <2> TAKE s \in Rank
  <2> DEFINE il == Ilst(h[1], s)  n == Lnt(h[1], s)
  <2>1. h[1] \in Files /\ h = <<h[1], h[2]>>
    BY SetFacts, EveryTraceHeld
  <2>2. il \in [1 .. n -> Nat] /\ n \in Nat
    BY <2>1, LocalFacts
  <2>3. \A j : HeldAt(h, s, j) <=> j \in 1 .. n /\ h = <<h[1], il[j]>>
    BY DEF HeldAt
  <2> HIDE DEF il, n
  <2>4. h[2] \in Range(il) <=> \E j \in 1 .. n : h[2] = il[j]
    BY <2>2 DEF Range
  <2>5. \A j : h = <<h[1], il[j]>> <=> h[2] = il[j]
    BY <2>1
  <2>6. \A j \in 1 .. n : j \in Nat
    BY <2>2
  <2>7. h[2] \in Range(il) <=> \E j \in Nat : HeldAt(h, s, j)
    BY <2>3, <2>4, <2>5, <2>6
  <2> QED BY <2>7 DEF il
<1>2. h[2] \in Range(Ilst(h[1], r))
  BY <1>1
<1>3. \A s \in Rank : h[2] \in Range(Ilst(h[1], s)) => s = r
  BY <1>1, EveryTraceHeld
<1> QED BY <1>2, <1>3 DEF Reader

LEMMA HeldSomewhere ==
  ASSUME set \in Sets, NEW h \in Traces
  PROVE  \E i \in Nat : /\ Reader(h) \in Rank /\ h[1] \in Files
                        /\ i \in 1 .. Lnt(h[1], Reader(h)) /\ HeldAt(h, Reader(h), i)
                        /\ h = <<h[1], Ilst(h[1], Reader(h))[i]>>
<1>1. PICK r \in Rank : \E i \in Nat : HeldAt(h, r, i)
  BY EveryTraceHeld
<1>2. PICK i \in Nat : HeldAt(h, r, i)
  BY <1>1
<1>3. Reader(h) = r
  BY <1>2, ReaderIs
<1> QED BY <1>2, <1>3, EveryTraceHeld DEF HeldAt

LEMMA ReadersDeal ==
  ASSUME set \in Sets
  PROVE  Dealt([h \in Traces |-> Reader(h)])
<1> DEFINE k == [h \in Traces |-> Reader(h)]
<1>1. k \in [Traces -> Rank]
  BY HeldSomewhere
<1>2. ASSUME NEW r \in Rank
      PROVE  Cardinality(On(k, r)) = AllLnt(r)
  <2> DEFINE At(n, h) == \E i \in Nat : HeldAt(h, r, i) /\ n = Loff(h[1], r) + i - 1
             m == AllLnt(r)
             p == [n \in 0 .. m - 1 |-> CHOOSE h \in Traces : At(n, h)]
  <2>1. m \in Nat
    BY LoffFacts
  <2>2. \A h : h \in On(k, r) <=> h \in Traces /\ Reader(h) = r
    BY DEF On
  <2> HIDE DEF k
  <2>3. ASSUME NEW n \in 0 .. m - 1
        PROVE  \E h \in Traces : At(n, h)
    <3>1. PICK f \in Files : \E i \in 1 .. Lnt(f, r) : n = Loff(f, r) + i - 1
      BY LoffFacts
    <3>2. PICK i \in 1 .. Lnt(f, r) : n = Loff(f, r) + i - 1
      BY <3>1
    <3> DEFINE h == <<f, Ilst(f, r)[i]>>
    <3>3. h \in Traces /\ h[1] = f /\ i \in Nat
      BY LocalFacts
    <3>4. HeldAt(h, r, i)
      BY <3>3 DEF HeldAt
    <3> HIDE DEF h
    <3> QED BY <3>2, <3>3, <3>4
  <2>4. \A n \in 0 .. m - 1 : p[n] \in Traces /\ At(n, p[n])
    BY <2>3
  <2> HIDE DEF p
  <2>5. ASSUME NEW n, NEW h \in Traces, At(n, h)
        PROVE  h \in On(k, r)
    BY <2>2, <2>5, ReaderIs
  <2>6. p \in [0 .. m - 1 -> On(k, r)]
    <3>1. \A n \in 0 .. m - 1 : p[n] \in On(k, r)
      BY <2>4, <2>5
    <3> QED BY <3>1 DEF p
  <2>7. ASSUME NEW h \in Traces, NEW x, NEW y, At(x, h), At(y, h)
        PROVE  x = y
    BY <2>7, EveryTraceHeld
  <2>8. ASSUME NEW g \in Traces, NEW h \in Traces, NEW n, At(n, g), At(n, h)
        PROVE  g = h
    <3>1. PICK i \in Nat : HeldAt(g, r, i) /\ n = Loff(g[1], r) + i - 1
      BY <2>8
    <3>2. PICK j \in Nat : HeldAt(h, r, j) /\ n = Loff(h[1], r) + j - 1
      BY <2>8
    <3>3. /\ g[1] \in Files /\ i \in 1 .. Lnt(g[1], r) /\ g = <<g[1], Ilst(g[1], r)[i]>>
          /\ h[1] \in Files /\ j \in 1 .. Lnt(h[1], r) /\ h = <<h[1], Ilst(h[1], r)[j]>>
      BY <3>1, <3>2, EveryTraceHeld DEF HeldAt
    <3>4. /\ g[1] \in Nat /\ Loff(g[1], r) \in Nat /\ Lnt(g[1], r) \in Nat
          /\ h[1] \in Nat /\ Loff(h[1], r) \in Nat /\ Lnt(h[1], r) \in Nat
          /\ g[1] < h[1] => Loff(g[1], r) + Lnt(g[1], r) <= Loff(h[1], r)
          /\ h[1] < g[1] => Loff(h[1], r) + Lnt(h[1], r) <= Loff(g[1], r)
      BY <3>3, SetFacts, LocalFacts, LoffFacts
    <3>5. g[1] = h[1]
      BY <3>1, <3>2, <3>3, <3>4
    <3>6. i = j
      BY <3>1, <3>2, <3>4, <3>5
    <3> QED BY <3>3, <3>5, <3>6
  <2>9. ASSUME NEW h \in On(k, r)
        PROVE  \E n \in 0 .. m - 1 : p[n] = h
    <3>1. PICK i \in Nat : /\ h \in Traces /\ h[1] \in Files
                           /\ i \in 1 .. Lnt(h[1], r) /\ HeldAt(h, r, i)
      BY <2>2, HeldSomewhere
    <3>2. /\ Loff(h[1], r) \in Nat /\ Lnt(h[1], r) \in Nat
          /\ Loff(h[1], r) + Lnt(h[1], r) <= AllLnt(r)
      BY <3>1, LocalFacts, LoffFacts
    <3>3. Loff(h[1], r) + i - 1 \in 0 .. m - 1
      BY <2>1, <3>1, <3>2
    <3>4. At(Loff(h[1], r) + i - 1, h)
      BY <3>1
    <3> DEFINE x == Loff(h[1], r) + i - 1
    <3>5. x \in 0 .. m - 1 /\ At(x, h) /\ h \in Traces
      BY <3>1, <3>3, <3>4
    <3> HIDE DEF x, At, m
    <3>6. p[x] = h
      BY <2>4, <2>8, <3>5
    <3> QED BY <3>5, <3>6
  <2> HIDE DEF At, m
  <2>10. \A x, y \in 0 .. m - 1 : p[x] = p[y] => x = y
    BY <2>4, <2>7
  <2>11. Cardinality(On(k, r)) = m
    BY <2>1, <2>6, <2>9, <2>10, Counted0
  <2> QED BY <2>11 DEF m
<1> QED BY <1>1, <1>2 DEF Dealt

(***************************************************************************)
(* The headers on a process, counted in the order of their keys.           *)
(***************************************************************************)
LEMMA OnFacts ==
  ASSUME set \in Sets, NEW k, NEW r
  PROVE  /\ IsFiniteSet(On(k, r)) /\ Cardinality(On(k, r)) \in Nat
         /\ \A h \in On(k, r) : /\ NumLower(k, h) \in 0 .. Cardinality(On(k, r)) - 1
                                /\ NumHigher(k, h) \in 0 .. Cardinality(On(k, r)) - 1
         /\ \A g, h \in On(k, r) :
              /\ NumLower(k, g) = NumLower(k, h) => g = h
              /\ NumHigher(k, g) = NumHigher(k, h) => g = h
              /\ set.key[g] < set.key[h] <=> NumLower(k, g) < NumLower(k, h)
         /\ \A n \in 0 .. Cardinality(On(k, r)) - 1 :
              /\ \E h \in On(k, r) : NumLower(k, h) = n
              /\ \E h \in On(k, r) : NumHigher(k, h) = n
<1> DEFINE T == On(k, r)
           key == [h \in T |-> set.key[h]]
           yek == [h \in T |-> -set.key[h]]
           low == [h \in T |-> {g \in T : key[g] < key[h]}]
           high == [h \in T |-> {g \in T : yek[g] < yek[h]}]
<1>1. T \subseteq Traces /\ IsFiniteSet(T) /\ Cardinality(T) \in Nat
  <2>1. T \subseteq Traces
    BY DEF On
  <2> QED BY <2>1, ConcatenatedFacts, FS_Subset, FS_CardinalityType
<1>2. /\ \A h \in Traces : set.key[h] \in Int
      /\ \A g, h \in Traces : set.key[g] = set.key[h] => g = h
  BY SetsAssumption DEF Traces
<1>3. /\ key \in [T -> Int] /\ low \in [T -> SUBSET T]
      /\ \A x, y \in T : key[x] = key[y] => x = y
      /\ \A x, y \in T : y \in low[x] <=> key[y] < key[x]
  BY <1>1, <1>2
<1>4. /\ yek \in [T -> Int] /\ high \in [T -> SUBSET T]
      /\ \A x, y \in T : yek[x] = yek[y] => x = y
      /\ \A x, y \in T : y \in high[x] <=> yek[y] < yek[x]
  <2>1. \A h \in T : -set.key[h] \in Int
    BY <1>1, <1>2
  <2>2. yek \in [T -> Int]
    BY <2>1
  <2>3. \A x, y \in T : -set.key[x] = -set.key[y] => x = y
    BY <1>1, <1>2
  <2> QED BY <2>2, <2>3
<1>5. ASSUME NEW h \in T
      PROVE  NumLower(k, h) = Cardinality(low[h]) /\ NumHigher(k, h) = Cardinality(high[h])
  <2>1. low[h] = {g \in Traces : k[g] = k[h] /\ set.key[g] < set.key[h]}
    BY DEF On
  <2>2. high[h] = {g \in Traces : k[g] = k[h] /\ set.key[g] > set.key[h]}
    <3>1. \A g \in T : -set.key[g] < -set.key[h] <=> set.key[g] > set.key[h]
      BY <1>1, <1>2
    <3>2. \A g : g \in T <=> g \in Traces /\ k[g] = k[h]
      BY DEF On
    <3>3. \A g : g \in high[h] <=> g \in T /\ -set.key[g] < -set.key[h]
      OBVIOUS
    <3> HIDE DEF high, T
    <3> QED BY <3>1, <3>2, <3>3
  <2> QED BY <2>1, <2>2 DEF NumLower, NumHigher
<1>6. \A x, y \in T : key[x] < key[y] <=> set.key[x] < set.key[y]
  OBVIOUS
<1> HIDE DEF T, key, yek, low, high
<1>7. /\ \A x \in T : Cardinality(low[x]) \in 0 .. Cardinality(T) - 1
      /\ \A x, y \in T : /\ Cardinality(low[x]) = Cardinality(low[y]) => x = y
                         /\ key[x] < key[y] <=> Cardinality(low[x]) < Cardinality(low[y])
      /\ \A n \in 0 .. Cardinality(T) - 1 : \E x \in T : Cardinality(low[x]) = n
  BY ONLY <1>1, <1>3, Ranking
<1>8. /\ \A x \in T : Cardinality(high[x]) \in 0 .. Cardinality(T) - 1
      /\ \A x, y \in T : Cardinality(high[x]) = Cardinality(high[y]) => x = y
      /\ \A n \in 0 .. Cardinality(T) - 1 : \E x \in T : Cardinality(high[x]) = n
  BY ONLY <1>1, <1>4, Ranking
<1>9. \A h \in T : /\ NumLower(k, h) \in 0 .. Cardinality(T) - 1
                   /\ NumHigher(k, h) \in 0 .. Cardinality(T) - 1
  BY <1>5, <1>7, <1>8
<1>10. ASSUME NEW g \in T, NEW h \in T
       PROVE  /\ NumLower(k, g) = NumLower(k, h) => g = h
              /\ NumHigher(k, g) = NumHigher(k, h) => g = h
              /\ set.key[g] < set.key[h] <=> NumLower(k, g) < NumLower(k, h)
  BY <1>5, <1>6, <1>7, <1>8
<1>11. ASSUME NEW n \in 0 .. Cardinality(T) - 1
       PROVE  /\ \E h \in T : NumLower(k, h) = n
              /\ \E h \in T : NumHigher(k, h) = n
  BY <1>5, <1>7, <1>8
<1> QED BY <1>1, <1>9, <1>10, <1>11 DEF T

(***************************************************************************)
(* The size of what is lent: no process has fewer headers.                 *)
(***************************************************************************)
LEMMA RegionFacts ==
  ASSUME set \in Sets
  PROVE  /\ RegionSz \in Nat
         /\ \A r \in Rank : AllLnt(r) \in Nat /\ 4 * RegionSz <= AllLnt(r)
<1> DEFINE S == {AllLnt(r) : r \in Rank}  m == Min(S)
<1>1. \A r \in Rank : AllLnt(r) \in Nat
  BY LoffFacts
<1>2. S \in SUBSET Nat /\ S # {}
  <2>1. 0 \in Rank
    BY NumRankAssumption DEF Rank
  <2> QED BY <1>1, <2>1
<1>3. PICK x \in S : \A y \in S : x <= y
  BY <1>2, LeastNat
<1>4. m \in S /\ \A y \in S : m <= y
  BY <1>3 DEF Min
<1>5. m \in Nat /\ \A r \in Rank : m <= AllLnt(r)
  BY <1>2, <1>4
<1>6. RegionSz = m \div 4
  BY DEF RegionSz
<1> HIDE DEF m
<1>7. m \div 4 \in Nat /\ 4 * (m \div 4) <= m
  BY <1>5, DivFacts
<1>8. \A r \in Rank : 4 * (m \div 4) <= AllLnt(r)
  BY <1>1, <1>5, <1>7
<1> QED BY <1>1, <1>6, <1>7, <1>8

\* A set whose members have the numbers below n, each of them one.
LEMMA FirstOfMany ==
  ASSUME NEW T, NEW c \in [T -> Nat], NEW n \in Nat, NEW m \in Nat, n <= m,
         \A x, y \in T : c[x] = c[y] => x = y,
         \A j \in 0 .. m - 1 : \E x \in T : c[x] = j,
         NEW L, L = {x \in T : c[x] < n}
  PROVE  IsFiniteSet(L) /\ Cardinality(L) = n
<1> DEFINE p == [j \in 0 .. n - 1 |-> CHOOSE x \in T : c[x] = j]
<1>1. \A j \in 0 .. n - 1 : p[j] \in T /\ c[p[j]] = j /\ j < n
  <2>1. \A j \in 0 .. n - 1 : j \in 0 .. m - 1 /\ j < n
    OBVIOUS
  <2> QED BY <2>1
<1>2. p \in [0 .. n - 1 -> L]
  BY <1>1
<1> HIDE DEF p
<1>3. \A x, y \in 0 .. n - 1 : p[x] = p[y] => x = y
  BY <1>1
<1>4. \A q \in L : \E j \in 0 .. n - 1 : p[j] = q
  <2> TAKE q \in L
  <2>1. q \in T /\ c[q] \in 0 .. n - 1
    OBVIOUS
  <2>2. p[c[q]] = q
    BY <1>1, <2>1
  <2> QED BY <2>1, <2>2
<1> QED BY <1>2, <1>3, <1>4, Counted0

\* The headers r lends in the arrangement k.
Lowest(k, r)  == {h \in On(k, r) : NumLower(k, h) < RegionSz}
Highest(k, r) == {h \in On(k, r) : NumHigher(k, h) < RegionSz}

LEMMA LentFacts ==
  ASSUME set \in Sets, NEW k, NEW r, RegionSz <= Cardinality(On(k, r))
  PROVE  /\ IsFiniteSet(Lowest(k, r)) /\ Cardinality(Lowest(k, r)) = RegionSz
         /\ IsFiniteSet(Highest(k, r)) /\ Cardinality(Highest(k, r)) = RegionSz
<1> DEFINE T == On(k, r)
           m == Cardinality(T)
           low == [h \in T |-> NumLower(k, h)]
           high == [h \in T |-> NumHigher(k, h)]
<1>1. RegionSz \in Nat /\ m \in Nat /\ RegionSz <= m
  BY RegionFacts, OnFacts
<1>2. /\ \A h \in T : NumLower(k, h) \in 0 .. m - 1 /\ NumHigher(k, h) \in 0 .. m - 1
      /\ \A g, h \in T : /\ NumLower(k, g) = NumLower(k, h) => g = h
                         /\ NumHigher(k, g) = NumHigher(k, h) => g = h
      /\ \A n \in 0 .. m - 1 : /\ \E h \in T : NumLower(k, h) = n
                               /\ \E h \in T : NumHigher(k, h) = n
  BY OnFacts
<1>3. /\ low \in [T -> Nat] /\ high \in [T -> Nat]
      /\ \A h \in T : low[h] = NumLower(k, h) /\ high[h] = NumHigher(k, h)
  BY <1>1, <1>2
<1>4. /\ Lowest(k, r) = {h \in T : low[h] < RegionSz}
      /\ Highest(k, r) = {h \in T : high[h] < RegionSz}
  BY DEF Lowest, Highest
<1> HIDE DEF T, m, low, high
<1>5. /\ \A g, h \in T : (low[g] = low[h] => g = h) /\ (high[g] = high[h] => g = h)
      /\ \A n \in 0 .. m - 1 : (\E h \in T : low[h] = n) /\ (\E h \in T : high[h] = n)
  BY <1>2, <1>3
<1> DEFINE R == RegionSz
<1>6. R \in Nat /\ R <= m
  BY <1>1
<1> HIDE DEF R
<1> DEFINE L == Lowest(k, r)  H == Highest(k, r)
<1>7. L = {h \in T : low[h] < R} /\ H = {h \in T : high[h] < R}
  BY <1>4 DEF R
<1> HIDE DEF L, H
<1>8. IsFiniteSet(L) /\ Cardinality(L) = R
  <2>1. /\ \A g, h \in T : low[g] = low[h] => g = h
        /\ \A n \in 0 .. m - 1 : \E h \in T : low[h] = n
    BY <1>5
  <2>2. low \in [T -> Nat] /\ m \in Nat /\ L = {h \in T : low[h] < R}
    BY <1>1, <1>3, <1>7
  <2> QED BY ONLY <1>6, <2>1, <2>2, FirstOfMany
<1>9. IsFiniteSet(H) /\ Cardinality(H) = R
  <2>1. /\ \A g, h \in T : high[g] = high[h] => g = h
        /\ \A n \in 0 .. m - 1 : \E h \in T : high[h] = n
    BY <1>5
  <2>2. high \in [T -> Nat] /\ m \in Nat /\ H = {h \in T : high[h] < R}
    BY <1>1, <1>3, <1>7
  <2> QED BY ONLY <1>6, <2>1, <2>2, FirstOfMany
<1> QED BY <1>8, <1>9 DEF R, L, H

(***************************************************************************)
(* What a process has that gives G away, a part of what it has, and gets   *)
(* other headers N.                                                        *)
(***************************************************************************)
LEMMA GivenAndGot ==
  ASSUME NEW T, NEW G, NEW N, IsFiniteSet(T), IsFiniteSet(N), G \subseteq T, N \cap T = {}
  PROVE  /\ IsFiniteSet((T \ G) \cup N)
         /\ Cardinality((T \ G) \cup N) = Cardinality(T) - Cardinality(G) + Cardinality(N)
<1>1. T \cap G = G /\ (T \ G) \cap N = {}
  OBVIOUS
<1>2. IsFiniteSet(T \ G) /\ Cardinality(T \ G) = Cardinality(T) - Cardinality(G)
  <2>1. IsFiniteSet(T \ G) /\ Cardinality(T \ G) = Cardinality(T) - Cardinality(T \cap G)
    BY FS_Difference, Zenon
  <2> QED BY <1>1, <2>1
<1>3. Cardinality((T \ G) \cap N) = 0
  BY <1>1, FS_EmptySet
<1>4. /\ Cardinality(T) \in Nat /\ Cardinality(G) \in Nat /\ Cardinality(N) \in Nat
      /\ Cardinality(T \ G) \in Nat
  <2>1. IsFiniteSet(G)
    BY FS_Subset
  <2> QED BY <1>2, <2>1, FS_CardinalityType
<1>5. /\ IsFiniteSet((T \ G) \cup N)
      /\ Cardinality((T \ G) \cup N) = Cardinality(T \ G) + Cardinality(N) - Cardinality((T \ G) \cap N)
  BY <1>2, FS_Union
<1> QED BY <1>2, <1>3, <1>4, <1>5

(***************************************************************************)
(* After the round every process has as many headers as before.            *)
(***************************************************************************)
LEMMA LeftDealt ==
  ASSUME set \in Sets, NEW k, Dealt(k)
  PROVE  /\ LentLeft(k) \in [Traces -> Rank]
         /\ \A r \in Rank : Cardinality(On(LentLeft(k), r)) =
              AllLnt(r) - (IF r # 0 THEN RegionSz ELSE 0) + (IF r # LastRank THEN RegionSz ELSE 0)
<1> DEFINE m == LentLeft(k)
<1>1. k \in [Traces -> Rank] /\ \A r \in Rank : Cardinality(On(k, r)) = AllLnt(r)
  BY DEF Dealt
<1>2. /\ NumRank \in Nat /\ LastRank = NumRank - 1 /\ \A r : r \in Rank <=> r \in Nat /\ r < NumRank
  BY NumRankAssumption DEF Rank, LastRank
<1>3. /\ RegionSz \in Nat
      /\ \A r \in Rank : AllLnt(r) \in Nat /\ RegionSz <= AllLnt(r)
  <2>1. RegionSz \in Nat /\ \A r \in Rank : AllLnt(r) \in Nat /\ 4 * RegionSz <= AllLnt(r)
    BY RegionFacts
  <2> QED BY <2>1
<1>4. /\ DOMAIN m = Traces
      /\ \A h \in Traces : m[h] = IF k[h] # 0 /\ NumLower(k, h) < RegionSz THEN k[h] - 1 ELSE k[h]
      /\ m = [h \in Traces |-> m[h]]
  BY DEF LentLeft
<1>5. \A h \in Traces : m[h] \in Rank
  <2> TAKE h \in Traces
  <2>1. k[h] \in Rank
    BY <1>1
  <2> QED BY <1>2, <1>4, <2>1
<1>6. \A r, h : /\ h \in On(k, r) <=> h \in Traces /\ k[h] = r
                /\ h \in On(m, r) <=> h \in Traces /\ m[h] = r
                /\ h \in Lowest(k, r) <=> h \in Traces /\ k[h] = r /\ NumLower(k, h) < RegionSz
  BY DEF On, Lowest
<1> HIDE DEF m
<1>7. ASSUME NEW r \in Rank
      PROVE  Cardinality(On(m, r)) =
              AllLnt(r) - (IF r # 0 THEN RegionSz ELSE 0) + (IF r # LastRank THEN RegionSz ELSE 0)
  <2> DEFINE G == IF r # 0 THEN Lowest(k, r) ELSE {}
             N == IF r # LastRank THEN Lowest(k, r + 1) ELSE {}
  <2>1. r # LastRank => r + 1 \in Rank /\ r + 1 # 0 /\ (r + 1) - 1 = r
    BY <1>2
  <2>2. \A h \in Traces : k[h] \in Nat /\ k[h] < NumRank /\ r \in Nat
    BY <1>1, <1>2
  <2>3. \A h : h \in On(m, r) <=> h \in (On(k, r) \ G) \cup N
    <3> TAKE h
    <3>1. CASE h \notin Traces
      BY <1>6, <3>1
    <3>2. CASE h \in Traces /\ k[h] = r
      <4>1. h \in On(m, r) <=> ~(k[h] # 0 /\ NumLower(k, h) < RegionSz)
        BY <1>4, <1>6, <2>2, <3>2
      <4>2. h \notin N
        BY <1>6, <2>2, <3>2
      <4> QED BY <1>6, <3>2, <4>1, <4>2
    <3>3. CASE h \in Traces /\ k[h] # r
      <4>1. h \in On(m, r) <=> k[h] # 0 /\ NumLower(k, h) < RegionSz /\ k[h] - 1 = r
        BY <1>4, <1>6, <3>3
      <4>2. k[h] - 1 = r <=> k[h] = r + 1
        BY <2>2, <3>3
      <4>3. k[h] = r + 1 => k[h] # 0 /\ r # LastRank
        BY <1>2, <2>2, <3>3
      <4> QED BY <1>6, <3>3, <4>1, <4>2, <4>3
    <3> QED BY <3>1, <3>2, <3>3
  <2>4. On(m, r) = (On(k, r) \ G) \cup N
    BY <2>3
  <2>5. /\ IsFiniteSet(On(k, r)) /\ Cardinality(On(k, r)) = AllLnt(r)
        /\ r # 0 => IsFiniteSet(Lowest(k, r)) /\ Cardinality(Lowest(k, r)) = RegionSz
        /\ r # LastRank => IsFiniteSet(Lowest(k, r + 1)) /\ Cardinality(Lowest(k, r + 1)) = RegionSz
    BY <1>1, <1>3, <2>1, OnFacts, LentFacts
  <2>6. /\ IsFiniteSet(N) /\ Cardinality(G) = (IF r # 0 THEN RegionSz ELSE 0)
        /\ Cardinality(N) = (IF r # LastRank THEN RegionSz ELSE 0)
    BY <2>5, FS_EmptySet
  <2>7. G \subseteq On(k, r) /\ N \cap On(k, r) = {}
    BY <1>6, <2>1, <2>2
  <2> HIDE DEF G, N
  <2>8. Cardinality(On(m, r)) = Cardinality(On(k, r)) - Cardinality(G) + Cardinality(N)
    BY <2>4, <2>5, <2>6, <2>7, GivenAndGot
  <2> QED BY <2>5, <2>6, <2>8
<1> QED BY <1>4, <1>5, <1>7 DEF m

LEMMA ExchangedDealt ==
  ASSUME set \in Sets, NEW k, Dealt(k)
  PROVE  Dealt(Exchanged(k))
<1> DEFINE m == LentLeft(k)
           e == LentRight(m)
           Left(r) == AllLnt(r) - (IF r # 0 THEN RegionSz ELSE 0)
                                + (IF r # LastRank THEN RegionSz ELSE 0)
<1>1. m \in [Traces -> Rank] /\ \A r \in Rank : Cardinality(On(m, r)) = Left(r)
  BY LeftDealt
<1>2. /\ NumRank \in Nat /\ LastRank = NumRank - 1 /\ \A r : r \in Rank <=> r \in Nat /\ r < NumRank
  BY NumRankAssumption DEF Rank, LastRank
<1>3. /\ RegionSz \in Nat
      /\ \A r \in Rank : AllLnt(r) \in Nat /\ RegionSz <= AllLnt(r)
  <2>1. RegionSz \in Nat /\ \A r \in Rank : AllLnt(r) \in Nat /\ 4 * RegionSz <= AllLnt(r)
    BY RegionFacts
  <2> QED BY <2>1
<1>4. \A r \in Rank : r # LastRank => RegionSz <= Left(r)
  BY <1>3
<1>5. /\ DOMAIN e = Traces
      /\ \A h \in Traces :
           e[h] = IF m[h] # LastRank /\ NumHigher(m, h) < RegionSz THEN m[h] + 1 ELSE m[h]
      /\ e = [h \in Traces |-> e[h]]
  BY DEF LentRight
<1>6. Exchanged(k) = e
  BY DEF Exchanged
<1> HIDE DEF m, e
<1>7. \A h \in Traces : e[h] \in Rank
  <2> TAKE h \in Traces
  <2>1. m[h] \in Rank
    BY <1>1
  <2> QED BY <1>2, <1>5, <2>1
<1>8. \A r, h : /\ h \in On(m, r) <=> h \in Traces /\ m[h] = r
                /\ h \in On(e, r) <=> h \in Traces /\ e[h] = r
                /\ h \in Highest(m, r) <=> h \in Traces /\ m[h] = r /\ NumHigher(m, h) < RegionSz
  BY DEF On, Highest
<1>9. ASSUME NEW r \in Rank
      PROVE  Cardinality(On(e, r)) = AllLnt(r)
  <2> DEFINE G == IF r # LastRank THEN Highest(m, r) ELSE {}
             N == IF r # 0 THEN Highest(m, r - 1) ELSE {}
  <2>1. r # 0 => r - 1 \in Rank /\ r - 1 # LastRank /\ (r - 1) + 1 = r
    BY <1>2
  <2>2. \A h \in Traces : m[h] \in Nat /\ m[h] < NumRank /\ r \in Nat
    BY <1>1, <1>2
  <2>3. \A h : h \in On(e, r) <=> h \in (On(m, r) \ G) \cup N
    <3> TAKE h
    <3>1. CASE h \notin Traces
      BY <1>8, <3>1
    <3>2. CASE h \in Traces /\ m[h] = r
      <4>1. h \in On(e, r) <=> ~(m[h] # LastRank /\ NumHigher(m, h) < RegionSz)
        BY <1>5, <1>8, <2>2, <3>2
      <4>2. h \notin N
        BY <1>8, <2>2, <3>2
      <4> QED BY <1>8, <3>2, <4>1, <4>2
    <3>3. CASE h \in Traces /\ m[h] # r
      <4>1. h \in On(e, r) <=> m[h] # LastRank /\ NumHigher(m, h) < RegionSz /\ m[h] + 1 = r
        BY <1>5, <1>8, <3>3
      <4>2. m[h] + 1 = r <=> m[h] = r - 1
        BY <2>2, <3>3
      <4>3. m[h] = r - 1 => m[h] # LastRank /\ r # 0
        BY <1>2, <2>2, <3>3
      <4> QED BY <1>8, <3>3, <4>1, <4>2, <4>3
    <3> QED BY <3>1, <3>2, <3>3
  <2>4. On(e, r) = (On(m, r) \ G) \cup N
    BY <2>3
  <2>5. /\ IsFiniteSet(On(m, r)) /\ Cardinality(On(m, r)) = Left(r)
        /\ r # LastRank => IsFiniteSet(Highest(m, r)) /\ Cardinality(Highest(m, r)) = RegionSz
        /\ r # 0 => IsFiniteSet(Highest(m, r - 1)) /\ Cardinality(Highest(m, r - 1)) = RegionSz
    <3>1. r # LastRank => RegionSz <= Cardinality(On(m, r))
      BY <1>1, <1>4
    <3>2. r # 0 => RegionSz <= Cardinality(On(m, r - 1))
      BY <1>1, <1>4, <2>1
    <3> QED BY <1>1, <3>1, <3>2, OnFacts, LentFacts
  <2>6. /\ IsFiniteSet(N) /\ Cardinality(G) = (IF r # LastRank THEN RegionSz ELSE 0)
        /\ Cardinality(N) = (IF r # 0 THEN RegionSz ELSE 0)
    BY <2>5, FS_EmptySet
  <2>7. G \subseteq On(m, r) /\ N \cap On(m, r) = {}
    BY <1>8, <2>1, <2>2
  <2> HIDE DEF G, N
  <2>8. Cardinality(On(e, r)) = Cardinality(On(m, r)) - Cardinality(G) + Cardinality(N)
    BY <2>4, <2>5, <2>6, <2>7, GivenAndGot
  <2>9. AllLnt(r) \in Nat
    BY <1>3
  <2> QED BY <1>3, <2>5, <2>6, <2>8, <2>9
<1> QED BY <1>5, <1>6, <1>7, <1>9 DEF Dealt

-----------------------------------------------------------------------------
(***************************************************************************)
(* Every place below the total belongs to one header, in any arrangement.  *)
(***************************************************************************)
LEMMA PositionFacts ==
  ASSUME set \in Sets, Dealt(keeper)
  PROVE  /\ Total \in Nat
         /\ \A h \in Traces : Position(h) \in 0 .. Total - 1
         /\ \A g, h \in Traces : Position(g) = Position(h) => g = h
         /\ \A g, h \in Traces : keeper[g] < keeper[h] => Position(g) < Position(h)
         /\ \A n \in 0 .. Total - 1 : \E h \in Traces : Position(h) = n
<1>1. Total \in Nat /\ Total = Offset(NumRank)
  BY ConcatenatedFacts, HeadersAreTraces
<1>2. keeper \in [Traces -> Rank] /\ \A r \in Rank : Cardinality(On(keeper, r)) = AllLnt(r)
  BY DEF Dealt
<1>3. NumRank \in Nat /\ \A r \in Rank : r \in Nat /\ r < NumRank
  BY NumRankAssumption DEF Rank
<1>4. ASSUME NEW r \in Rank
      PROVE  Offset(r) \in Nat /\ AllLnt(r) \in Nat /\ Offset(r) + AllLnt(r) <= Total
  BY <1>1, <1>3, LoffFacts, OffsetFacts
<1>5. ASSUME NEW h \in Traces
      PROVE  /\ keeper[h] \in Rank /\ NumLower(keeper, h) \in Nat
             /\ Position(h) = Offset(keeper[h]) + NumLower(keeper, h)
             /\ NumLower(keeper, h) < AllLnt(keeper[h])
  <2>1. keeper[h] \in Rank /\ h \in On(keeper, keeper[h])
    BY <1>2 DEF On
  <2>2. NumLower(keeper, h) \in 0 .. AllLnt(keeper[h]) - 1 /\ AllLnt(keeper[h]) \in Nat
    BY <1>2, <1>4, <2>1, OnFacts
  <2> QED BY <2>1, <2>2 DEF Position
<1>6. ASSUME NEW h \in Traces
      PROVE  Position(h) \in 0 .. Total - 1
  BY <1>1, <1>4, <1>5
<1>7. ASSUME NEW g \in Traces, NEW h \in Traces, keeper[g] < keeper[h]
      PROVE  Position(g) < Position(h)
  <2>1. Offset(keeper[g]) + AllLnt(keeper[g]) <= Offset(keeper[h])
    BY <1>3, <1>5, <1>7, OffsetFacts
  <2>2. /\ Offset(keeper[g]) \in Nat /\ AllLnt(keeper[g]) \in Nat /\ Offset(keeper[h]) \in Nat
    BY <1>4, <1>5
  <2> QED BY <1>5, <2>1, <2>2
<1>8. ASSUME NEW g \in Traces, NEW h \in Traces, Position(g) = Position(h)
      PROVE  g = h
  <2>1. Position(g) \in Nat /\ keeper[g] \in Nat /\ keeper[h] \in Nat
    BY <1>1, <1>3, <1>5, <1>6
  <2>2. keeper[g] = keeper[h]
    BY <1>7, <1>8, <2>1
  <2>3. NumLower(keeper, g) = NumLower(keeper, h)
    BY <1>4, <1>5, <1>8, <2>2
  <2>4. g \in On(keeper, keeper[g]) /\ h \in On(keeper, keeper[g])
    BY <2>2 DEF On
  <2> QED BY <2>3, <2>4, OnFacts
<1>9. ASSUME NEW n \in 0 .. Total - 1
      PROVE  \E h \in Traces : Position(h) = n
  <2>1. PICK r \in Rank : Offset(r) <= n /\ n < Offset(r) + AllLnt(r)
    BY <1>1, OffsetFacts
  <2>2. n - Offset(r) \in 0 .. AllLnt(r) - 1 /\ n \in Nat /\ Offset(r) \in Nat
    BY <1>1, <1>4, <2>1
  <2>3. PICK h \in On(keeper, r) : NumLower(keeper, h) = n - Offset(r)
    BY <1>2, <2>2, OnFacts
  <2>4. h \in Traces /\ keeper[h] = r
    BY DEF On
  <2>5. Position(h) = n
    BY <1>5, <2>2, <2>3, <2>4
  <2> QED BY <2>4, <2>5
<1> QED BY <1>1, <1>6, <1>7, <1>8, <1>9

(***************************************************************************)
(* The pairs of the second sort, one for every header, and their order.    *)
(***************************************************************************)
Pair(h) == [on |-> Bound(h), gtn |-> Gtn(h), place |-> Position(h)]

LEMMA GtnType ==
  ASSUME set \in Sets, NEW h \in Traces
  PROVE  Gtn(h) \in Nat
<1>1. PICK i \in Nat : Reader(h) \in Rank /\ h[1] \in Files
  BY HeldSomewhere
<1>2. h[2] \in Nat
  <2>1. PICK f \in Files : \E t \in 0 .. Nt(f) - 1 : h = <<f, t>>
    BY SetFacts
  <2>2. PICK t \in 0 .. Nt(f) - 1 : h = <<f, t>>
    BY <2>1
  <2>3. Nt(f) \in Nat
    BY SetFacts
  <2> QED BY <2>2, <2>3
<1>3. Reader(h) \in Nat
  BY <1>1 DEF Rank
<1>4. Offset(Reader(h)) \in Nat /\ Loff(h[1], Reader(h)) \in Nat
  BY <1>1, <1>3, OffsetFacts, LoffFacts
<1> QED BY <1>2, <1>4 DEF Gtn

LEMMA PairFacts ==
  ASSUME set \in Sets, Dealt(keeper)
  PROVE  /\ \A q : q \in Pairs <=> \E h \in Traces : q = Pair(h)
         /\ \A q \in Pairs : q.on \in Nat /\ q.gtn \in Nat /\ q.place \in 0 .. Total - 1
         /\ \A q, w \in Pairs : q.place = w.place => q = w
         /\ \A n \in 0 .. Total - 1 : \E q \in Pairs : q.place = n
         /\ IsFiniteSet(Pairs) /\ Cardinality(Pairs) = Total
<1>1. \A q : q \in Pairs <=> \E h \in Traces : q = Pair(h)
  BY DEF Pairs, Pair
<1>2. \A h \in Traces : Pair(h).on = Bound(h) /\ Pair(h).gtn = Gtn(h) /\ Pair(h).place = Position(h)
  BY DEF Pair
<1>3. ASSUME NEW h \in Traces
      PROVE  Bound(h) \in Nat /\ Gtn(h) \in Nat /\ Position(h) \in 0 .. Total - 1
  <2>1. keeper[h] \in Nat
    BY DEF Dealt, Rank
  <2> QED BY <2>1, GtnType, PositionFacts DEF Bound
<1>4. Total \in Nat
  BY ConcatenatedFacts
<1> HIDE DEF Pair
<1>5. \A q \in Pairs : q.on \in Nat /\ q.gtn \in Nat /\ q.place \in 0 .. Total - 1
  BY <1>1, <1>2, <1>3
<1>6. \A q, w \in Pairs : q.place = w.place => q = w
  BY <1>1, <1>2, PositionFacts
<1>7. \A n \in 0 .. Total - 1 : \E q \in Pairs : q.place = n
  BY <1>1, <1>2, PositionFacts
<1>8. IsFiniteSet(Pairs) /\ Cardinality(Pairs) = Total
  <2> DEFINE pairs == Pairs
             at == [k \in 0 .. Total - 1 |-> CHOOSE q \in pairs : q.place = k]
  <2>1. \A k \in 0 .. Total - 1 : at[k] \in pairs /\ at[k].place = k
    BY <1>7
  <2>2. at \in [0 .. Total - 1 -> pairs]
    BY <2>1
  <2> HIDE DEF at
  <2>3. \A x, y \in 0 .. Total - 1 : at[x] = at[y] => x = y
    BY <2>1
  <2>4. \A q \in pairs : \E x \in 0 .. Total - 1 : at[x] = q
    BY <1>5, <1>6, <2>1
  <2> HIDE DEF pairs
  <2>5. IsFiniteSet(pairs) /\ Cardinality(pairs) = Total
    BY <1>4, <2>2, <2>3, <2>4, Counted0
  <2> QED BY <2>5 DEF pairs
<1> QED BY <1>1, <1>5, <1>6, <1>7, <1>8

LEMMA PairsInOrder ==
  ASSUME set \in Sets, Dealt(keeper), NEW low, low = [q \in Pairs |-> {w \in Pairs : Below(w, q)}]
  PROVE  /\ StrictOrder(Pairs, low)
         /\ Ordering(InOrder(Pairs, Below), Pairs, low)
         /\ \A q \in Pairs : InOrder(Pairs, Below)[Cardinality(low[q]) + 1] = q
<1> DEFINE T == Pairs
           sorted == InOrder(T, Below)
<1>1. \A q \in T : q.on \in Nat /\ q.gtn \in Nat /\ q.place \in Nat
  <2>1. Total \in Nat
    BY ConcatenatedFacts
  <2> QED BY <2>1, PairFacts
<1>2. \A q, w \in T : q.place = w.place => q = w
  BY PairFacts
<1>3. IsFiniteSet(T)
  BY PairFacts
<1>4. low \in [T -> SUBSET T] /\ \A q \in T : low[q] = {w \in T : Below(w, q)}
  OBVIOUS
<1>5. sorted = [k \in 1 .. Cardinality(T) |->
                  CHOOSE e \in T : Cardinality({d \in T : Below(d, e)}) = k - 1]
  BY DEF InOrder
<1> HIDE DEF T, sorted
<1>6. \A q, w \in T : w \in low[q] <=> Below(w, q)
  BY <1>4
<1>7. StrictOrder(T, low)
  <2>1. \A x \in T : x \notin low[x]
    BY <1>1, <1>6 DEF Below
  <2>2. \A x, y, z \in T : x \in low[y] /\ y \in low[z] => x \in low[z]
    BY <1>1, <1>6 DEF Below
  <2>3. \A x, y \in T : x = y \/ x \in low[y] \/ y \in low[x]
    BY <1>1, <1>2, <1>6 DEF Below
  <2> QED BY <2>1, <2>2, <2>3 DEF StrictOrder
<1>8. sorted = [k \in 1 .. Cardinality(T) |-> sorted[k]]
  <2> DEFINE at(k) == CHOOSE e \in T : Cardinality({d \in T : Below(d, e)}) = k - 1
  <2>1. sorted = [k \in 1 .. Cardinality(T) |-> at(k)]
    BY <1>5
  <2> HIDE DEF at
  <2> QED BY <2>1
<1>9. ASSUME NEW k \in 1 .. Cardinality(T), \E e \in T : Cardinality(low[e]) = k - 1
      PROVE  sorted[k] \in T /\ Cardinality(low[sorted[k]]) = k - 1
  <2>1. \E e \in T : Cardinality({d \in T : Below(d, e)}) = k - 1
    BY <1>4, <1>9
  <2>2. sorted[k] = CHOOSE e \in T : Cardinality({d \in T : Below(d, e)}) = k - 1
    BY <1>5
  <2>3. sorted[k] \in T /\ Cardinality({d \in T : Below(d, sorted[k])}) = k - 1
    BY <2>1, <2>2
  <2> QED BY <1>4, <2>3
<1>10. Ordering(sorted, T, low)
  BY <1>3, <1>4, <1>7, <1>8, <1>9, OrderedBy
<1>11. ASSUME NEW q \in T
       PROVE  sorted[Cardinality(low[q]) + 1] = q
  <2> DEFINE k == Cardinality(low[q]) + 1
  <2>1. /\ Cardinality(low[q]) \in 0 .. Cardinality(T) - 1 /\ Cardinality(T) \in Nat
        /\ \A e \in T : Cardinality(low[e]) = Cardinality(low[q]) => e = q
    <3>1. low \in [T -> SUBSET T]
      BY <1>4
    <3>2. /\ \A x \in T : Cardinality(low[x]) \in 0 .. Cardinality(T) - 1
          /\ \A x, y \in T : Cardinality(low[x]) = Cardinality(low[y]) => x = y
      BY ONLY <1>3, <1>7, <3>1, RankingBy
    <3> QED BY <1>3, <3>2, FS_CardinalityType
  <2>2. k \in 1 .. Cardinality(T) /\ Cardinality(low[q]) = k - 1
    BY <2>1
  <2> HIDE DEF k
  <2>3. sorted[k] \in T /\ Cardinality(low[sorted[k]]) = k - 1
    BY <1>9, <2>2
  <2>4. sorted[k] = q
    BY <2>1, <2>2, <2>3
  <2> QED BY <2>4 DEF k
<1> QED BY <1>7, <1>10, <1>11 DEF T, sorted

(***************************************************************************)
(* The second sort gives every place to one header, whatever the numbers   *)
(* of the headers are and wherever the rounds have left them.              *)
(***************************************************************************)
LEMMA PlaceListBijective ==
  ASSUME set \in Sets, Dealt(keeper)
  PROVE  /\ PlaceList \in [1 .. Total -> 0 .. Total - 1]
         /\ \A m, n \in 1 .. Total : PlaceList[m] = PlaceList[n] => m = n
         /\ \A k \in 0 .. Total - 1 : \E n \in 1 .. Total : PlaceList[n] = k
<1> DEFINE sorted == InOrder(Pairs, Below)
           low == [q \in Pairs |-> {w \in Pairs : Below(w, q)}]
<1>1. PlaceList = [n \in 1 .. Total |-> sorted[n].place]
  BY DEF PlaceList
<1>2. Ordering(sorted, Pairs, low) /\ Cardinality(Pairs) = Total
  BY PairsInOrder, PairFacts
<1> HIDE DEF sorted, low
<1>3. /\ \A n \in 1 .. Total : sorted[n] \in Pairs
      /\ \A m, n \in 1 .. Total : sorted[m] = sorted[n] => m = n
      /\ \A q \in Pairs : \E n \in 1 .. Total : sorted[n] = q
  <2>1. sorted \in Seq(Pairs) /\ Len(sorted) = Total
    BY <1>2 DEF Ordering
  <2>2. \A n \in 1 .. Total : sorted[n] \in Pairs
    BY <2>1, ElementOfSeq
  <2> QED BY <1>2, <2>2 DEF Ordering
<1>4. \A n \in 1 .. Total : PlaceList[n] = sorted[n].place
  BY <1>1
<1>5. PlaceList \in [1 .. Total -> 0 .. Total - 1]
  <2>1. \A n \in 1 .. Total : PlaceList[n] \in 0 .. Total - 1
    BY <1>3, <1>4, PairFacts
  <2> QED BY <1>1, <2>1
<1>6. \A m, n \in 1 .. Total : PlaceList[m] = PlaceList[n] => m = n
  BY <1>3, <1>4, PairFacts
<1>7. ASSUME NEW k \in 0 .. Total - 1
      PROVE  \E n \in 1 .. Total : PlaceList[n] = k
  <2>1. PICK q \in Pairs : q.place = k
    BY PairFacts
  <2> QED BY <1>3, <1>4, <2>1
<1> QED BY <1>5, <1>6, <1>7

-----------------------------------------------------------------------------
(***************************************************************************)
(* The files are such that a later header has no lower local number: then  *)
(* the numbers the cache gives to the headers ascend.                      *)
(***************************************************************************)
Rising(nts) ==
  \A f, g \in DOMAIN nts : \A r, s \in Rank :
    r < s \/ (r = s /\ f < g) => First(nts[f], r) <= First(nts[g], s)

LEMMA GtnAscends ==
  ASSUME set \in Sets, Rising(set.nts), NEW g \in Traces, NEW h \in Traces,
         NEW r \in Rank, NEW s \in Rank, NEW i \in Nat, NEW j \in Nat,
         HeldAt(g, r, i), HeldAt(h, s, j)
  PROVE  /\ Gtn(g) \in Nat
         /\ Ahead(g[1], r, i, h[1], s, j) => Gtn(g) < Gtn(h)
<1>1. ASSUME NEW q \in Rank, NEW e \in Traces, NEW k \in Nat, HeldAt(e, q, k)
      PROVE  /\ Gtn(e) = Pos(e[1], q, k) + First(Nt(e[1]), q)
             /\ Pos(e[1], q, k) \in Nat /\ First(Nt(e[1]), q) \in Nat
             /\ e[1] \in Files /\ k \in 1 .. Lnt(e[1], q)
  <2>1. e[1] \in Files /\ k \in 1 .. Lnt(e[1], q) /\ e = <<e[1], Ilst(e[1], q)[k]>>
    BY <1>1, EveryTraceHeld DEF HeldAt
  <2>2. Pos(e[1], q, k) \in Nat
    BY <2>1, PosFacts
  <2>3. e[2] = First(Nt(e[1]), q) + k - 1 /\ First(Nt(e[1]), q) \in Nat
    BY <2>1, LocalFacts
  <2>4. Gtn(e) = Offset(q) + Loff(e[1], q) + e[2]
    BY <1>1, ReaderIs DEF Gtn
  <2>5. q \in Nat
    BY DEF Rank
  <2>6. Offset(q) \in Nat /\ Loff(e[1], q) \in Nat
    BY <2>1, <2>5, LoffFacts, OffsetFacts
  <2> QED BY <2>1, <2>2, <2>3, <2>4, <2>6 DEF Pos
<1>2. ASSUME Ahead(g[1], r, i, h[1], s, j)
      PROVE  Gtn(g) < Gtn(h)
  <2>1. /\ Gtn(g) = Pos(g[1], r, i) + First(Nt(g[1]), r)
        /\ Pos(g[1], r, i) \in Nat /\ First(Nt(g[1]), r) \in Nat
        /\ g[1] \in Files /\ i \in 1 .. Lnt(g[1], r)
        /\ Gtn(h) = Pos(h[1], s, j) + First(Nt(h[1]), s)
        /\ Pos(h[1], s, j) \in Nat /\ First(Nt(h[1]), s) \in Nat
        /\ h[1] \in Files /\ j \in 1 .. Lnt(h[1], s)
    BY <1>1
  <2>2. Pos(g[1], r, i) < Pos(h[1], s, j)
    BY <1>2, <2>1, PosFacts
  <2>3. First(Nt(g[1]), r) <= First(Nt(h[1]), s)
    <3>1. CASE r = s /\ g[1] = h[1]
      BY <3>1, <2>1
    <3>2. CASE r < s \/ (r = s /\ g[1] < h[1])
      BY <2>1, <3>2, SetFacts DEF Rising, Nt
    <3> QED BY <1>2, <3>1, <3>2 DEF Ahead
  <2> QED BY <2>1, <2>2, <2>3
<1> QED BY <1>2, GtnType

LEMMA GtnDistinct ==
  ASSUME set \in Sets, Rising(set.nts), NEW g \in Traces, NEW h \in Traces, Gtn(g) = Gtn(h)
  PROVE  g = h
<1>1. PICK i \in Nat : /\ Reader(g) \in Rank /\ g[1] \in Files
                       /\ i \in 1 .. Lnt(g[1], Reader(g)) /\ HeldAt(g, Reader(g), i)
                       /\ g = <<g[1], Ilst(g[1], Reader(g))[i]>>
  BY HeldSomewhere
<1>2. PICK j \in Nat : /\ Reader(h) \in Rank /\ h[1] \in Files
                       /\ j \in 1 .. Lnt(h[1], Reader(h)) /\ HeldAt(h, Reader(h), j)
                       /\ h = <<h[1], Ilst(h[1], Reader(h))[j]>>
  BY HeldSomewhere
<1>3. /\ ~Ahead(g[1], Reader(g), i, h[1], Reader(h), j)
      /\ ~Ahead(h[1], Reader(h), j, g[1], Reader(g), i)
  BY <1>1, <1>2, GtnAscends
<1>4. Reader(g) = Reader(h) /\ g[1] = h[1] /\ i = j
  BY <1>1, <1>2, <1>3, AheadTotal
<1> QED BY <1>1, <1>2, <1>4

(***************************************************************************)
(* A round in which no process sees a change leaves every header where it  *)
(* is, when the numbers of the headers are distinct.                       *)
(***************************************************************************)
LEMMA Unmoved ==
  ASSUME set \in Sets, Rising(set.nts), NEW k, NEW m, Dealt(k), Dealt(m), ~Moved(k, m)
  PROVE  k = m
<1> SUFFICES ASSUME k # m PROVE FALSE
  OBVIOUS
<1>1. \A g, h \in Traces : k[g] = m[h] /\ NumLower(k, g) = NumLower(m, h) => g = h
  <2>1. \A g, h \in Traces : k[g] = m[h] /\ NumLower(k, g) = NumLower(m, h) => Gtn(g) = Gtn(h)
    BY DEF Moved
  <2> QED BY <2>1, GtnDistinct
<1>2. /\ k \in [Traces -> Rank] /\ m \in [Traces -> Rank]
      /\ \A r \in Rank : Cardinality(On(k, r)) = AllLnt(r) /\ Cardinality(On(m, r)) = AllLnt(r)
  BY DEF Dealt
<1>3. ASSUME NEW h \in Traces
      PROVE  k[h] = m[h]
  <2> DEFINE r == m[h]
  <2>1. r \in Rank /\ h \in On(m, r)
    BY <1>2 DEF On
  <2>2. NumLower(m, h) \in 0 .. Cardinality(On(k, r)) - 1
    BY <1>2, <2>1, OnFacts
  <2>3. PICK g \in On(k, r) : NumLower(k, g) = NumLower(m, h)
    BY <2>2, OnFacts
  <2>4. g \in Traces /\ k[g] = r
    BY DEF On
  <2>5. g = h
    BY <1>1, <2>3, <2>4
  <2> QED BY <2>4, <2>5
<1>4. k = m
  BY <1>2, <1>3
<1> QED BY <1>4

\* The headers of a process are all before those of the processes above it.
KeysAscend(k) == \A g, h \in Traces : k[g] < k[h] => set.key[g] < set.key[h]

(***************************************************************************)
(* Neighbours that get back what they have lent have their headers in      *)
(* order, if they lend any.                                                *)
(***************************************************************************)
LEMMA NeighboursAscend ==
  ASSUME set \in Sets, RegionSz # 0, NEW k, Dealt(k), Exchanged(k) = k,
         NEW r \in Rank, r + 1 \in Rank,
         NEW g \in On(k, r), NEW h \in On(k, r + 1)
  PROVE  set.key[g] < set.key[h]
<1> DEFINE m == LentLeft(k)
           a == AllLnt(r)
           b == AllLnt(r + 1)
<1>1. /\ RegionSz \in Nat /\ RegionSz > 0
      /\ a \in Nat /\ RegionSz <= a - 1 /\ b \in Nat /\ b > 0
  BY RegionFacts
<1>2. k \in [Traces -> Rank] /\ Cardinality(On(k, r)) = a /\ Cardinality(On(k, r + 1)) = b
  BY DEF Dealt
<1>3. /\ r \in Nat /\ r # LastRank /\ r + 1 # 0 /\ (r + 1) - 1 = r /\ r + 1 # r
  BY NumRankAssumption DEF Rank, LastRank
<1>4. \A e \in Traces : set.key[e] \in Int
  BY SetsAssumption DEF Traces
<1> HIDE DEF a, b
<1>5. PICK x \in On(k, r) : NumLower(k, x) = a - 1
  <2>1. a - 1 \in 0 .. Cardinality(On(k, r)) - 1
    BY <1>1, <1>2
  <2> QED BY <2>1, OnFacts
<1>6. PICK y \in On(k, r + 1) : NumLower(k, y) = 0
  <2>1. 0 \in 0 .. Cardinality(On(k, r + 1)) - 1
    BY <1>1, <1>2
  <2> QED BY <2>1, OnFacts
<1>7. /\ x \in Traces /\ k[x] = r /\ y \in Traces /\ k[y] = r + 1
      /\ g \in Traces /\ k[g] = r /\ h \in Traces /\ k[h] = r + 1
  BY DEF On
<1>8. m[x] = r /\ m[y] = r
  BY <1>1, <1>3, <1>5, <1>6, <1>7 DEF LentLeft
<1>9. NumHigher(m, x) >= RegionSz /\ NumHigher(m, y) < RegionSz
  <2>1. \A e \in Traces : k[e] = IF m[e] # LastRank /\ NumHigher(m, e) < RegionSz THEN m[e] + 1 ELSE m[e]
    <3>1. k = LentRight(m)
      BY DEF Exchanged
    <3>2. \A e \in Traces : LentRight(m)[e] = IF m[e] # LastRank /\ NumHigher(m, e) < RegionSz THEN m[e] + 1 ELSE m[e]
      BY DEF LentRight
    <3> QED BY <3>1, <3>2
  <2> HIDE DEF m
  <2>2. NumHigher(m, x) \in Nat /\ NumHigher(m, y) \in Nat
    <3>1. x \in On(m, r) /\ y \in On(m, r)
      BY <1>7, <1>8 DEF On
    <3>2. \A e \in On(m, r) : NumHigher(m, e) \in 0 .. Cardinality(On(m, r)) - 1
      BY OnFacts
    <3> QED BY <3>1, <3>2
  <2>3. k[x] = IF m[x] # LastRank /\ NumHigher(m, x) < RegionSz THEN m[x] + 1 ELSE m[x]
    BY <1>7, <2>1
  <2>4. k[y] = IF m[y] # LastRank /\ NumHigher(m, y) < RegionSz THEN m[y] + 1 ELSE m[y]
    BY <1>7, <2>1
  <2>5. ~(NumHigher(m, x) < RegionSz)
    BY <1>3, <1>7, <1>8, <2>3
  <2>6. NumHigher(m, y) < RegionSz
    BY <1>3, <1>7, <1>8, <2>4
  <2> QED BY <1>1, <2>2, <2>5, <2>6
<1> HIDE DEF m
<1>10. set.key[x] < set.key[y]
  <2> SUFFICES ASSUME set.key[y] <= set.key[x] PROVE FALSE
    BY <1>4, <1>7
  <2> DEFINE X == {e \in Traces : m[e] = m[x] /\ set.key[e] > set.key[x]}
             Y == {e \in Traces : m[e] = m[y] /\ set.key[e] > set.key[y]}
  <2>1. X \subseteq Y
    <3>1. ASSUME NEW e \in X
          PROVE  e \in Y
      <4>1. e \in Traces /\ m[e] = m[y] /\ set.key[e] > set.key[x] /\ set.key[e] \in Int
        BY <1>4, <1>8
      <4>2. set.key[e] > set.key[y]
        BY <1>4, <1>7, <4>1
      <4> QED BY <4>1, <4>2
    <3> QED BY <3>1
  <2>2. IsFiniteSet(Y)
    <3>1. Y \subseteq Traces
      OBVIOUS
    <3> QED BY <3>1, ConcatenatedFacts, FS_Subset
  <2>3. NumHigher(m, x) = Cardinality(X) /\ NumHigher(m, y) = Cardinality(Y)
    BY DEF NumHigher
  <2> HIDE DEF X, Y
  <2>4. /\ Cardinality(X) <= Cardinality(Y) /\ Cardinality(X) \in Nat /\ Cardinality(Y) \in Nat
    BY <2>1, <2>2, FS_Subset, FS_CardinalityType
  <2> QED BY <1>1, <1>9, <2>3, <2>4
<1>11. set.key[g] <= set.key[x]
  <2>1. NumLower(k, g) \in 0 .. a - 1
    BY <1>2, OnFacts
  <2>2. ~(NumLower(k, x) < NumLower(k, g))
    BY <1>1, <1>5, <2>1
  <2>3. ~(set.key[x] < set.key[g])
    BY <2>2, OnFacts
  <2> QED BY <1>4, <1>7, <2>3
<1>12. set.key[y] <= set.key[h]
  <2>1. NumLower(k, h) \in 0 .. b - 1
    BY <1>2, OnFacts
  <2>2. ~(NumLower(k, h) < NumLower(k, y))
    BY <1>1, <1>6, <2>1
  <2>3. ~(set.key[h] < set.key[y])
    BY <2>2, OnFacts
  <2> QED BY <1>4, <1>7, <2>3
<1> QED BY <1>4, <1>7, <1>10, <1>11, <1>12

LEMMA FixedAscends ==
  ASSUME set \in Sets, RegionSz # 0, NEW k, Dealt(k), Exchanged(k) = k
  PROVE  KeysAscend(k)
<1> DEFINE Wrong(g, h) == k[g] < k[h] /\ ~(set.key[g] < set.key[h])
           W == {s \in Nat : \E g, h \in Traces : Wrong(g, h) /\ k[h] = s}
<1> SUFFICES ASSUME NEW g0 \in Traces, NEW h0 \in Traces, Wrong(g0, h0) PROVE FALSE
  BY DEF KeysAscend
<1>1. k \in [Traces -> Rank] /\ \A r \in Rank : Cardinality(On(k, r)) = AllLnt(r)
  BY DEF Dealt
<1>2. \A h \in Traces : k[h] \in Nat /\ k[h] \in Rank
  BY <1>1 DEF Rank
<1>3. W \in SUBSET Nat /\ W # {}
  BY <1>2
<1>4. PICK s \in W : \A t \in W : s <= t
  BY <1>3, LeastNat
<1>5. PICK g \in Traces, h \in Traces : Wrong(g, h) /\ k[h] = s
  OBVIOUS
<1>6. s \in Nat /\ k[g] \in Nat /\ k[g] < s /\ s \in Rank
  BY <1>2, <1>5
<1>7. s - 1 \in Rank /\ s - 1 \in Nat /\ (s - 1) + 1 = s
  <2>1. s \in 0 .. NumRank - 1 /\ s > 0
    BY <1>6 DEF Rank
  <2>2. s - 1 \in 0 .. NumRank - 1 /\ s - 1 \in Nat /\ (s - 1) + 1 = s
    BY <2>1, NumRankAssumption
  <2> QED BY <2>2 DEF Rank
<1>8. PICK e \in On(k, s - 1) : TRUE
  <2>1. AllLnt(s - 1) \in Nat /\ AllLnt(s - 1) > 0
    BY <1>7, RegionFacts
  <2>2. 0 \in 0 .. Cardinality(On(k, s - 1)) - 1
    BY <1>1, <1>7, <2>1
  <2> QED BY <2>2, OnFacts
<1>9. e \in Traces /\ k[e] = s - 1 /\ h \in On(k, (s - 1) + 1)
  BY <1>5, <1>7 DEF On
<1>10. set.key[e] < set.key[h]
  BY <1>6, <1>7, <1>9, NeighboursAscend
<1>11. CASE k[g] = s - 1
  <2>1. g \in On(k, s - 1)
    BY <1>11 DEF On
  <2>2. set.key[g] < set.key[h]
    BY <1>6, <1>7, <1>9, <2>1, NeighboursAscend
  <2> QED BY <1>5, <2>2
<1>12. CASE k[g] # s - 1
  <2>1. k[g] < k[e]
    BY <1>6, <1>7, <1>9, <1>12
  <2>2. ~Wrong(g, e)
    <3>1. s - 1 \notin W
      BY <1>4, <1>6, <1>7
    <3> QED BY <1>7, <1>9, <3>1
  <2>3. set.key[g] < set.key[e]
    BY <2>1, <2>2
  <2>4. set.key[g] \in Int /\ set.key[e] \in Int /\ set.key[h] \in Int
    BY <1>9, SetsAssumption DEF Traces
  <2>5. set.key[g] < set.key[h]
    BY <1>10, <2>3, <2>4
  <2> QED BY <1>5, <2>5
<1> QED BY <1>11, <1>12

(***************************************************************************)
(* Where the keys ascend the place of a header is that of its key.         *)
(***************************************************************************)
LEMMA PositionIs ==
  ASSUME set \in Sets, Dealt(keeper), KeysAscend(keeper), NEW h \in Traces
  PROVE  Position(h) = PlaceOf(h)
<1>1. /\ Total \in Nat
      /\ \A g \in Traces : Position(g) \in 0 .. Total - 1
      /\ \A g, e \in Traces : Position(g) = Position(e) => g = e
      /\ \A g, e \in Traces : keeper[g] < keeper[e] => Position(g) < Position(e)
      /\ \A n \in 0 .. Total - 1 : \E g \in Traces : Position(g) = n
  BY PositionFacts
<1>2. \A g \in Traces : keeper[g] \in Nat /\ set.key[g] \in Int
  BY SetsAssumption DEF Dealt, Rank, Traces
<1>3. \A g, e \in Traces : set.key[g] = set.key[e] => g = e
  BY SetsAssumption DEF Traces
<1>4. ASSUME NEW g \in Traces, NEW e \in Traces, set.key[g] < set.key[e]
      PROVE  Position(g) < Position(e)
  <2>1. ~(keeper[e] < keeper[g])
    BY <1>2, <1>4 DEF KeysAscend
  <2>2. CASE keeper[g] < keeper[e]
    BY <1>1, <2>2
  <2>3. CASE keeper[g] = keeper[e]
    <3> DEFINE r == keeper[g]
    <3>1. g \in On(keeper, r) /\ e \in On(keeper, r)
      BY <2>3 DEF On
    <3>2. NumLower(keeper, g) < NumLower(keeper, e)
      BY <1>4, <3>1, OnFacts
    <3>3. /\ NumLower(keeper, g) \in 0 .. Cardinality(On(keeper, r)) - 1
          /\ NumLower(keeper, e) \in 0 .. Cardinality(On(keeper, r)) - 1
      BY <3>1, OnFacts
    <3>4. Offset(r) \in Nat
      BY <1>2, OffsetFacts
    <3>5. /\ Position(g) = Offset(r) + NumLower(keeper, g)
          /\ Position(e) = Offset(r) + NumLower(keeper, e)
      BY <2>3 DEF Position
    <3> QED BY <3>2, <3>3, <3>4, <3>5
  <2> QED BY <1>2, <2>1, <2>2, <2>3
<1>5. \A g, e \in Traces : set.key[g] < set.key[e] <=> Position(g) < Position(e)
  <2> TAKE g, e \in Traces
  <2>1. Position(g) \in Nat /\ Position(e) \in Nat
    BY <1>1
  <2> QED BY <1>2, <1>3, <1>4, <2>1
<1> DEFINE L == {g \in Traces : set.key[g] < set.key[h]}
           n == Position(h)
           p == [j \in 0 .. n - 1 |-> CHOOSE g \in Traces : Position(g) = j]
<1>6. n \in Nat /\ n < Total
  BY <1>1
<1>7. \A j \in 0 .. n - 1 : p[j] \in Traces /\ Position(p[j]) = j /\ j < n
  <2>1. \A j \in 0 .. n - 1 : j \in 0 .. Total - 1 /\ j < n
    BY <1>1, <1>6
  <2> QED BY <1>1, <2>1
<1>8. \A g : g \in L <=> g \in Traces /\ Position(g) < n
  BY <1>5
<1>9. p \in [0 .. n - 1 -> L]
  BY <1>7, <1>8
<1> HIDE DEF p, L
<1>10. \A x, y \in 0 .. n - 1 : p[x] = p[y] => x = y
  BY <1>7
<1>11. \A g \in L : \E j \in 0 .. n - 1 : p[j] = g
  <2> TAKE g \in L
  <2>1. g \in Traces /\ Position(g) \in 0 .. n - 1
    BY <1>1, <1>6, <1>8
  <2>2. p[Position(g)] = g
    BY <1>1, <1>7, <2>1
  <2> QED BY <2>1, <2>2
<1> HIDE DEF n
<1>12. Cardinality(L) = n
  BY <1>6, <1>9, <1>10, <1>11, Counted0
<1> QED BY <1>12 DEF L, n, PlaceOf

(***************************************************************************)
(* The n-th of the headers of all processes, counted from 0.               *)
(***************************************************************************)
HeaderAt(n, h) == \E r \in Rank : \E i \in Nat : HeldAt(h, r, i) /\ n = Pos(h[1], r, i)

LEMMA HeadersInOrder ==
  ASSUME set \in Sets, Rising(set.nts)
  PROVE  /\ \A h \in Traces : \E n \in 0 .. Total - 1 : HeaderAt(n, h)
         /\ \A n \in 0 .. Total - 1 : \E h \in Traces : HeaderAt(n, h)
         /\ \A g, h \in Traces : \A m, n \in 0 .. Total - 1 :
              HeaderAt(m, g) /\ HeaderAt(n, h) =>
                /\ g = h <=> m = n
                /\ m < n <=> Gtn(g) < Gtn(h)
<1>1. Total = Offset(NumRank) /\ Total \in Nat
  BY HeadersAreTraces, ConcatenatedFacts
<1>2. ASSUME NEW h \in Traces
      PROVE  \E n \in 0 .. Total - 1 : HeaderAt(n, h)
  <2>1. PICK i \in Nat : /\ Reader(h) \in Rank /\ h[1] \in Files
                         /\ i \in 1 .. Lnt(h[1], Reader(h)) /\ HeldAt(h, Reader(h), i)
    BY HeldSomewhere
  <2>2. Pos(h[1], Reader(h), i) \in 0 .. Total - 1
    BY <1>1, <2>1, PosFacts
  <2>3. HeaderAt(Pos(h[1], Reader(h), i), h)
    BY <2>1 DEF HeaderAt
  <2> QED BY <2>2, <2>3
<1>3. ASSUME NEW n \in 0 .. Total - 1
      PROVE  \E h \in Traces : HeaderAt(n, h)
  <2>1. PICK r \in Rank, f \in Files : \E i \in 1 .. Lnt(f, r) : n = Pos(f, r, i)
    BY <1>1, PosFacts
  <2>2. PICK i \in 1 .. Lnt(f, r) : n = Pos(f, r, i)
    BY <2>1
  <2> DEFINE h == <<f, Ilst(f, r)[i]>>
  <2>3. h \in Traces /\ h[1] = f /\ i \in Nat
    BY LocalFacts
  <2>4. HeldAt(h, r, i)
    BY <2>3 DEF HeldAt
  <2> HIDE DEF h
  <2>5. HeaderAt(n, h)
    BY <2>2, <2>3, <2>4 DEF HeaderAt
  <2> QED BY <2>3, <2>5
<1>4. ASSUME NEW g \in Traces, NEW h \in Traces,
             NEW m \in 0 .. Total - 1, NEW n \in 0 .. Total - 1, HeaderAt(m, g), HeaderAt(n, h)
      PROVE  /\ g = h <=> m = n
             /\ m < n <=> Gtn(g) < Gtn(h)
  <2>1. PICK r \in Rank : \E i \in Nat : HeldAt(g, r, i) /\ m = Pos(g[1], r, i)
    BY <1>4 DEF HeaderAt
  <2>2. PICK i \in Nat : HeldAt(g, r, i) /\ m = Pos(g[1], r, i)
    BY <2>1
  <2>3. PICK s \in Rank : \E j \in Nat : HeldAt(h, s, j) /\ n = Pos(h[1], s, j)
    BY <1>4 DEF HeaderAt
  <2>4. PICK j \in Nat : HeldAt(h, s, j) /\ n = Pos(h[1], s, j)
    BY <2>3
  <2>5. /\ g[1] \in Files /\ h[1] \in Files /\ i \in 1 .. Lnt(g[1], r) /\ j \in 1 .. Lnt(h[1], s)
        /\ g = <<g[1], Ilst(g[1], r)[i]>> /\ h = <<h[1], Ilst(h[1], s)[j]>>
    BY <2>2, <2>4, EveryTraceHeld DEF HeldAt
  <2>6. /\ m \in Nat /\ n \in Nat /\ Gtn(g) \in Nat /\ Gtn(h) \in Nat
    BY <1>1, GtnType
  <2>7. CASE Ahead(g[1], r, i, h[1], s, j)
    <3>1. m < n
      BY <2>2, <2>4, <2>5, <2>7, PosFacts
    <3>2. Gtn(g) < Gtn(h)
      BY <2>2, <2>4, <2>7, GtnAscends
    <3>3. g # h
      BY <2>6, <3>2
    <3> QED BY <2>6, <3>1, <3>2, <3>3
  <2>8. CASE Ahead(h[1], s, j, g[1], r, i)
    <3>1. n < m
      BY <2>2, <2>4, <2>5, <2>8, PosFacts
    <3>2. Gtn(h) < Gtn(g)
      BY <2>2, <2>4, <2>8, GtnAscends
    <3>3. g # h
      BY <2>6, <3>2
    <3> QED BY <2>6, <3>1, <3>2, <3>3
  <2>9. CASE r = s /\ g[1] = h[1] /\ i = j
    <3>1. g = h /\ m = n
      BY <2>2, <2>4, <2>5, <2>9
    <3> QED BY <2>6, <3>1
  <2> QED BY <2>5, <2>7, <2>8, <2>9, AheadTotal
<1> QED BY <1>2, <1>3, <1>4

(***************************************************************************)
(* The second sort brings the place of every header to where the header    *)
(* is among the headers of all processes.                                  *)
(***************************************************************************)
LEMMA PlaceListIs ==
  ASSUME set \in Sets, Rising(set.nts), Dealt(keeper), KeysAscend(keeper), RegionSz # 0
  PROVE  \A r \in Rank : \A f \in Files : \A i \in 1 .. Lnt(f, r) :
           PlaceList[Pos(f, r, i) + 1] = PlaceOf(<<f, Ilst(f, r)[i]>>)
<1> DEFINE low == [q \in Pairs |-> {w \in Pairs : Below(w, q)}]
           at == [n \in 0 .. Total - 1 |-> CHOOSE h \in Traces : HeaderAt(n, h)]
<1>1. Total = Offset(NumRank) /\ Total \in Nat
  BY HeadersAreTraces, ConcatenatedFacts
<1>2. ASSUME NEW h \in Traces
      PROVE  /\ Pair(h) \in Pairs /\ Pair(h).on = 0 /\ Pair(h).gtn = Gtn(h)
             /\ Pair(h).place = PlaceOf(h) /\ Gtn(h) \in Nat
  <2>1. Pair(h).on = Bound(h) /\ Pair(h).gtn = Gtn(h) /\ Pair(h).place = Position(h)
    BY DEF Pair
  <2> QED BY <2>1, PairFacts, PositionIs, GtnType DEF Bound
<1>3. \A n \in 0 .. Total - 1 : at[n] \in Traces /\ HeaderAt(n, at[n])
  BY HeadersInOrder
<1> HIDE DEF at
<1>4. \A q \in Pairs : \E h \in Traces : q = Pair(h)
  BY PairFacts
<1>5. ASSUME NEW g \in Traces, NEW h \in Traces,
             NEW m \in 0 .. Total - 1, NEW n \in 0 .. Total - 1, HeaderAt(m, g), HeaderAt(n, h)
      PROVE  /\ Below(Pair(g), Pair(h)) <=> m < n
             /\ Pair(g) = Pair(h) => m = n
  <2>1. /\ g = h <=> m = n
        /\ m < n <=> Gtn(g) < Gtn(h)
        /\ n < m <=> Gtn(h) < Gtn(g)
    BY <1>5, HeadersInOrder
  <2>2. m \in Nat /\ n \in Nat
    BY <1>1
  <2>3. CASE m = n
    <3>1. ~(Pair(g).place < Pair(h).place)
      <4>1. PlaceOf(h) \in Nat
        BY PlaceOfFacts
      <4> QED BY <1>2, <2>1, <2>3, <4>1
    <3> QED BY <1>2, <2>1, <2>2, <2>3, <3>1 DEF Below
  <2>4. CASE m # n
    <3>1. Gtn(g) # Gtn(h)
      BY <1>2, <2>1, <2>2, <2>4
    <3> QED BY <1>2, <2>1, <2>2, <2>4, <3>1 DEF Below
  <2> QED BY <2>3, <2>4
<1> HIDE DEF low
<1>6. ASSUME NEW h \in Traces, NEW n \in 0 .. Total - 1, HeaderAt(n, h)
      PROVE  Cardinality(low[Pair(h)]) = n
  <2> DEFINE L == low[Pair(h)]
             first == [x \in 0 .. n - 1 |-> Pair(at[x])]
  <2>1. n \in Nat /\ \A x \in 0 .. n - 1 : x \in 0 .. Total - 1 /\ x < n
    BY <1>1
  <2>2. \A q : q \in L <=> q \in Pairs /\ Below(q, Pair(h))
    BY <1>2 DEF low
  <2> HIDE DEF L
  <2>3. \A x \in 0 .. n - 1 : Pair(at[x]) \in L
    BY <1>2, <1>3, <1>5, <1>6, <2>1, <2>2
  <2>4. first \in [0 .. n - 1 -> L]
    BY <2>3
  <2>5. \A x, y \in 0 .. n - 1 : first[x] = first[y] => x = y
    BY <1>3, <1>5, <2>1
  <2>6. \A q \in L : \E x \in 0 .. n - 1 : first[x] = q
    <3> TAKE q \in L
    <3>1. PICK g \in Traces : q = Pair(g)
      BY <1>4, <2>2
    <3>2. PICK m \in 0 .. Total - 1 : HeaderAt(m, g)
      BY HeadersInOrder
    <3>3. m < n
      BY <1>5, <1>6, <2>2, <3>1, <3>2
    <3>4. m \in 0 .. n - 1 /\ at[m] = g
      <4>1. at[m] \in Traces /\ HeaderAt(m, at[m])
        BY <1>3
      <4>2. at[m] = g
        BY <3>2, <4>1, HeadersInOrder
      <4>3. m \in Nat
        BY <1>1
      <4> QED BY <2>1, <3>3, <4>2, <4>3
    <3> QED BY <3>1, <3>4
  <2> HIDE DEF first
  <2>7. Cardinality(L) = n
    BY <2>1, <2>4, <2>5, <2>6, Counted0
  <2> QED BY <2>7 DEF L
<1>7. ASSUME NEW h \in Traces, NEW n \in 0 .. Total - 1, HeaderAt(n, h)
      PROVE  PlaceList[n + 1] = PlaceOf(h)
  <2> DEFINE sorted == InOrder(Pairs, Below)
  <2>1. PlaceList = [k \in 1 .. Total |-> sorted[k].place]
    BY DEF PlaceList
  <2>2. sorted[Cardinality(low[Pair(h)]) + 1] = Pair(h)
    BY <1>2, PairsInOrder DEF low
  <2> HIDE DEF sorted
  <2>3. sorted[n + 1] = Pair(h)
    BY <1>6, <1>7, <2>2
  <2>4. n + 1 \in 1 .. Total
    BY <1>1
  <2> QED BY <1>2, <2>1, <2>3, <2>4
<1>8. ASSUME NEW r \in Rank, NEW f \in Files, NEW i \in 1 .. Lnt(f, r)
      PROVE  PlaceList[Pos(f, r, i) + 1] = PlaceOf(<<f, Ilst(f, r)[i]>>)
  <2> DEFINE h == <<f, Ilst(f, r)[i]>>
  <2>1. h \in Traces /\ h[1] = f /\ i \in Nat
    BY LocalFacts
  <2>2. HeldAt(h, r, i)
    BY <2>1 DEF HeldAt
  <2> HIDE DEF h
  <2>3. HeaderAt(Pos(f, r, i), h)
    BY <2>1, <2>2 DEF HeaderAt
  <2>4. Pos(f, r, i) \in 0 .. Total - 1
    BY <1>1, PosFacts
  <2>5. PlaceList[Pos(f, r, i) + 1] = PlaceOf(h)
    BY <1>7, <2>1, <2>3, <2>4
  <2> QED BY <2>5 DEF h
<1> QED BY <1>8

(***************************************************************************)
(* Files of one size rise, and on two processes files that get larger.     *)
(***************************************************************************)
THEOREM EqualSizesRise ==
  ASSUME NEW n \in Nat, NEW nts, \A f \in DOMAIN nts : nts[f] = n
  PROVE  Rising(nts)
<1>1. ASSUME NEW r \in Rank, NEW s \in Rank, r <= s
      PROVE  First(n, r) <= First(n, s)
  <2>1. First(n, r) \in Nat /\ Share(n, r) \in Nat /\ First(n, s) \in Nat
    BY BlocksEndToEnd
  <2>2. CASE r = s
    BY <2>1, <2>2
  <2>3. CASE r < s
    <3>1. First(n, r) + Share(n, r) <= First(n, s)
      BY <2>3, LaterBlocks
    <3> QED BY <2>1, <3>1
  <2> QED BY <1>1, <2>2, <2>3 DEF Rank
<1>2. ASSUME NEW f \in DOMAIN nts, NEW g \in DOMAIN nts, NEW r \in Rank, NEW s \in Rank,
             r < s \/ (r = s /\ f < g)
      PROVE  First(nts[f], r) <= First(nts[g], s)
  <2>1. r <= s
    BY <1>2 DEF Rank
  <2> QED BY <1>1, <2>1
<1> QED BY <1>2 DEF Rising

THEOREM TwoProcessesRise ==
  ASSUME NumRank \in {1, 2}, NEW nts \in Seq(Nat),
         \A f, g \in DOMAIN nts : f < g => nts[f] <= nts[g]
  PROVE  Rising(nts)
<1>1. ASSUME NEW f \in DOMAIN nts, NEW g \in DOMAIN nts, NEW r \in Rank, NEW s \in Rank,
             r < s \/ (r = s /\ f < g)
      PROVE  First(nts[f], r) <= First(nts[g], s)
  <2>1. nts[f] \in Nat /\ nts[g] \in Nat
    OBVIOUS
  <2>2. First(nts[f], 0) = 0 /\ First(nts[g], s) \in Nat
    BY <2>1, BlocksEndToEnd
  <2>3. CASE r = 0
    BY <2>2, <2>3
  <2>4. CASE r # 0
    <3>1. NumRank = 2 /\ r = 1 /\ s = 1 /\ f < g
      BY <1>1, <2>4 DEF Rank
    <3>2. nts[f] <= nts[g]
      BY <3>1
    <3>3. /\ First(nts[f], 1) = (nts[f] \div 2) + Least(1, nts[f] % 2)
          /\ First(nts[g], 1) = (nts[g] \div 2) + Least(1, nts[g] % 2)
      BY <3>1, <2>1 DEF First
    <3> DEFINE a == nts[f]  b == nts[g]
    <3>4. a \in Nat /\ b \in Nat /\ a <= b
      BY <2>1, <3>2
    <3> HIDE DEF a, b
    <3>5. (a \div 2) + Least(1, a % 2) <= (b \div 2) + Least(1, b % 2)
      BY <3>4 DEF Least
    <3>6. First(nts[f], 1) <= First(nts[g], 1)
      BY <3>3, <3>5 DEF a, b
    <3> QED BY <3>1, <3>6
  <2> QED BY <2>3, <2>4
<1> QED BY <1>1 DEF Rising

-----------------------------------------------------------------------------
(***************************************************************************)
(* The place the i-th trace of file f on r is given: its place among the   *)
(* files, or the one the sort brings to where its header is.               *)
(***************************************************************************)
Given(f, r, i) == IF sorting THEN PlaceList[Pos(f, r, i) + 1]
                  ELSE Concatenated(<<f, Ilst(f, r)[i]>>)

LEMMA GivenFacts ==
  ASSUME set \in Sets, Dealt(keeper)
  PROVE  /\ \A r \in Rank : \A f \in Files : \A i \in 1 .. Lnt(f, r) :
              Given(f, r, i) \in 0 .. Total - 1
         /\ \A r, s \in Rank : \A f, g \in Files :
              \A i \in 1 .. Lnt(f, r) : \A j \in 1 .. Lnt(g, s) :
                 Given(f, r, i) = Given(g, s, j) => r = s /\ f = g /\ i = j
         /\ \A n \in 0 .. Total - 1 :
              \E r \in Rank : \E f \in Files : \E i \in 1 .. Lnt(f, r) : Given(f, r, i) = n
<1>1. Total \in Nat /\ Total = Offset(NumRank)
  BY ConcatenatedFacts, HeadersAreTraces
<1>2. CASE sorting
  <2>1. \A f, r, i : Given(f, r, i) = PlaceList[Pos(f, r, i) + 1]
    BY <1>2 DEF Given
  <2>2. ASSUME NEW r \in Rank, NEW f \in Files, NEW i \in 1 .. Lnt(f, r)
        PROVE  Pos(f, r, i) \in Nat /\ Pos(f, r, i) + 1 \in 1 .. Total
    <3>1. Pos(f, r, i) \in 0 .. Offset(NumRank) - 1
      BY PosFacts
    <3> QED BY <1>1, <3>1
  <2>3. ASSUME NEW r \in Rank, NEW s \in Rank, NEW f \in Files, NEW g \in Files,
               NEW i \in 1 .. Lnt(f, r), NEW j \in 1 .. Lnt(g, s),
               Given(f, r, i) = Given(g, s, j)
        PROVE  r = s /\ f = g /\ i = j
    <3>1. Pos(f, r, i) + 1 = Pos(g, s, j) + 1
      BY <2>1, <2>2, <2>3, PlaceListBijective
    <3>2. Pos(f, r, i) = Pos(g, s, j) /\ Pos(f, r, i) \in Nat
      BY <2>2, <3>1
    <3>3. ~Ahead(f, r, i, g, s, j) /\ ~Ahead(g, s, j, f, r, i)
      BY <3>2, PosFacts
    <3> QED BY <3>3, AheadTotal
  <2>4. ASSUME NEW n \in 0 .. Total - 1
        PROVE  \E r \in Rank : \E f \in Files : \E i \in 1 .. Lnt(f, r) : Given(f, r, i) = n
    <3>1. PICK m \in 1 .. Total : PlaceList[m] = n
      BY PlaceListBijective
    <3>2. m - 1 \in 0 .. Offset(NumRank) - 1 /\ (m - 1) + 1 = m
      BY <1>1
    <3>3. PICK r \in Rank, f \in Files : \E i \in 1 .. Lnt(f, r) : m - 1 = Pos(f, r, i)
      BY <3>2, PosFacts
    <3>4. PICK i \in 1 .. Lnt(f, r) : m - 1 = Pos(f, r, i)
      BY <3>3
    <3>5. Given(f, r, i) = n
      BY <2>1, <3>1, <3>2, <3>4
    <3> QED BY <3>5
  <2>5. ASSUME NEW r \in Rank, NEW f \in Files, NEW i \in 1 .. Lnt(f, r)
        PROVE  Given(f, r, i) \in 0 .. Total - 1
    BY <2>1, <2>2, PlaceListBijective
  <2> QED BY <2>3, <2>4, <2>5
<1>3. CASE ~sorting
  <2>1. \A f, r, i : Given(f, r, i) = Concatenated(<<f, Ilst(f, r)[i]>>)
    BY <1>3 DEF Given
  <2>2. ASSUME NEW r \in Rank, NEW s \in Rank, NEW f \in Files, NEW g \in Files,
               NEW i \in 1 .. Lnt(f, r), NEW j \in 1 .. Lnt(g, s),
               Given(f, r, i) = Given(g, s, j)
        PROVE  r = s /\ f = g /\ i = j
    <3> DEFINE h == <<f, Ilst(f, r)[i]>>
    <3>1. h \in Traces /\ i \in Nat
      BY LocalFacts
    <3>2. <<g, Ilst(g, s)[j]>> \in Traces /\ j \in Nat
      BY LocalFacts
    <3>3. h = <<g, Ilst(g, s)[j]>>
      BY <2>1, <2>2, <3>1, <3>2, ConcatenatedFacts
    <3>4. f = g /\ h[1] = f
      BY <3>3
    <3>5. HeldAt(h, r, i) /\ HeldAt(h, s, j)
      BY <3>3, <3>4 DEF HeldAt
    <3> HIDE DEF h
    <3>6. r = s /\ i = j
      BY <3>1, <3>2, <3>5, EveryTraceHeld
    <3> QED BY <3>4, <3>6
  <2>3. ASSUME NEW n \in 0 .. Total - 1
        PROVE  \E r \in Rank : \E f \in Files : \E i \in 1 .. Lnt(f, r) : Given(f, r, i) = n
    <3>1. PICK h \in Traces : Concatenated(h) = n
      BY ConcatenatedFacts
    <3>2. PICK r \in Rank : \E i \in Nat : HeldAt(h, r, i)
      BY EveryTraceHeld
    <3>3. PICK i \in Nat : HeldAt(h, r, i)
      BY <3>2
    <3>4. h[1] \in Files /\ i \in 1 .. Lnt(h[1], r) /\ h = <<h[1], Ilst(h[1], r)[i]>>
      BY <3>3, EveryTraceHeld DEF HeldAt
    <3>5. Given(h[1], r, i) = n
      BY <2>1, <3>1, <3>4
    <3> QED BY <3>4, <3>5
  <2>4. ASSUME NEW r \in Rank, NEW f \in Files, NEW i \in 1 .. Lnt(f, r)
        PROVE  Given(f, r, i) \in 0 .. Total - 1
    <3>1. <<f, Ilst(f, r)[i]>> \in Traces
      BY LocalFacts
    <3> QED BY <2>1, <3>1, ConcatenatedFacts
  <2> QED BY <2>2, <2>3, <2>4
<1> QED BY <1>2, <1>3

(***************************************************************************)
(* A piece of a sequence.                                                  *)
(***************************************************************************)
LEMMA PieceOf ==
  ASSUME NEW s, s \in Seq(Nat), NEW o \in Nat, NEW n \in Nat, n = 0 \/ o + n <= Len(s)
  PROVE  /\ SubSeq(s, o + 1, o + n) \in Seq(Nat) /\ Len(SubSeq(s, o + 1, o + n)) = n
         /\ \A i \in 1 .. n : SubSeq(s, o + 1, o + n)[i] = s[o + i]
<1>1. o + 1 \in Int /\ o + n \in Int
  OBVIOUS
<1>2. \A i \in o + 1 .. o + n : s[i] \in Nat
  <2>1. \A i \in 1 .. Len(s) : s[i] \in Nat
    OBVIOUS
  <2>2. \A i \in o + 1 .. o + n : i \in 1 .. Len(s)
    OBVIOUS
  <2> QED BY <2>1, <2>2
<1>3. /\ SubSeq(s, o + 1, o + n) \in Seq(Nat)
      /\ Len(SubSeq(s, o + 1, o + n)) = IF o + 1 <= o + n THEN (o + n) - (o + 1) + 1 ELSE 0
      /\ \A i \in 1 .. (o + n) - (o + 1) + 1 :
           SubSeq(s, o + 1, o + n)[i] = s[(o + 1) + i - 1]
  BY <1>1, <1>2, SubSeqProperties
<1>4. \A i \in 1 .. n : (o + 1) + i - 1 = o + i /\ i \in 1 .. (o + n) - (o + 1) + 1
  OBVIOUS
<1>5. (IF o + 1 <= o + n THEN (o + n) - (o + 1) + 1 ELSE 0) = n
  OBVIOUS
<1>6. PICK t : t = SubSeq(s, o + 1, o + n)
  OBVIOUS
<1>7. t \in Seq(Nat) /\ Len(t) = n
  BY <1>3, <1>5, <1>6
<1>8. \A i \in 1 .. n : t[i] = s[o + i]
  BY <1>3, <1>4, <1>6
<1> QED BY <1>6, <1>7, <1>8

(***************************************************************************)
(* The parts of the list the sort returns that belong to one file.         *)
(***************************************************************************)
PartOf(list, f, r) == SubSeq(list, Loff(f, r) + 1, Loff(f, r) + Lnt(f, r))
OwnPlaces(r)       == SubSeq(PlaceList, Offset(r) + 1, Offset(r) + AllLnt(r))

LEMMA PartFacts ==
  ASSUME set \in Sets, Dealt(keeper), NEW r \in Rank
  PROVE  /\ OwnPlaces(r) \in Seq(Nat) /\ Len(OwnPlaces(r)) = AllLnt(r)
         /\ \A f \in Files : /\ PartOf(OwnPlaces(r), f, r) \in Seq(Nat)
                             /\ Len(PartOf(OwnPlaces(r), f, r)) = Lnt(f, r)
                             /\ \A i \in 1 .. Lnt(f, r) :
                                  PartOf(OwnPlaces(r), f, r)[i] = PlaceList[Pos(f, r, i) + 1]
<1> DEFINE o == Offset(r)  a == AllLnt(r)  list == PlaceList  own == OwnPlaces(r)
<1>1. Total \in Nat /\ Total = Offset(NumRank)
  BY ConcatenatedFacts, HeadersAreTraces
<1>2. o \in Nat /\ a \in Nat /\ o + a <= Total
  <2>1. r \in Nat /\ NumRank \in Nat /\ r < NumRank
    BY NumRankAssumption DEF Rank
  <2> QED BY <1>1, <2>1, LoffFacts, OffsetFacts
<1>3. list \in [1 .. Total -> Nat] /\ Len(list) = Total /\ list \in Seq(Nat)
  <2>1. PlaceList \in [1 .. Total -> 0 .. Total - 1]
    BY PlaceListBijective
  <2>2. list \in [1 .. Total -> Nat]
    BY <1>1, <2>1
  <2> QED BY <1>1, <2>2
<1>4. own = SubSeq(list, o + 1, o + a)
  BY DEF OwnPlaces
<1>5. own \in Seq(Nat) /\ Len(own) = a /\ \A n \in 1 .. a : own[n] = list[o + n]
  <2> HIDE DEF list, o, a, own
  <2> QED BY <1>2, <1>3, <1>4, PieceOf
<1>6. ASSUME NEW f \in Files
      PROVE  /\ PartOf(own, f, r) \in Seq(Nat)
             /\ Len(PartOf(own, f, r)) = Lnt(f, r)
             /\ \A i \in 1 .. Lnt(f, r) : PartOf(own, f, r)[i] = list[Pos(f, r, i) + 1]
  <2> DEFINE l == Loff(f, r)  n == Lnt(f, r)  part == PartOf(own, f, r)
  <2>1. l \in Nat /\ n \in Nat /\ l + n <= a
    BY LoffFacts, LocalFacts
  <2>2. part = SubSeq(own, l + 1, l + n)
    BY DEF PartOf
  <2>3. \A i \in 1 .. n : Pos(f, r, i) + 1 = o + (l + i)
    <3> TAKE i \in 1 .. n
    <3>1. Pos(f, r, i) = o + l + i - 1
      BY DEF Pos
    <3> HIDE DEF o, l, n
    <3> QED BY <1>2, <2>1, <3>1
  <2> HIDE DEF list, o, a, own, l, n, part
  <2>4. part \in Seq(Nat) /\ Len(part) = n /\ \A i \in 1 .. n : part[i] = own[l + i]
    BY <1>5, <2>1, <2>2, PieceOf
  <2>5. \A i \in 1 .. n : l + i \in 1 .. a
    BY <1>2, <2>1
  <2>6. \A i \in 1 .. n : part[i] = list[Pos(f, r, i) + 1]
    BY <1>5, <2>3, <2>4, <2>5
  <2> QED BY <2>4, <2>6 DEF part, n
<1>7. Len(own) = AllLnt(r)
  BY <1>5 DEF a
<1> QED BY <1>5, <1>6, <1>7 DEF own, list

-----------------------------------------------------------------------------
(***************************************************************************)
(* The places process r has for file f are those its traces are given.     *)
(***************************************************************************)
Listed(f, r) == /\ olst[r][f] \in Seq(Nat) /\ Len(olst[r][f]) = Lnt(f, r)
                /\ \A i \in 1 .. Lnt(f, r) : olst[r][f][i] = Given(f, r, i)

\* How many traces of its file process r has in the chunk it is at.
ChunkOf(r) == Chunk(loop[r], LocalSize(r), MaxBlock)

(***************************************************************************)
(* What r has in memory is the chunk it is at, in the order of the places. *)
(***************************************************************************)
Item(r, k) == [place |-> Given(loop[r].file, r, k),
               trace |-> <<loop[r].file, Ilst(loop[r].file, r)[k]>>]

BlockOk(r) ==
  /\ DOMAIN block[r] = 1 .. ChunkOf(r) /\ Len(block[r]) = ChunkOf(r)
  /\ ChunkOf(r) = 0 => block[r] = <<>>
  /\ \A j, k \in 1 .. ChunkOf(r) : j < k => block[r][j].place < block[r][k].place
  /\ \A j \in 1 .. ChunkOf(r) :
       \E k \in loop[r].i + 1 .. loop[r].i + ChunkOf(r) : block[r][j] = Item(r, k)
  /\ \A k \in loop[r].i + 1 .. loop[r].i + ChunkOf(r) :
       \E j \in 1 .. ChunkOf(r) : block[r][j] = Item(r, k)

Loops == [file : Files, i : Nat, rem : Nat]

LEMMA ChunkIs ==
  ASSUME set \in Sets, NEW r \in Rank, loop[r] \in Loops
  PROVE  /\ LocalSize(r) \in Nat /\ loop[r].i \in Nat /\ loop[r].file \in Files
         /\ ChunkOf(r) \in Nat
         /\ loop[r].i >= LocalSize(r) => ChunkOf(r) = 0
         /\ loop[r].i < LocalSize(r) =>
              /\ loop[r].i + ChunkOf(r) <= LocalSize(r) /\ ChunkOf(r) <= MaxBlock
              /\ loop[r].i + ChunkOf(r) = LocalSize(r) \/ ChunkOf(r) = MaxBlock
<1>1. loop[r].i \in Nat /\ loop[r].file \in Files /\ MaxBlock \in Nat
  BY MaxBlockAssumption DEF Loops
<1>2. LocalSize(r) \in Nat
  BY <1>1, LocalFacts DEF LocalSize
<1> QED BY <1>1, <1>2 DEF ChunkOf, Chunk

LEMMA FetchedIs ==
  ASSUME set \in Sets, Dealt(keeper), NEW r \in Rank, loop[r] \in Loops, Listed(loop[r].file, r),
         NEW b, b = Fetched(r)
  PROVE  /\ DOMAIN b = 1 .. ChunkOf(r) /\ Len(b) = ChunkOf(r)
         /\ ChunkOf(r) = 0 => b = <<>>
         /\ \A j, k \in 1 .. ChunkOf(r) : j < k => b[j].place < b[k].place
         /\ \A j \in 1 .. ChunkOf(r) :
              \E k \in loop[r].i + 1 .. loop[r].i + ChunkOf(r) : b[j] = Item(r, k)
         /\ \A k \in loop[r].i + 1 .. loop[r].i + ChunkOf(r) :
              \E j \in 1 .. ChunkOf(r) : b[j] = Item(r, k)
<1> DEFINE f == loop[r].file
           i == loop[r].i
           n == ChunkOf(r)
           list == olst[r][f]
           places == SubSeq(list, i + 1, i + n)
           index == SortIndex(places)
           trace(k) == <<f, Ilst(f, r)[k]>>
           goes(k) == Given(f, r, k)
<1>1. b = [k \in 1 .. n |-> [place |-> places[index[k]], trace |-> trace(i + index[k])]]
  BY DEF Fetched, ChunkOf
<1>2. \A k : Item(r, k) = [place |-> goes(k), trace |-> trace(k)]
  BY DEF Item
<1>3. f \in Files /\ i \in Nat /\ n \in Nat
  BY ChunkIs
<1>4. /\ list \in Seq(Nat) /\ Len(list) = LocalSize(r)
      /\ \A k \in 1 .. LocalSize(r) : list[k] = goes(k)
      /\ \A j, k \in 1 .. LocalSize(r) : goes(j) = goes(k) => j = k
  <2>1. LocalSize(r) = Lnt(f, r)
    BY DEF LocalSize
  <2>2. \A j, k \in 1 .. Lnt(f, r) : goes(j) = goes(k) => j = k
    BY <1>3, GivenFacts
  <2> QED BY <2>1, <2>2 DEF Listed
<1>5. n = 0 \/ i + n <= LocalSize(r)
  BY ChunkIs
<1>6. LocalSize(r) \in Nat
  BY ChunkIs
<1> HIDE DEF f, i, n, list, places, index, trace, goes
<1>7. /\ places \in Seq(Nat) /\ Len(places) = n
      /\ \A k \in 1 .. n : places[k] = list[i + k]
  BY <1>3, <1>4, <1>5, PieceOf DEF places
<1>8. \A k \in 1 .. n : i + k \in 1 .. LocalSize(r)
  BY <1>3, <1>5, <1>6
<1>9. \A k \in 1 .. n : places[k] = goes(i + k)
  BY <1>4, <1>7, <1>8
<1>10. \A j, k \in 1 .. n : places[j] = places[k] => j = k
  <2> TAKE j, k \in 1 .. n
  <2>1. goes(i + j) = goes(i + k) => i + j = i + k
    BY <1>4, <1>8
  <2>2. i + j = i + k => j = k
    BY <1>3
  <2> QED BY <1>9, <2>1, <2>2
<1>11. places \in [1 .. n -> Nat]
  BY <1>7
<1>12. /\ index \in [1 .. n -> 1 .. n]
       /\ \A j, k \in 1 .. n : j < k => places[index[j]] < places[index[k]]
       /\ \A k \in 1 .. n : \E j \in 1 .. n : index[j] = k
  <2>1. index = SortIndex(places)
    BY DEF index
  <2>2. Len(places) = n
    BY <1>7
  <2>3. /\ SortIndex(places) \in [1 .. n -> 1 .. n]
        /\ \A j, k \in 1 .. n : j < k => places[SortIndex(places)[j]] < places[SortIndex(places)[k]]
        /\ \A k \in 1 .. n : \E j \in 1 .. n : SortIndex(places)[j] = k
    <3>1. n \in Nat
      BY <1>3
    <3> QED BY ONLY <3>1, <1>10, <1>11, <2>2, SortIndexIs, Zenon
  <2> QED BY ONLY <2>1, <2>3
<1>13. DOMAIN b = 1 .. n /\ Len(b) = n /\ (n = 0 => b = <<>>)
  <2>1. ASSUME n = 0
        PROVE  b = <<>>
    <3>1. b \in [1 .. 0 -> Nat]
      BY <1>1, <2>1
    <3>2. b \in Seq(Nat) /\ Len(b) = 0
      BY <3>1
    <3> QED BY <3>2, EmptySeq
  <2> QED BY <1>1, <1>3, <2>1
<1>14. ASSUME NEW k \in 1 .. n
       PROVE  /\ index[k] \in 1 .. n
              /\ b[k].place = places[index[k]]
              /\ b[k] = Item(r, i + index[k])
  <2>1. index[k] \in 1 .. n
    BY ONLY <1>12
  <2>2. b[k] = [place |-> places[index[k]], trace |-> trace(i + index[k])]
    BY <1>1
  <2>3. places[index[k]] = goes(i + index[k])
    BY <1>9, <2>1
  <2> QED BY <1>2, <2>1, <2>2, <2>3
<1>15. ASSUME NEW j \in 1 .. n, NEW k \in 1 .. n, j < k
       PROVE  b[j].place < b[k].place
  <2>1. places[index[j]] < places[index[k]]
    BY ONLY <1>12, <1>15
  <2> QED BY <1>14, <2>1
<1>16. \A j \in 1 .. n : \E k \in i + 1 .. i + n : b[j] = Item(r, k)
  <2> TAKE j \in 1 .. n
  <2>1. index[j] \in 1 .. n
    BY <1>14
  <2>2. i + index[j] \in i + 1 .. i + n
    BY <1>3, <2>1
  <2> QED BY <1>14, <2>2
<1>17. \A k \in i + 1 .. i + n : \E j \in 1 .. n : b[j] = Item(r, k)
  <2> TAKE k \in i + 1 .. i + n
  <2>1. k - i \in 1 .. n /\ i + (k - i) = k
    BY <1>3
  <2>2. PICK j \in 1 .. n : index[j] = k - i
    BY ONLY <1>12, <2>1
  <2> QED BY <1>14, <2>1, <2>2
<1> QED BY <1>13, <1>15, <1>16, <1>17 DEF i, n

-----------------------------------------------------------------------------
(***************************************************************************)
(* What only depends on the set, on whether it is sorted and on which      *)
(* process has which header stays.                                         *)
(***************************************************************************)
\* Definitions of the model with what they depend on as parameters.
ListOf(pairs, total) == [n \in 1 .. total |-> InOrder(pairs, Below)[n].place]
LowerIn(traces, key, k, h) == Cardinality({g \in traces : k[g] = k[h] /\ key[g] < key[h]})
PlaceIn(traces, key, h) == Cardinality({g \in traces : key[g] < key[h]})
ReaderIn(nts, h) ==
  CHOOSE r \in Rank :
    h[2] \in Range([i \in 1 .. Share(nts[h[1]], r) |-> First(nts[h[1]], r) + i - 1])

LEMMA SetFixed ==
  ASSUME set' = set
  PROVE  /\ Files' = Files /\ Traces' = Traces /\ Total' = Total
         /\ \A f, r : Lnt(f, r)' = Lnt(f, r) /\ Ilst(f, r)' = Ilst(f, r)
         /\ \A f, r : Loff(f, r)' = Loff(f, r) /\ AllLnt(r)' = AllLnt(r)
         /\ \A r : Offset(r)' = Offset(r)
         /\ RegionSz' = RegionSz /\ \A h : Reader(h)' = Reader(h) /\ Gtn(h)' = Gtn(h)
         /\ \A h : PlaceOf(h)' = PlaceOf(h) /\ Concatenated(h)' = Concatenated(h)
<1>1. Files' = Files /\ Traces' = Traces /\ Total' = Total
  BY DEF Files, Traces, Total
<1>2. \A f, r : Lnt(f, r)' = Lnt(f, r)
  BY DEF Lnt, Nt
<1>3. \A f, r : Ilst(f, r)' = Ilst(f, r)
  <2> TAKE f, r
  <2>1. Lnt(f, r)' = Lnt(f, r) /\ First(Nt(f), r)' = First(Nt(f), r)
    BY <1>2 DEF Nt
  <2> DEFINE n == Lnt(f, r)  a == First(Nt(f), r)
  <2>2. Ilst(f, r) = [i \in 1 .. n |-> a + i - 1] /\ Ilst(f, r)' = [i \in 1 .. n' |-> a' + i - 1]
    BY DEF Ilst
  <2> HIDE DEF n, a
  <2>3. n' = n /\ a' = a
    BY <2>1 DEF n, a
  <2> QED BY <2>2, <2>3
<1>4. \A f, r : Loff(f, r)' = Loff(f, r)
  <2> TAKE f, r
  <2> DEFINE v == [g \in Files |-> Lnt(g, r)]
  <2>1. v' = v
    BY <1>1, <1>2
  <2>2. Loff(f, r) = SumBelow(v, f) /\ Loff(f, r)' = SumBelow(v', f)
    BY DEF Loff
  <2> HIDE DEF v
  <2> QED BY <2>1, <2>2
<1>5. \A r : AllLnt(r)' = AllLnt(r)
  <2> TAKE r
  <2> DEFINE k == Len(set.nts) + 1
  <2>1. k' = k
    OBVIOUS
  <2>2. AllLnt(r) = Loff(k, r) /\ AllLnt(r)' = Loff(k, r)'
    BY DEF AllLnt
  <2> HIDE DEF k
  <2> QED BY <1>4, <2>1, <2>2
<1>6. \A r : Offset(r)' = Offset(r)
  <2> TAKE r
  <2> DEFINE v == [q \in Rank |-> AllLnt(q)]
  <2>1. v' = v
    BY <1>5
  <2>2. Offset(r) = SumBelow(v, r) /\ Offset(r)' = SumBelow(v', r)
    BY DEF Offset
  <2> HIDE DEF v
  <2> QED BY <2>1, <2>2
<1>7. \A h : Concatenated(h)' = Concatenated(h)
  BY DEF Concatenated
<1>8. \A h : PlaceOf(h)' = PlaceOf(h)
  <2> TAKE h
  <2>1. /\ PlaceOf(h) = PlaceIn(Traces, set.key, h)
        /\ PlaceOf(h)' = PlaceIn(Traces', set'.key, h)
    BY DEF PlaceOf, PlaceIn
  <2> QED BY <1>1, <2>1
<1>9. \A h : Reader(h)' = Reader(h)
  <2> TAKE h
  <2>1. Reader(h) = ReaderIn(set.nts, h) /\ Reader(h)' = ReaderIn(set'.nts, h)
    BY DEF Reader, ReaderIn, Ilst, Lnt, Nt
  <2> QED BY <2>1
<1>10. \A h : Gtn(h)' = Gtn(h)
  <2> TAKE h
  <2>1. Offset(Reader(h))' = Offset(Reader(h)) /\ Loff(h[1], Reader(h))' = Loff(h[1], Reader(h))
    BY <1>4, <1>6, <1>9
  <2> QED BY <2>1 DEF Gtn
<1>11. RegionSz' = RegionSz
  <2> DEFINE S == {AllLnt(r) : r \in Rank}
  <2>1. S' = S
    BY <1>5
  <2>2. RegionSz = Min(S) \div 4 /\ RegionSz' = Min(S') \div 4
    BY DEF RegionSz
  <2> HIDE DEF S
  <2> QED BY <2>1, <2>2
<1> QED BY <1>1, <1>2, <1>3, <1>4, <1>5, <1>6, <1>7, <1>8, <1>9, <1>10, <1>11

LEMMA ListFixed ==
  ASSUME set' = set, keeper' = keeper
  PROVE  /\ PlaceList' = PlaceList
         /\ \A r : OwnPlaces(r)' = OwnPlaces(r)
<1>1. \A h : Bound(h)' = Bound(h)
  BY SetFixed DEF Bound
<1>2. \A h : Position(h)' = Position(h)
  <2> TAKE h
  <2>1. /\ NumLower(keeper, h) = LowerIn(Traces, set.key, keeper, h)
        /\ NumLower(keeper, h)' = LowerIn(Traces', set'.key, keeper', h)
    BY DEF NumLower, LowerIn
  <2>2. NumLower(keeper, h)' = NumLower(keeper, h)
    BY <2>1, SetFixed
  <2>3. Offset(keeper[h])' = Offset(keeper[h])
    BY SetFixed
  <2> QED BY <2>2, <2>3 DEF Position
<1>3. \A h : Pair(h)' = Pair(h)
  BY <1>1, <1>2, SetFixed DEF Pair
<1>4. Pairs = {Pair(h) : h \in Traces} /\ Pairs' = {Pair(h)' : h \in Traces'}
  BY DEF Pairs, Pair
<1> HIDE DEF Pair
<1>5. Pairs' = Pairs
  BY <1>3, <1>4, SetFixed
<1>6. PlaceList = ListOf(Pairs, Total) /\ PlaceList' = ListOf(Pairs', Total')
  BY DEF PlaceList, ListOf
<1>7. PlaceList' = PlaceList
  BY <1>5, <1>6, SetFixed
<1>8. \A r : OwnPlaces(r)' = OwnPlaces(r)
  BY <1>7, SetFixed DEF OwnPlaces
<1> QED BY <1>7, <1>8

LEMMA GivenFixed ==
  ASSUME set' = set, sorting' = sorting, keeper' = keeper
  PROVE  \A f, r, i : Given(f, r, i)' = Given(f, r, i)
<1>1. \A f, r, i : Pos(f, r, i)' = Pos(f, r, i)
  BY SetFixed DEF Pos
<1>2. PlaceList' = PlaceList
  BY ListFixed
<1> QED BY <1>1, <1>2, SetFixed DEF Given

-----------------------------------------------------------------------------
(***************************************************************************)
(* The inductive invariant.                                                *)
(***************************************************************************)
Steps == {"add", "sort", "order", "copy", "enter", "read", "write", "close", "done", "crashed"}
Early == {"add", "sort", "order", "copy", "crashed"}
AtStart == [file |-> 1, i |-> 0, rem |-> 0]

\* The places Set::add gives to the traces of file f on r.
AddedAt(f, r) == /\ olst[r][f] \in Seq(Nat) /\ Len(olst[r][f]) = Lnt(f, r)
                 /\ \A i \in 1 .. Lnt(f, r) : olst[r][f][i] = Concatenated(<<f, Ilst(f, r)[i]>>)

\* Loops in the state l have the i-th trace of a part of file f behind them.
Past(l, f, i) == f < l.file \/ (f = l.file /\ i <= l.i)
Behind(f, r, i) == Past(loop[r], f, i)

Written(w) == \E r \in Rank : \E f \in Files : \E i \in 1 .. Lnt(f, r) :
                /\ Behind(f, r, i)
                /\ w = <<Given(f, r, i), <<f, Ilst(f, r)[i]>>>>

SetTypes ==
  /\ set \in Sets /\ sorting \in BOOLEAN
  /\ added \in 0 .. Len(set.nts)
  /\ pc \in [Rank -> Steps]
  /\ loop \in [Rank -> Loops]
  /\ olst \in [Rank -> Seq(Seq(Nat))]
  /\ nt \in [Rank -> 0 .. Total]
  /\ count = -1 \/ count = Total

\* Every process has at least four headers.
Large == \A r \in Rank : AllLnt(r) >= 4

\* Behind the rounds of the sort.
KeeperFacts ==
  /\ Dealt(keeper)
  /\ \A r \in Rank : sorting /\ pc[r] \notin {"add", "sort"} /\ Large /\ Rising(set.nts) =>
                       KeysAscend(keeper)

\* Before startSingle.
EarlyFacts ==
  \A r \in Rank :
    /\ pc[r] \in Early => /\ loop[r] = AtStart /\ Len(olst[r]) = added
                          /\ \A f \in 1 .. added : AddedAt(f, r)
    /\ pc[r] \in {"sort", "order", "copy"} => sorting
    /\ pc[r] \in {"add", "sort", "order"} => trlist[r] = <<>>
    /\ pc[r] = "copy" => trlist[r] = <<>> \/ trlist[r] = OwnPlaces(r)

\* In startSingle.
LoopFacts ==
  \A r \in Rank :
    /\ pc[r] \notin Early => /\ Len(olst[r]) = Len(set.nts)
                             /\ \A f \in Files : Listed(f, r)
    /\ pc[r] = "enter" => loop[r].i = 0
    /\ pc[r] \in {"read", "write"} => More(loop[r], LocalSize(r))
    /\ pc[r] = "write" => BlockOk(r)
    /\ pc[r] \in {"close", "done"} => /\ loop[r].file = Len(set.nts)
                                      /\ loop[r].i >= LocalSize(r)

OutFacts == \A w : w \in out <=> Written(w)

CountFacts ==
  \A r \in Rank : \A f \in Files : \A i \in 1 .. Lnt(f, r) :
    Behind(f, r, i) => Given(f, r, i) < nt[r]

IInv == SetTypes /\ KeeperFacts /\ EarlyFacts /\ LoopFacts /\ OutFacts /\ CountFacts

-----------------------------------------------------------------------------
LEMMA InitHolds == Init => IInv
<1> SUFFICES ASSUME Init PROVE IInv
  OBVIOUS
<1> USE DEF Init
<1>1. set \in Sets /\ sorting \in BOOLEAN /\ added = 0
  OBVIOUS
<1>2. Len(set.nts) \in Nat \ {0} /\ 1 \in Files /\ \A f \in Files : f \in Nat /\ f >= 1
  BY <1>1, SetFacts DEF Files
<1>3. Total \in Nat
  BY <1>1, ConcatenatedFacts
<1>4. \A r \in Rank : pc[r] = "add" /\ loop[r] = AtStart /\ olst[r] = <<>> /\ nt[r] = 0
  BY DEF AtStart
<1>5. SetTypes
  <2>1. pc \in [Rank -> Steps] /\ nt \in [Rank -> 0 .. Total]
    BY <1>3 DEF Steps
  <2>2. AtStart \in Loops
    BY <1>2 DEF AtStart, Loops
  <2>3. loop \in [Rank -> Loops]
    BY <2>2 DEF AtStart
  <2>4. olst \in [Rank -> Seq(Seq(Nat))]
    OBVIOUS
  <2>5. added \in 0 .. Len(set.nts)
    BY <1>1, <1>2
  <2> QED BY <1>1, <2>1, <2>3, <2>4, <2>5 DEF SetTypes
<1>6. EarlyFacts
  <2>1. \A r \in Rank : Len(olst[r]) = added
    BY <1>1, <1>4
  <2>2. \A f : f \notin 1 .. added
    BY <1>1
  <2>3. \A r \in Rank : pc[r] \notin {"sort", "order", "copy"} /\ trlist[r] = <<>>
    BY <1>4
  <2> QED BY <1>4, <2>1, <2>2, <2>3 DEF EarlyFacts
<1>7. LoopFacts
  BY <1>4 DEF LoopFacts, Early
<1>8. ASSUME NEW r \in Rank, NEW f \in Files, NEW i \in 1 .. Lnt(f, r)
      PROVE  ~Behind(f, r, i)
  <2>1. loop[r].file = 1 /\ loop[r].i = 0
    BY <1>4 DEF AtStart
  <2>2. f \in Nat /\ f >= 1 /\ ~(i <= 0)
    BY <1>2
  <2> QED BY <2>1, <2>2 DEF Behind, Past
<1>9. OutFacts
  BY <1>8 DEF OutFacts, Written
<1>10. CountFacts
  BY <1>8 DEF CountFacts
<1>11. KeeperFacts
  BY <1>1, <1>4, ReadersDeal DEF KeeperFacts
<1> QED BY <1>5, <1>6, <1>7, <1>9, <1>10, <1>11 DEF IInv

(***************************************************************************)
(* What is said of the headers once the rounds have ended stays.           *)
(***************************************************************************)
LEMMA KeeperFixed ==
  ASSUME set' = set
  PROVE  /\ Large' <=> Large
         /\ Rising(set.nts)' <=> Rising(set.nts)
         /\ Dealt(keeper)' <=> Dealt(keeper')
         /\ KeysAscend(keeper)' <=> KeysAscend(keeper')
<1>1. Traces' = Traces /\ \A r : AllLnt(r)' = AllLnt(r)
  BY SetFixed
<1>2. Large' <=> Large
  BY <1>1 DEF Large
<1>3. Rising(set.nts)' <=> Rising(set.nts)
  BY DEF Rising
<1>4. \A r : On(keeper, r)' = On(keeper', r)
  BY <1>1 DEF On
<1>5. Dealt(keeper)' <=> Dealt(keeper')
  BY <1>1, <1>4 DEF Dealt
<1>6. KeysAscend(keeper)' <=> KeysAscend(keeper')
  BY <1>1 DEF KeysAscend
<1> QED BY <1>2, <1>3, <1>5, <1>6

LEMMA KeeperStays ==
  ASSUME KeeperFacts, set' = set, sorting' = sorting, keeper' = keeper,
         \A r \in Rank : pc'[r] \notin {"add", "sort"} =>
           \/ ~sorting \/ ~Large
           \/ \E q \in Rank : pc[q] \notin {"add", "sort"}
  PROVE  KeeperFacts'
<1>1. /\ Large' <=> Large
      /\ Rising(set.nts)' <=> Rising(set.nts)
      /\ Dealt(keeper)' <=> Dealt(keeper)
      /\ KeysAscend(keeper)' <=> KeysAscend(keeper)
  BY KeeperFixed
<1>2. Dealt(keeper)'
  BY <1>1 DEF KeeperFacts
<1>3. ASSUME NEW r \in Rank, sorting', pc'[r] \notin {"add", "sort"}, Large', Rising(set.nts)'
      PROVE  KeysAscend(keeper)'
  <2>1. PICK q \in Rank : pc[q] \notin {"add", "sort"}
    BY <1>1, <1>3
  <2> QED BY <1>1, <1>3, <2>1 DEF KeeperFacts
<1> QED BY <1>2, <1>3 DEF KeeperFacts

(***************************************************************************)
(* Steps that leave the loops, the output and the counts alone keep what   *)
(* is said of them.                                                        *)
(***************************************************************************)
LEMMA NothingWritten ==
  ASSUME OutFacts, CountFacts,
         set' = set, sorting' = sorting, keeper' = keeper, loop' = loop, out' = out, nt' = nt
  PROVE  OutFacts' /\ CountFacts'
<1>1. /\ Files' = Files
      /\ \A f, r, i : Given(f, r, i)' = Given(f, r, i)
      /\ \A f, r : Lnt(f, r)' = Lnt(f, r) /\ Ilst(f, r)' = Ilst(f, r)
  BY SetFixed, GivenFixed
<1>2. \A f, r, i : Behind(f, r, i)' <=> Behind(f, r, i)
  BY DEF Behind, Past
<1>3. \A w : Written(w)' <=> Written(w)
  BY <1>1, <1>2 DEF Written
<1>4. OutFacts'
  BY <1>3 DEF OutFacts
<1>5. CountFacts'
  BY <1>1, <1>2 DEF CountFacts
<1> QED BY <1>4, <1>5

LEMMA AddedStays ==
  ASSUME set' = set, NEW f, NEW r, olst'[r][f] = olst[r][f], AddedAt(f, r)
  PROVE  AddedAt(f, r)'
BY SetFixed DEF AddedAt

LEMMA ListedStays ==
  ASSUME set' = set, sorting' = sorting, keeper' = keeper, NEW f, NEW r, olst'[r][f] = olst[r][f], Listed(f, r)
  PROVE  Listed(f, r)'
<1>1. \A i : Given(f, r, i)' = Given(f, r, i)
  BY GivenFixed
<1>2. Lnt(f, r)' = Lnt(f, r)
  BY SetFixed
<1> QED BY <1>1, <1>2 DEF Listed

LEMMA AddStep == IInv /\ Add => IInv'
<1> SUFFICES ASSUME IInv, Add PROVE IInv'
  OBVIOUS
<1>1. PICK f \in Files : f = added + 1
  BY DEF Add
<1> DEFINE off == SumBelow(set.nts, f)
           new(r) == [i \in 1 .. Lnt(f, r) |-> off + First(Nt(f), r) + i - 1]
           next == IF f < Len(set.nts) THEN "add" ELSE IF sorting THEN "sort" ELSE "enter"
<1>2. /\ f \in Files
      /\ \A r \in Rank : pc[r] = "add"
      /\ pc' = [r \in Rank |-> next]
      /\ added' = f
      /\ olst' = [r \in Rank |-> Append(olst[r], new(r))]
      /\ UNCHANGED <<set, sorting, keeper, trlist, loop, block, out, nt, count>>
  BY <1>1 DEF Add, Move
<1>3. /\ set \in Sets /\ sorting \in BOOLEAN /\ added \in Nat /\ f \in Nat /\ f <= Len(set.nts)
      /\ Len(set.nts) \in Nat
  BY <1>1, <1>2, SetFacts DEF IInv, SetTypes, Files
<1>4. \A r \in Rank : /\ olst[r] \in Seq(Seq(Nat)) /\ Len(olst[r]) = added
                      /\ \A g \in 1 .. added : AddedAt(g, r)
                      /\ loop[r] = AtStart
  BY <1>2 DEF IInv, SetTypes, EarlyFacts, Early
<1>5. ASSUME NEW r \in Rank
      PROVE  /\ new(r) \in Seq(Nat) /\ Len(new(r)) = Lnt(f, r)
             /\ \A i \in 1 .. Lnt(f, r) : new(r)[i] = Concatenated(<<f, Ilst(f, r)[i]>>)
  <2>1. Lnt(f, r) \in Nat /\ First(Nt(f), r) \in Nat
    BY <1>2, <1>3, LocalFacts
  <2>2. off \in Nat
    <3>1. \A k \in DOMAIN set.nts : set.nts[k] \in Nat
      BY <1>3, SetFacts DEF Nt
    <3> QED BY <1>3, <3>1, SumStep
  <2>3. \A i \in 1 .. Lnt(f, r) : Concatenated(<<f, Ilst(f, r)[i]>>) = off + (First(Nt(f), r) + i - 1)
    BY <1>2, <1>3, LocalFacts DEF Concatenated
  <2> DEFINE n == Lnt(f, r)  a == First(Nt(f), r)
  <2>4. new(r) = [i \in 1 .. n |-> off + a + i - 1]
    OBVIOUS
  <2>5. n \in Nat /\ a \in Nat /\ off \in Nat
    BY <2>1, <2>2
  <2> HIDE DEF n, a, off, new
  <2>6. \A i \in 1 .. n : off + a + i - 1 \in Nat /\ off + a + i - 1 = off + (a + i - 1)
    BY <2>5
  <2>7. new(r) \in [1 .. n -> Nat]
    BY <2>4, <2>6
  <2>8. new(r) \in Seq(Nat) /\ Len(new(r)) = n
    BY <2>5, <2>7
  <2>9. \A i \in 1 .. n : new(r)[i] = off + (a + i - 1)
    BY <2>4, <2>6
  <2> QED BY <2>3, <2>8, <2>9 DEF n, a
<1> HIDE DEF off, new, next
<1>6. ASSUME NEW r \in Rank
      PROVE  /\ olst'[r] \in Seq(Seq(Nat)) /\ Len(olst'[r]) = f
             /\ \A g \in 1 .. f : AddedAt(g, r)'
  <2>1. olst'[r] = Append(olst[r], new(r))
    BY <1>2
  <2>2. new(r) \in Seq(Nat) /\ olst[r] \in Seq(Seq(Nat)) /\ Len(olst[r]) = added
    BY <1>4, <1>5
  <2>3. /\ olst'[r] \in Seq(Seq(Nat)) /\ Len(olst'[r]) = added + 1
        /\ olst'[r][added + 1] = new(r)
        /\ \A g \in 1 .. added : olst'[r][g] = olst[r][g]
    BY <2>1, <2>2, <1>3, AppendProperties
  <2>4. \A g \in 1 .. added : AddedAt(g, r)'
    BY <1>2, <1>4, <2>3, AddedStays
  <2>5. AddedAt(f, r)'
    <3>1. olst'[r][f] = new(r)
      BY <1>1, <2>3
    <3>2. /\ \A g : Lnt(g, r)' = Lnt(g, r) /\ Ilst(g, r)' = Ilst(g, r)
          /\ \A h : Concatenated(h)' = Concatenated(h)
      BY <1>2, SetFixed
    <3> QED BY <1>5, <3>1, <3>2 DEF AddedAt
  <2>6. \A g \in 1 .. f : g \in 1 .. added \/ g = f
    BY <1>1, <1>3
  <2> QED BY <1>1, <2>3, <2>4, <2>5, <2>6
<1>7. SetTypes'
  <2>1. next \in Steps
    BY DEF next, Steps
  <2>2. pc' \in [Rank -> Steps]
    BY <1>2, <2>1
  <2>3. olst' \in [Rank -> Seq(Seq(Nat))]
    BY <1>2, <1>6
  <2>4. added' \in 0 .. Len(set.nts)
    BY <1>2, <1>3
  <2>5. Files' = Files /\ Total' = Total
    BY <1>2, SetFixed
  <2> QED BY <1>2, <2>2, <2>3, <2>4, <2>5 DEF IInv, SetTypes, Loops
<1>8. EarlyFacts'
  <2>1. \A r \in Rank : pc'[r] = next
    BY <1>2
  <2>2. next \notin {"order", "copy"} /\ (next = "sort" => sorting)
    BY DEF next
  <2>3. \A r \in Rank : loop'[r] = AtStart /\ Len(olst'[r]) = added' /\ \A g \in 1 .. added' : AddedAt(g, r)'
    BY <1>2, <1>4, <1>6
  <2>4. \A r \in Rank : trlist'[r] = <<>>
    BY <1>2 DEF IInv, EarlyFacts
  <2> QED BY <1>2, <2>1, <2>2, <2>3, <2>4 DEF EarlyFacts, AtStart
<1>9. LoopFacts'
  <2>1. \A r \in Rank : pc'[r] = next
    BY <1>2
  <2>2. CASE next \in Early
    <3>1. next \notin {"enter", "read", "write", "close", "done"}
      BY <2>2 DEF Early
    <3> QED BY <2>1, <2>2, <3>1 DEF LoopFacts
  <2>3. CASE next \notin Early
    <3>1. next = "enter" /\ ~sorting /\ ~(f < Len(set.nts))
      BY <2>3, <1>3 DEF next, Early
    <3>2. f = Len(set.nts)
      BY <1>3, <3>1
    <3>3. \A r \in Rank : loop'[r].i = 0 /\ Len(olst'[r]) = Len(set'.nts)
      BY <1>2, <1>4, <1>6, <3>2 DEF AtStart
    <3>4. ~sorting' /\ Files' = 1 .. f
      BY <1>2, <3>1, <3>2 DEF Files
    <3>5. ASSUME NEW r \in Rank, NEW g \in Files'
          PROVE  Listed(g, r)'
      <4>1. AddedAt(g, r)'
        BY <1>6, <3>4
      <4>2. \A i : Given(g, r, i)' = Concatenated(<<g, Ilst(g, r)[i]>>)'
        BY <3>4 DEF Given
      <4> QED BY <4>1, <4>2 DEF AddedAt, Listed
    <3> QED BY <2>1, <3>1, <3>3, <3>5 DEF LoopFacts
  <2> QED BY <2>2, <2>3
<1>10. OutFacts' /\ CountFacts'
  BY <1>2, NothingWritten DEF IInv
<1>11. KeeperFacts'
  <2>1. \A r \in Rank : pc'[r] \notin {"add", "sort"} => ~sorting
    BY <1>2 DEF next
  <2> QED BY <1>2, <2>1, KeeperStays DEF IInv
<1> QED BY <1>7, <1>8, <1>9, <1>10, <1>11 DEF IInv

(***************************************************************************)
(* With at least four headers on every process the sort is not refused,    *)
(* and its rounds exchange something.                                      *)
(***************************************************************************)
LEMMA LargeSorts ==
  ASSUME set \in Sets, Large
  PROVE  ~Refused /\ RegionSz # 0
<1> DEFINE S == {AllLnt(r) : r \in Rank}  m == Min(S)
<1>1. \A r \in Rank : AllLnt(r) \in Nat /\ AllLnt(r) >= 4
  BY RegionFacts DEF Large
<1>2. ~Refused
  BY <1>1 DEF Refused
<1>3. S \in SUBSET Nat /\ S # {}
  <2>1. 0 \in Rank
    BY NumRankAssumption DEF Rank
  <2> QED BY <1>1, <2>1
<1>4. PICK x \in S : \A y \in S : x <= y
  BY <1>3, LeastNat
<1>5. m \in S /\ \A y \in S : m <= y
  BY <1>4 DEF Min
<1>6. m \in Nat /\ m >= 4
  BY <1>1, <1>5
<1>7. RegionSz = m \div 4
  BY DEF RegionSz
<1> HIDE DEF m
<1>8. m \div 4 # 0
  BY <1>6
<1> QED BY <1>2, <1>7, <1>8

\* What a step from the sort keeps, whatever it does to the headers.
LEMMA BeforeCopy ==
  ASSUME IInv, set' = set, sorting' = sorting, added' = added, olst' = olst, loop' = loop,
         nt' = nt, count' = count,
         \A r \in Rank : pc[r] \in {"sort", "order"},
         NEW next \in {"sort", "order", "copy"}, pc' = [r \in Rank |-> next],
         \A r \in Rank : IF next = "copy" THEN trlist'[r] = <<>> \/ trlist'[r] = OwnPlaces(r)'
                                          ELSE trlist'[r] = <<>>
  PROVE  SetTypes' /\ EarlyFacts' /\ LoopFacts'
<1>1. SetTypes'
  <2>1. pc' \in [Rank -> Steps]
    BY DEF Steps
  <2>2. Files' = Files /\ Total' = Total
    BY SetFixed
  <2> QED BY <2>1, <2>2 DEF IInv, SetTypes, Loops
<1>2. EarlyFacts'
  <2>1. \A r \in Rank : /\ loop[r] = AtStart /\ Len(olst[r]) = added /\ sorting
                        /\ \A f \in 1 .. added : AddedAt(f, r)
    BY DEF IInv, EarlyFacts, Early
  <2>2. \A r \in Rank : \A f \in 1 .. added : AddedAt(f, r)'
    BY <2>1, AddedStays
  <2> QED BY <2>1, <2>2 DEF EarlyFacts, AtStart
<1>3. LoopFacts'
  BY DEF LoopFacts, Early
<1> QED BY <1>1, <1>2, <1>3

LEMMA RefuseStep == IInv /\ Refuse => IInv'
<1> SUFFICES ASSUME IInv, Refuse PROVE IInv'
  OBVIOUS
<1>1. /\ Refused /\ \A r \in Rank : pc[r] = "sort"
      /\ pc' = [r \in Rank |-> "copy"]
      /\ UNCHANGED <<set, sorting, added, olst, keeper, trlist, loop, block, out, nt, count>>
  BY DEF Refuse, Move
<1>2. \A r \in Rank : trlist'[r] = <<>>
  BY <1>1 DEF IInv, EarlyFacts
<1>3. SetTypes' /\ EarlyFacts' /\ LoopFacts'
  BY <1>1, <1>2, BeforeCopy
<1>4. OutFacts' /\ CountFacts'
  BY <1>1, NothingWritten DEF IInv
<1>5. KeeperFacts'
  BY <1>1, LargeSorts, KeeperStays DEF IInv, SetTypes
<1> QED BY <1>3, <1>4, <1>5 DEF IInv

LEMMA RoundStep == IInv /\ Round => IInv'
<1> SUFFICES ASSUME IInv, Round PROVE IInv'
  OBVIOUS
<1> DEFINE next == IF Moved(keeper, keeper') THEN "sort" ELSE "order"
<1>1. /\ \A r \in Rank : pc[r] = "sort"
      /\ keeper' = Exchanged(keeper)
      /\ pc' = [r \in Rank |-> next]
      /\ UNCHANGED <<set, sorting, added, olst, trlist, loop, block, out, nt, count>>
  BY DEF Round, Move
<1>2. set \in Sets /\ Dealt(keeper) /\ \A r \in Rank : loop[r] = AtStart /\ trlist[r] = <<>>
  BY <1>1 DEF IInv, SetTypes, KeeperFacts, EarlyFacts, Early
<1>3. Dealt(keeper')
  BY <1>1, <1>2, ExchangedDealt
<1>4. KeeperFacts'
  <2>1. /\ Large' <=> Large
        /\ Rising(set.nts)' <=> Rising(set.nts)
        /\ Dealt(keeper)' <=> Dealt(keeper')
        /\ KeysAscend(keeper)' <=> KeysAscend(keeper')
    BY <1>1, KeeperFixed
  <2>2. ASSUME next # "sort", Large, Rising(set.nts)
        PROVE  KeysAscend(keeper')
    <3>1. keeper = keeper'
      BY <1>2, <1>3, <2>2, Unmoved
    <3>2. Exchanged(keeper) = keeper /\ RegionSz # 0
      BY <1>1, <1>2, <2>2, <3>1, LargeSorts
    <3>3. KeysAscend(keeper)
      BY <1>2, <3>2, FixedAscends
    <3> QED BY <3>1, <3>3
  <2> HIDE DEF next
  <2> QED BY <1>1, <1>3, <2>1, <2>2 DEF KeeperFacts
<1>5. SetTypes' /\ EarlyFacts' /\ LoopFacts'
  <2>1. next \in {"sort", "order", "copy"} /\ next # "copy"
    OBVIOUS
  <2> HIDE DEF next
  <2> QED BY <1>1, <1>2, <2>1, BeforeCopy
<1>6. OutFacts' /\ CountFacts'
  <2>1. Files' = Files /\ \A f, r : Lnt(f, r)' = Lnt(f, r)
    BY <1>1, SetFixed
  <2>2. \A r \in Rank : \A f \in Files : \A i \in 1 .. Lnt(f, r) : ~Behind(f, r, i) /\ ~Behind(f, r, i)'
    <3> TAKE r \in Rank
    <3> TAKE f \in Files
    <3> TAKE i \in 1 .. Lnt(f, r)
    <3>1. f \in Nat /\ f >= 1 /\ ~(i <= 0)
      BY <1>2, SetFacts DEF Files
    <3>2. loop[r].file = 1 /\ loop[r].i = 0 /\ loop' = loop
      BY <1>1, <1>2 DEF AtStart
    <3> QED BY <3>1, <3>2 DEF Behind, Past
  <2>3. \A w : ~Written(w) /\ ~Written(w)'
    BY <2>1, <2>2 DEF Written
  <2>4. OutFacts'
    BY <1>1, <2>3 DEF IInv, OutFacts
  <2>5. CountFacts'
    BY <2>1, <2>2 DEF CountFacts
  <2> QED BY <2>4, <2>5
<1> QED BY <1>4, <1>5, <1>6 DEF IInv

LEMMA FileOrderStep == IInv /\ FileOrder => IInv'
<1> SUFFICES ASSUME IInv, FileOrder PROVE IInv'
  OBVIOUS
<1>1. /\ \A r \in Rank : pc[r] = "order"
      /\ pc' = [r \in Rank |-> "copy"]
      /\ trlist' = [r \in Rank |-> OwnPlaces(r)]
      /\ UNCHANGED <<set, sorting, added, olst, keeper, loop, block, out, nt, count>>
  BY DEF FileOrder, Move, OwnPlaces
<1>2. \A r \in Rank : trlist'[r] = OwnPlaces(r)'
  BY <1>1, ListFixed
<1>3. SetTypes' /\ EarlyFacts' /\ LoopFacts'
  BY <1>1, <1>2, BeforeCopy
<1>4. OutFacts' /\ CountFacts'
  BY <1>1, NothingWritten DEF IInv
<1>5. KeeperFacts'
  BY <1>1, KeeperStays DEF IInv
<1> QED BY <1>3, <1>4, <1>5 DEF IInv

(***************************************************************************)
(* What is said of a process that keeps its place and its list, in a step  *)
(* of another.                                                             *)
(***************************************************************************)
LEMMA OthersStay ==
  ASSUME IInv,
         set' = set, sorting' = sorting, added' = added, keeper' = keeper, trlist' = trlist, loop' = loop,
         block' = block,
         NEW q \in Rank, pc'[q] = pc[q], olst'[q] = olst[q]
  PROVE  /\ pc[q] \in Early => /\ loop'[q] = AtStart /\ Len(olst'[q]) = added'
                               /\ \A f \in 1 .. added' : AddedAt(f, q)'
         /\ pc[q] \in {"sort", "order", "copy"} => sorting'
         /\ pc[q] \in {"add", "sort", "order"} => trlist'[q] = <<>>
         /\ pc[q] = "copy" => trlist'[q] = <<>> \/ trlist'[q] = OwnPlaces(q)'
         /\ pc[q] \notin Early => /\ Len(olst'[q]) = Len(set'.nts)
                                  /\ \A f \in Files' : Listed(f, q)'
         /\ pc[q] = "enter" => loop'[q].i = 0
         /\ pc[q] \in {"read", "write"} => More(loop'[q], LocalSize(q)')
         /\ pc[q] = "write" => BlockOk(q)'
         /\ pc[q] \in {"close", "done"} => /\ loop'[q].file = Len(set'.nts)
                                           /\ loop'[q].i >= LocalSize(q)'
<1>1. EarlyFacts /\ LoopFacts
  BY DEF IInv
<1>2. /\ Files' = Files /\ OwnPlaces(q)' = OwnPlaces(q) /\ LocalSize(q)' = LocalSize(q)
      /\ \A f : AddedAt(f, q) => AddedAt(f, q)'
      /\ \A f : Listed(f, q) => Listed(f, q)'
  BY SetFixed, ListFixed, AddedStays, ListedStays DEF LocalSize
<1>3. BlockOk(q) => BlockOk(q)'
  <2>1. ChunkOf(q)' = ChunkOf(q)
    BY <1>2 DEF ChunkOf
  <2>2. \A k : Item(q, k)' = Item(q, k)
    BY SetFixed, GivenFixed DEF Item
  <2> DEFINE n == ChunkOf(q)  b == block[q]  i == loop[q].i
             At(j, k) == b[j] = Item(q, k)
  <2>3. n' = n /\ b' = b /\ i' = i
    BY <2>1
  <2>4. \A j, k : At(j, k)' <=> At(j, k)
    BY <2>2
  <2>5. BlockOk(q) <=> /\ DOMAIN b = 1 .. n /\ Len(b) = n
                       /\ n = 0 => b = <<>>
                       /\ \A j, k \in 1 .. n : j < k => b[j].place < b[k].place
                       /\ \A j \in 1 .. n : \E k \in i + 1 .. i + n : At(j, k)
                       /\ \A k \in i + 1 .. i + n : \E j \in 1 .. n : At(j, k)
    BY DEF BlockOk
  <2>6. BlockOk(q)' <=> /\ DOMAIN b' = 1 .. n' /\ Len(b') = n'
                        /\ n' = 0 => b' = <<>>
                        /\ \A j, k \in 1 .. n' : j < k => b'[j].place < b'[k].place
                        /\ \A j \in 1 .. n' : \E k \in i' + 1 .. i' + n' : At(j, k)'
                        /\ \A k \in i' + 1 .. i' + n' : \E j \in 1 .. n' : At(j, k)'
    BY DEF BlockOk
  <2> HIDE DEF n, b, i, At
  <2> QED BY <2>3, <2>4, <2>5, <2>6
<1> QED BY <1>1, <1>2, <1>3 DEF EarlyFacts, LoopFacts

LEMMA CopyStep ==
  ASSUME IInv, NEW r \in Rank, Copy(r)
  PROVE  IInv'
<1> DEFINE short == Len(trlist[r]) < AllLnt(r)
           new == [f \in Files |-> PartOf(trlist[r], f, r)]
<1>1. /\ pc[r] = "copy"
      /\ UNCHANGED <<set, sorting, added, keeper, trlist, loop, block, out, nt, count>>
      /\ short => pc' = [pc EXCEPT ![r] = "crashed"] /\ olst' = olst
      /\ ~short => pc' = [pc EXCEPT ![r] = "enter"] /\ olst' = [olst EXCEPT ![r] = new]
  BY DEF Copy, PartOf
<1>2. /\ set \in Sets /\ Dealt(keeper)
      /\ pc \in [Rank -> Steps] /\ olst \in [Rank -> Seq(Seq(Nat))]
      /\ sorting /\ loop[r] = AtStart
      /\ trlist[r] = <<>> \/ trlist[r] = OwnPlaces(r)
      /\ Len(olst[r]) = added /\ \A f \in 1 .. added : AddedAt(f, r)
  BY <1>1 DEF IInv, SetTypes, KeeperFacts, EarlyFacts, Early
<1>3. ASSUME ~short, NEW f \in Files
      PROVE  /\ PartOf(trlist[r], f, r) \in Seq(Nat)
             /\ Len(PartOf(trlist[r], f, r)) = Lnt(f, r)
             /\ \A i \in 1 .. Lnt(f, r) : PartOf(trlist[r], f, r)[i] = Given(f, r, i)
  <2>1. \A i : Given(f, r, i) = PlaceList[Pos(f, r, i) + 1]
    BY <1>2 DEF Given
  <2>2. CASE trlist[r] = OwnPlaces(r)
    BY <1>2, <2>1, <2>2, PartFacts
  <2>3. CASE trlist[r] = <<>>
    <3>1. Len(trlist[r]) = 0 /\ trlist[r] \in Seq(Nat)
      BY <2>3
    <3>2. /\ AllLnt(r) \in Nat /\ Loff(f, r) \in Nat /\ Lnt(f, r) \in Nat
          /\ Loff(f, r) + Lnt(f, r) <= AllLnt(r)
      BY <1>2, LoffFacts, LocalFacts
    <3>3. Lnt(f, r) = 0
      BY <1>3, <3>1, <3>2
    <3>4. /\ PartOf(trlist[r], f, r) \in Seq(Nat)
          /\ Len(PartOf(trlist[r], f, r)) = Lnt(f, r)
      BY <3>1, <3>2, <3>3, PieceOf DEF PartOf
    <3> QED BY <3>3, <3>4
  <2> QED BY <1>2, <2>2, <2>3
<1>4. ~short => new \in Seq(Seq(Nat)) /\ Len(new) = Len(set.nts)
  <2>1. Len(set.nts) \in Nat /\ Files = 1 .. Len(set.nts)
    BY <1>2, SetFacts DEF Files
  <2>2. ~short => new \in [1 .. Len(set.nts) -> Seq(Nat)]
    BY <1>3, <2>1
  <2> DEFINE n == Len(set.nts)
  <2>3. n \in Nat /\ (~short => new \in [1 .. n -> Seq(Nat)])
    BY <2>1, <2>2
  <2> HIDE DEF n, new, short
  <2>4. ~short => new \in Seq(Seq(Nat)) /\ Len(new) = n
    BY <2>3
  <2> QED BY <2>4 DEF n
<1>5. \A f \in Files : new[f] = PartOf(trlist[r], f, r)
  OBVIOUS
<1> HIDE DEF short, new
<1>6. SetTypes'
  <2>1. pc' \in [Rank -> Steps]
    BY <1>1, <1>2 DEF Steps
  <2>2. olst' \in [Rank -> Seq(Seq(Nat))]
    BY <1>1, <1>2, <1>4
  <2>3. Files' = Files /\ Total' = Total
    BY <1>1, SetFixed
  <2> QED BY <1>1, <2>1, <2>2, <2>3 DEF IInv, SetTypes, Loops
<1>7. \A q \in Rank : q # r => pc'[q] = pc[q] /\ olst'[q] = olst[q]
  BY <1>1, <1>2
<1>8. short => pc'[r] = "crashed" /\ olst'[r] = olst[r]
  BY <1>1, <1>2
<1>9. ~short => pc'[r] = "enter" /\ olst'[r] = new
  BY <1>1, <1>2
<1>10. \A f : AddedAt(f, r) /\ olst'[r] = olst[r] => AddedAt(f, r)'
  BY <1>1, AddedStays
<1>11. ~short => \A f \in Files : Listed(f, r)'
  <2>1. ASSUME ~short, NEW f \in Files
        PROVE  Listed(f, r)'
    <3>1. olst'[r][f] = PartOf(trlist[r], f, r)
      BY <1>5, <1>9, <2>1
    <3>2. \A i : Given(f, r, i)' = Given(f, r, i)
      BY <1>1, GivenFixed
    <3>3. Lnt(f, r)' = Lnt(f, r)
      BY <1>1, SetFixed
    <3> QED BY <1>3, <2>1, <3>1, <3>2, <3>3 DEF Listed
  <2> QED BY <2>1
<1>12. Files' = Files
  BY <1>1, SetFixed
<1>13. EarlyFacts' /\ LoopFacts'
  <2>1. ASSUME NEW q \in Rank
        PROVE  /\ pc'[q] \in Early => /\ loop'[q] = AtStart /\ Len(olst'[q]) = added'
                                      /\ \A f \in 1 .. added' : AddedAt(f, q)'
               /\ pc'[q] \in {"sort", "order", "copy"} => sorting'
               /\ pc'[q] \in {"add", "sort", "order"} => trlist'[q] = <<>>
               /\ pc'[q] = "copy" => trlist'[q] = <<>> \/ trlist'[q] = OwnPlaces(q)'
               /\ pc'[q] \notin Early => /\ Len(olst'[q]) = Len(set'.nts)
                                         /\ \A f \in Files' : Listed(f, q)'
               /\ pc'[q] = "enter" => loop'[q].i = 0
               /\ pc'[q] \in {"read", "write"} => More(loop'[q], LocalSize(q)')
               /\ pc'[q] = "write" => BlockOk(q)'
               /\ pc'[q] \in {"close", "done"} => /\ loop'[q].file = Len(set'.nts)
                                                  /\ loop'[q].i >= LocalSize(q)'
    <3>1. CASE q # r
      BY <1>1, <1>7, <3>1, OthersStay
    <3>2. CASE q = r /\ short
      BY <1>1, <1>2, <1>8, <1>10, <3>2 DEF Early
    <3>3. CASE q = r /\ ~short
      <4>1. pc'[q] = "enter" /\ Len(olst'[q]) = Len(set.nts) /\ loop'[q].i = 0
        BY <1>1, <1>2, <1>4, <1>9, <3>3 DEF AtStart
      <4> QED BY <1>1, <1>11, <1>12, <4>1, <3>3 DEF Early
    <3> QED BY <3>1, <3>2, <3>3
  <2> QED BY <2>1 DEF EarlyFacts, LoopFacts, AtStart
<1>14. OutFacts' /\ CountFacts'
  BY <1>1, NothingWritten DEF IInv
<1>15. KeeperFacts'
  BY <1>1, KeeperStays DEF IInv
<1> QED BY <1>6, <1>13, <1>14, <1>15 DEF IInv

-----------------------------------------------------------------------------
(***************************************************************************)
(* Going on to the next file leaves nothing of the part of a file out.     *)
(***************************************************************************)
LEMMA ProceedIs ==
  ASSUME set \in Sets, NEW r \in Rank, NEW l, l \in Loops,
         NEW q, q = Proceed(r, l)
  PROVE  /\ q.loop \in Loops /\ q.pc \in {"read", "enter", "close"}
         /\ q.pc = "enter" => q.loop.i = 0
         /\ q.pc = "read" => More(q.loop, Lnt(q.loop.file, r))
         /\ q.pc = "close" => q.loop.file = Len(set.nts) /\ q.loop.i >= Lnt(q.loop.file, r)
         /\ \A f \in Files : \A i \in 1 .. Lnt(f, r) : Past(q.loop, f, i) <=> Past(l, f, i)
<1>1. /\ l.file \in Files /\ l.i \in Nat /\ l.rem \in Nat
  BY DEF Loops
<1>2. /\ Len(set.nts) \in Nat /\ l.file \in Nat /\ l.file <= Len(set.nts)
      /\ \A f \in Files : f \in Nat /\ Lnt(f, r) \in Nat
  BY <1>1, SetFacts, LocalFacts DEF Files
<1>3. CASE More(l, Lnt(l.file, r))
  BY <1>3 DEF Proceed
<1>4. CASE ~More(l, Lnt(l.file, r)) /\ l.file < Len(set.nts)
  <2> DEFINE m == [file |-> l.file + 1, i |-> 0, rem |-> 0]
  <2>1. q = [pc |-> "enter", loop |-> m]
    BY <1>4 DEF Proceed
  <2>2. l.file + 1 \in Files
    BY <1>1, <1>2, <1>4 DEF Files
  <2>3. q.loop \in Loops /\ q.pc = "enter" /\ q.loop.file = l.file + 1 /\ q.loop.i = 0
    BY <2>1, <2>2 DEF Loops
  <2>4. l.i >= Lnt(l.file, r)
    BY <1>1, <1>2, <1>4 DEF More
  <2>5. ASSUME NEW f \in Files, NEW i \in 1 .. Lnt(f, r)
        PROVE  Past(q.loop, f, i) <=> Past(l, f, i)
    <3>1. f \in Nat /\ i \in Nat /\ i >= 1 /\ i <= Lnt(f, r) /\ Lnt(f, r) \in Nat
      BY <1>2
    <3>2. CASE f = l.file
      BY <1>1, <1>2, <2>3, <2>4, <3>1, <3>2 DEF Past
    <3>3. CASE f # l.file
      BY <1>1, <1>2, <2>3, <3>1, <3>3 DEF Past
    <3> QED BY <3>2, <3>3
  <2> QED BY <2>3, <2>5
<1>5. CASE ~More(l, Lnt(l.file, r)) /\ ~(l.file < Len(set.nts))
  <2>1. q = [pc |-> "close", loop |-> l]
    BY <1>5 DEF Proceed
  <2>2. l.i >= Lnt(l.file, r) /\ l.file = Len(set.nts)
    BY <1>1, <1>2, <1>5 DEF More
  <2> QED BY <2>1, <2>2
<1> QED BY <1>3, <1>4, <1>5

LEMMA EnterStep == IInv /\ Enter => IInv'
<1> SUFFICES ASSUME IInv, Enter PROVE IInv'
  OBVIOUS
<1> DEFINE most == Max({LocalSize(r) : r \in Rank})
           opens(r) == Open(r, loop[r].file, most)
           after(r) == Proceed(r, opens(r))
<1>1. /\ \A r \in Rank : pc[r] = "enter"
      /\ loop' = [r \in Rank |-> after(r).loop]
      /\ pc' = [r \in Rank |-> after(r).pc]
      /\ UNCHANGED <<set, sorting, added, olst, keeper, trlist, block, out, nt, count>>
  BY DEF Enter
<1>2. set \in Sets /\ \A r \in Rank : loop[r] \in Loops /\ loop[r].i = 0
  BY <1>1 DEF IInv, SetTypes, LoopFacts
<1>3. \A r \in Rank : LocalSize(r) \in Nat /\ loop[r].file \in Files
  BY <1>2, ChunkIs
<1>4. most \in Nat /\ \A r \in Rank : LocalSize(r) <= most
  <2> DEFINE s == [r \in Rank |-> LocalSize(r)]
  <2>1. s \in [Rank -> Nat]
    BY <1>3
  <2>2. most = Max({s[r] : r \in Rank})
    <3>1. {LocalSize(r) : r \in Rank} = {s[r] : r \in Rank}
      OBVIOUS
    <3> QED BY <3>1
  <2> HIDE DEF s, most
  <2>3. most \in Nat /\ \A r \in Rank : s[r] <= most
    BY <2>1, <2>2, Busiest
  <2> QED BY <2>3 DEF s
<1> HIDE DEF most
<1>5. ASSUME NEW r \in Rank
      PROVE  opens(r) \in Loops /\ opens(r).file = loop[r].file /\ opens(r).i = loop[r].i
  <2>1. RemCall(Lnt(loop[r].file, r), MaxBlock, most) \in Nat
    BY <1>3, <1>4, MaxBlockAssumption, SameNumberOfCalls DEF LocalSize
  <2> QED BY <1>2, <1>3, <2>1 DEF Open, Loops
<1> HIDE DEF opens
<1>6. ASSUME NEW r \in Rank
      PROVE  /\ after(r).loop \in Loops /\ after(r).pc \in {"read", "enter", "close"}
             /\ after(r).pc = "enter" => after(r).loop.i = 0
             /\ after(r).pc = "read" => More(after(r).loop, Lnt(after(r).loop.file, r))
             /\ after(r).pc = "close" => /\ after(r).loop.file = Len(set.nts)
                                         /\ after(r).loop.i >= Lnt(after(r).loop.file, r)
             /\ \A f \in Files : \A i \in 1 .. Lnt(f, r) :
                  Past(after(r).loop, f, i) <=> Past(loop[r], f, i)
  <2>1. /\ after(r).loop \in Loops /\ after(r).pc \in {"read", "enter", "close"}
        /\ after(r).pc = "enter" => after(r).loop.i = 0
        /\ after(r).pc = "read" => More(after(r).loop, Lnt(after(r).loop.file, r))
        /\ after(r).pc = "close" => /\ after(r).loop.file = Len(set.nts)
                                    /\ after(r).loop.i >= Lnt(after(r).loop.file, r)
        /\ \A f \in Files : \A i \in 1 .. Lnt(f, r) :
             Past(after(r).loop, f, i) <=> Past(opens(r), f, i)
    BY <1>2, <1>5, ProceedIs
  <2>2. \A f, i : Past(opens(r), f, i) <=> Past(loop[r], f, i)
    BY <1>5 DEF Past
  <2> QED BY <2>1, <2>2
<1> HIDE DEF after
<1>7. /\ Files' = Files /\ Total' = Total
      /\ \A f, r, i : Given(f, r, i)' = Given(f, r, i)
      /\ \A f, r : Lnt(f, r)' = Lnt(f, r) /\ Ilst(f, r)' = Ilst(f, r)
  BY <1>1, SetFixed, GivenFixed
<1>8. SetTypes'
  <2>1. pc' \in [Rank -> Steps]
    BY <1>1, <1>6 DEF Steps
  <2>2. loop' \in [Rank -> Loops]
    BY <1>1, <1>6
  <2> QED BY <1>1, <1>7, <2>1, <2>2 DEF IInv, SetTypes, Loops
<1>9. EarlyFacts'
  <2>1. \A r \in Rank : pc'[r] \notin Early
    BY <1>1, <1>6 DEF Early
  <2> QED BY <2>1 DEF EarlyFacts, Early
<1>10. LoopFacts'
  <2> SUFFICES ASSUME NEW r \in Rank
      PROVE  /\ pc'[r] \notin Early => /\ Len(olst'[r]) = Len(set'.nts)
                                       /\ \A f \in Files' : Listed(f, r)'
             /\ pc'[r] = "enter" => loop'[r].i = 0
             /\ pc'[r] \in {"read", "write"} => More(loop'[r], LocalSize(r)')
             /\ pc'[r] = "write" => BlockOk(r)'
             /\ pc'[r] \in {"close", "done"} => /\ loop'[r].file = Len(set'.nts)
                                                /\ loop'[r].i >= LocalSize(r)'
    BY DEF LoopFacts
  <2>1. Len(olst[r]) = Len(set.nts) /\ \A f \in Files : Listed(f, r)
    BY <1>1 DEF IInv, LoopFacts, Early
  <2>2. \A f \in Files' : Listed(f, r)'
    BY <1>1, <1>7, <2>1, ListedStays
  <2>3. pc'[r] = after(r).pc /\ loop'[r] = after(r).loop
    BY <1>1
  <2>4. LocalSize(r)' = Lnt(after(r).loop.file, r)
    BY <1>7, <2>3 DEF LocalSize
  <2> QED BY <1>1, <1>6, <2>1, <2>2, <2>3, <2>4
<1>11. \A r \in Rank : \A f \in Files : \A i \in 1 .. Lnt(f, r) :
          Behind(f, r, i)' <=> Behind(f, r, i)
  BY <1>1, <1>6 DEF Behind, Past
<1>12. OutFacts'
  <2>1. \A w : Written(w)' <=> Written(w)
    BY <1>7, <1>11 DEF Written
  <2> QED BY <1>1, <2>1 DEF IInv, OutFacts
<1>13. CountFacts'
  BY <1>1, <1>7, <1>11 DEF IInv, CountFacts
<1>14. KeeperFacts'
  BY <1>1, KeeperStays DEF IInv
<1> QED BY <1>8, <1>9, <1>10, <1>12, <1>13, <1>14 DEF IInv

LEMMA ReadStep == IInv /\ Read => IInv'
<1> SUFFICES ASSUME IInv, Read PROVE IInv'
  OBVIOUS
<1>1. /\ \A r \in Rank : pc[r] = "read"
      /\ pc' = [r \in Rank |-> "write"]
      /\ block' = [r \in Rank |-> Fetched(r)]
      /\ UNCHANGED <<set, sorting, added, olst, keeper, trlist, loop, out, nt, count>>
  BY DEF Read, Move
<1>2. /\ Files' = Files /\ Total' = Total
      /\ \A f, r, i : Given(f, r, i)' = Given(f, r, i)
      /\ \A f, r : Lnt(f, r)' = Lnt(f, r) /\ Ilst(f, r)' = Ilst(f, r)
  BY <1>1, SetFixed, GivenFixed
<1>3. SetTypes'
  <2>1. pc' \in [Rank -> Steps]
    BY <1>1 DEF Steps
  <2> QED BY <1>1, <1>2, <2>1 DEF IInv, SetTypes, Loops
<1>4. EarlyFacts'
  BY <1>1 DEF EarlyFacts, Early
<1>5. ASSUME NEW r \in Rank
      PROVE  /\ Len(olst'[r]) = Len(set'.nts) /\ \A f \in Files' : Listed(f, r)'
             /\ BlockOk(r)' /\ More(loop'[r], LocalSize(r)')
  <2>1. Len(olst[r]) = Len(set.nts) /\ \A f \in Files : Listed(f, r)
    BY <1>1 DEF IInv, LoopFacts, Early
  <2>2. \A f \in Files' : Listed(f, r)'
    BY <1>1, <1>2, <2>1, ListedStays
  <2>3. set \in Sets /\ Dealt(keeper) /\ loop[r] \in Loops /\ loop[r].file \in Files
    BY DEF IInv, SetTypes, KeeperFacts, Loops
  <2> DEFINE b == Fetched(r)  n == ChunkOf(r)  i == loop[r].i
  <2>4. b = Fetched(r)
    OBVIOUS
  <2> HIDE DEF b
  <2>5. /\ DOMAIN b = 1 .. n /\ Len(b) = n
        /\ n = 0 => b = <<>>
        /\ \A j, k \in 1 .. n : j < k => b[j].place < b[k].place
        /\ \A j \in 1 .. n : \E k \in i + 1 .. i + n : b[j] = Item(r, k)
        /\ \A k \in i + 1 .. i + n : \E j \in 1 .. n : b[j] = Item(r, k)
    BY <2>1, <2>3, <2>4, FetchedIs
  <2>6. block'[r] = b
    BY <1>1, <2>4
  <2>7. n' = n /\ i' = i
    BY <1>1, <1>2 DEF ChunkOf, LocalSize
  <2>8. \A k : Item(r, k)' = Item(r, k)
    BY <1>1, <1>2 DEF Item
  <2>9. BlockOk(r)' <=> /\ DOMAIN block'[r] = 1 .. n' /\ Len(block'[r]) = n'
                        /\ n' = 0 => block'[r] = <<>>
                        /\ \A j, k \in 1 .. n' : j < k => block'[r][j].place < block'[r][k].place
                        /\ \A j \in 1 .. n' : \E k \in i' + 1 .. i' + n' : block'[r][j] = Item(r, k)'
                        /\ \A k \in i' + 1 .. i' + n' : \E j \in 1 .. n' : block'[r][j] = Item(r, k)'
    BY DEF BlockOk
  <2> HIDE DEF n, i
  <2>10. BlockOk(r)'
    BY <2>5, <2>6, <2>7, <2>8, <2>9
  <2>11. More(loop[r], LocalSize(r)) /\ LocalSize(r)' = LocalSize(r)
    BY <1>1, <1>2 DEF IInv, LoopFacts, LocalSize
  <2> QED BY <1>1, <2>1, <2>2, <2>10, <2>11
<1>6. LoopFacts'
  BY <1>1, <1>5 DEF LoopFacts
<1>7. OutFacts' /\ CountFacts'
  BY <1>1, NothingWritten DEF IInv
<1>8. KeeperFacts'
  BY <1>1, KeeperStays DEF IInv
<1> QED BY <1>3, <1>4, <1>6, <1>7, <1>8 DEF IInv

(***************************************************************************)
(* The next chunk begins where this one ends.                              *)
(***************************************************************************)
LEMMA AdvanceIs ==
  ASSUME set \in Sets, NEW r \in Rank, loop[r] \in Loops,
         More(loop[r], LocalSize(r)),
         NEW l, l = Advance(loop[r], LocalSize(r), MaxBlock)
  PROVE  /\ l \in Loops
         /\ \A f \in Files : \A i \in 1 .. Lnt(f, r) :
              Past(l, f, i) <=> \/ Past(loop[r], f, i)
                                \/ /\ f = loop[r].file
                                   /\ i \in loop[r].i + 1 .. loop[r].i + ChunkOf(r)
<1> DEFINE n == ChunkOf(r)  sz == LocalSize(r)  cur == loop[r].file  at == loop[r].i
<1>1. /\ cur \in Files /\ at \in Nat /\ sz \in Nat /\ n \in Nat
      /\ at >= sz => n = 0
      /\ at < sz => at + n <= sz /\ n <= MaxBlock /\ (at + n = sz \/ n = MaxBlock)
  BY ChunkIs
<1>2. MaxBlock \in Nat /\ cur \in Nat /\ sz = Lnt(cur, r)
      /\ loop[r] = [file |-> cur, i |-> at, rem |-> loop[r].rem]
  BY <1>1, SetFacts, MaxBlockAssumption DEF LocalSize, Loops
<1> DEFINE rem == loop[r].rem
<1>3. /\ rem \in Nat /\ (at < sz \/ rem > 0)
      /\ l = IF at < sz THEN [file |-> cur, i |-> at + MaxBlock, rem |-> rem]
                        ELSE [file |-> cur, i |-> at, rem |-> rem - 1]
  BY <1>2 DEF Advance, More, Loops
<1> HIDE DEF n, sz, cur, at, rem
<1>4. /\ l.file = cur /\ l.i \in Nat
      /\ at < sz => l.i = at + MaxBlock
      /\ ~(at < sz) => l.i = at
      /\ l \in Loops
  BY <1>1, <1>2, <1>3 DEF Loops
<1>5. ASSUME NEW f \in Files, NEW i \in 1 .. Lnt(f, r)
      PROVE  Past(l, f, i) <=> Past(loop[r], f, i) \/ (f = cur /\ i \in at + 1 .. at + n)
  <2>1. f \in Nat /\ Lnt(f, r) \in Nat /\ i \in Nat /\ i >= 1 /\ i <= Lnt(f, r)
    BY SetFacts, LocalFacts
  <2>2. Past(loop[r], f, i) <=> f < cur \/ (f = cur /\ i <= at)
    BY DEF Past, cur, at
  <2>3. Past(l, f, i) <=> f < cur \/ (f = cur /\ i <= l.i)
    BY <1>4 DEF Past
  <2>4. CASE f = cur
    <3>1. i <= sz
      BY <1>2, <2>1, <2>4
    <3>2. i <= l.i <=> i <= at \/ i \in at + 1 .. at + n
      BY <1>1, <1>2, <1>4, <2>1, <3>1
    <3> QED BY <1>2, <2>1, <2>2, <2>3, <2>4, <3>2
  <2>5. CASE f # cur
    BY <2>2, <2>3, <2>5
  <2> QED BY <2>4, <2>5
<1> QED BY <1>4, <1>5 DEF n, cur, at

LEMMA MaxOfTwo ==
  ASSUME NEW a \in Nat, NEW b \in Nat
  PROVE  Max({a, b}) \in {a, b} /\ a <= Max({a, b}) /\ b <= Max({a, b})
<1> DEFINE m == CHOOSE x \in {a, b} : \A y \in {a, b} : x >= y
<1>1. \E x \in {a, b} : \A y \in {a, b} : x >= y
  OBVIOUS
<1>2. m \in {a, b} /\ \A y \in {a, b} : m >= y
  BY <1>1
<1>3. Max({a, b}) = m
  BY DEF Max
<1> HIDE DEF m
<1> QED BY <1>2, <1>3

LEMMA WriteStep == IInv /\ Write => IInv'
<1> SUFFICES ASSUME IInv, Write PROVE IInv'
  OBVIOUS
<1> DEFINE advanced(r) == Advance(loop[r], LocalSize(r), MaxBlock)
           after(r) == Proceed(r, advanced(r))
           n(r) == ChunkOf(r)
           cur(r) == loop[r].file
           i(r) == loop[r].i
<1>1. /\ \A r \in Rank : pc[r] = "write"
      /\ out' = out \cup UNION {{<<w.place, w.trace>> : w \in Range(block[r])} : r \in Rank}
      /\ nt' = [r \in Rank |-> Counted(nt[r], block[r])]
      /\ loop' = [r \in Rank |-> after(r).loop]
      /\ pc' = [r \in Rank |-> after(r).pc]
      /\ UNCHANGED <<set, sorting, added, olst, keeper, trlist, block, count>>
  BY DEF Write
<1>2. /\ set \in Sets /\ Dealt(keeper)
      /\ \A r \in Rank : /\ loop[r] \in Loops /\ More(loop[r], LocalSize(r)) /\ BlockOk(r)
                         /\ Len(olst[r]) = Len(set.nts)
                         /\ \A f \in Files : Listed(f, r)
  BY <1>1 DEF IInv, SetTypes, KeeperFacts, LoopFacts, Early
<1>3. ASSUME NEW r \in Rank
      PROVE  /\ advanced(r) \in Loops
             /\ \A f \in Files : \A k \in 1 .. Lnt(f, r) :
                  Past(advanced(r), f, k) <=>
                    Past(loop[r], f, k) \/ (f = cur(r) /\ k \in i(r) + 1 .. i(r) + n(r))
  BY <1>2, AdvanceIs
<1> HIDE DEF advanced
<1>4. ASSUME NEW r \in Rank
      PROVE  /\ after(r).loop \in Loops /\ after(r).pc \in {"read", "enter", "close"}
             /\ after(r).pc = "enter" => after(r).loop.i = 0
             /\ after(r).pc = "read" => More(after(r).loop, Lnt(after(r).loop.file, r))
             /\ after(r).pc = "close" => /\ after(r).loop.file = Len(set.nts)
                                         /\ after(r).loop.i >= Lnt(after(r).loop.file, r)
             /\ \A f \in Files : \A k \in 1 .. Lnt(f, r) :
                  Past(after(r).loop, f, k) <=> Past(advanced(r), f, k)
  BY <1>2, <1>3, ProceedIs
<1> HIDE DEF after
<1>5. /\ Files' = Files /\ Total' = Total
      /\ \A f, r, k : Given(f, r, k)' = Given(f, r, k)
      /\ \A f, r : Lnt(f, r)' = Lnt(f, r) /\ Ilst(f, r)' = Ilst(f, r)
  BY <1>1, SetFixed, GivenFixed
<1>6. \A r \in Rank : \A f \in Files : \A k \in 1 .. Lnt(f, r) :
        Behind(f, r, k)' <=>
          Behind(f, r, k) \/ (f = cur(r) /\ k \in i(r) + 1 .. i(r) + n(r))
  <2>1. \A r \in Rank : loop'[r] = after(r).loop
    BY <1>1
  <2> HIDE DEF cur, i, n
  <2>2. \A r \in Rank : \A f \in Files : \A k \in 1 .. Lnt(f, r) :
          Past(loop'[r], f, k) <=>
            Past(loop[r], f, k) \/ (f = cur(r) /\ k \in i(r) + 1 .. i(r) + n(r))
    BY <1>3, <1>4, <2>1
  <2>3. \A r, f, k : Behind(f, r, k)' <=> Past(loop'[r], f, k)
    BY DEF Behind, Past
  <2> QED BY <2>2, <2>3 DEF Behind
\* The traces of the block are the next of the part of the file.
<1>7. ASSUME NEW r \in Rank
      PROVE  /\ cur(r) \in Files /\ i(r) \in Nat /\ n(r) \in Nat
             /\ n(r) = 0 \/ i(r) + n(r) <= Lnt(cur(r), r)
             /\ \A k \in i(r) + 1 .. i(r) + n(r) : k \in 1 .. Lnt(cur(r), r)
             /\ Len(block[r]) = n(r) /\ DOMAIN block[r] = 1 .. n(r)
  <2>1. /\ cur(r) \in Files /\ i(r) \in Nat /\ n(r) \in Nat /\ LocalSize(r) \in Nat
        /\ n(r) = 0 \/ i(r) + n(r) <= LocalSize(r)
    BY <1>2, ChunkIs
  <2>2. LocalSize(r) = Lnt(cur(r), r)
    BY DEF LocalSize
  <2>3. Len(block[r]) = n(r) /\ DOMAIN block[r] = 1 .. n(r)
    BY <1>2 DEF BlockOk
  <2> HIDE DEF cur, i, n
  <2>4. \A k \in i(r) + 1 .. i(r) + n(r) : k \in 1 .. LocalSize(r)
    BY <2>1
  <2> QED BY <2>1, <2>2, <2>3, <2>4
<1>8. SetTypes' /\ CountFacts'
  <2>1. pc' \in [Rank -> Steps]
    BY <1>1, <1>4 DEF Steps
  <2>2. loop' \in [Rank -> Loops]
    BY <1>1, <1>4
  <2>3. ASSUME NEW r \in Rank
        PROVE  /\ nt'[r] \in 0 .. Total /\ nt[r] <= nt'[r]
               /\ \A k \in i(r) + 1 .. i(r) + n(r) : Given(cur(r), r, k) < nt'[r]
    <3> DEFINE b == block[r]  a == nt[r]  last == b[Len(b)].place + 1
    <3>1. /\ nt'[r] = (IF b = <<>> THEN a ELSE Max({a, last})) /\ a \in 0 .. Total
          /\ Total \in Nat
      BY <1>1, <1>2, ConcatenatedFacts DEF IInv, SetTypes, Counted
    <3>2. /\ \A j, k \in 1 .. n(r) : j < k => b[j].place < b[k].place
          /\ \A j \in 1 .. n(r) : \E k \in i(r) + 1 .. i(r) + n(r) : b[j] = Item(r, k)
          /\ \A k \in i(r) + 1 .. i(r) + n(r) : \E j \in 1 .. n(r) : b[j] = Item(r, k)
      BY <1>2 DEF BlockOk
    <3>3. \A k : Item(r, k).place = Given(cur(r), r, k)
      BY DEF Item
    <3>4. Len(b) = n(r) /\ n(r) \in Nat
      BY <1>7
    <3> HIDE DEF b, a, n, i, cur
    <3>5. CASE n(r) = 0
      <4>1. b = <<>>
        BY <1>2, <3>5 DEF BlockOk, b, n
      <4>2. \A k \in i(r) + 1 .. i(r) + n(r) : FALSE
        BY <1>7, <3>5
      <4> QED BY <3>1, <4>1, <4>2 DEF a
    <3>6. CASE n(r) # 0
      <4>1. n(r) \in 1 .. n(r) /\ b # <<>>
        BY <3>4, <3>6
      <4>2. PICK k \in i(r) + 1 .. i(r) + n(r) : b[n(r)] = Item(r, k)
        BY <3>2, <4>1
      <4>3. b[n(r)].place \in 0 .. Total - 1
        BY <1>2, <1>7, <3>3, <4>2, GivenFacts
      <4>4. last = b[n(r)].place + 1 /\ last \in 1 .. Total
        BY <3>1, <3>4, <4>3
      <4> HIDE DEF last
      <4>5. nt'[r] = Max({a, last})
        BY <3>1, <4>1
      <4>6. Max({a, last}) \in {a, last} /\ a <= Max({a, last}) /\ last <= Max({a, last})
        BY <3>1, <4>4, MaxOfTwo
      <4>7. ASSUME NEW m \in i(r) + 1 .. i(r) + n(r)
            PROVE  Given(cur(r), r, m) < last
        <5>1. PICK j \in 1 .. n(r) : b[j] = Item(r, m)
          BY <3>2
        <5>2. b[j].place = Given(cur(r), r, m) /\ Given(cur(r), r, m) \in 0 .. Total - 1
          BY <1>2, <1>7, <3>3, <5>1, GivenFacts
        <5>3. b[j].place <= b[n(r)].place
          <6>1. j = n(r) \/ j < n(r)
            BY <3>4
          <6>2. CASE j = n(r)
            BY <4>3, <6>2
          <6>3. CASE j < n(r)
            <7>1. b[j].place < b[n(r)].place
              BY <3>2, <4>1, <6>3
            <7>2. b[j].place \in Nat /\ b[n(r)].place \in Nat
              BY <4>3, <5>2
            <7> QED BY <7>1, <7>2
          <6> QED BY <6>1, <6>2, <6>3
        <5> QED BY <4>3, <4>4, <5>2, <5>3, <3>1
      <4>8. \A m \in i(r) + 1 .. i(r) + n(r) : Given(cur(r), r, m) < nt'[r]
        <5> TAKE m \in i(r) + 1 .. i(r) + n(r)
        <5>1. Given(cur(r), r, m) \in 0 .. Total - 1 /\ Given(cur(r), r, m) < last
          BY <1>2, <1>7, <4>7, GivenFacts
        <5>2. last <= nt'[r] /\ nt'[r] \in 0 .. Total
          BY <3>1, <4>4, <4>5, <4>6
        <5> QED BY <3>1, <4>4, <5>1, <5>2
      <4>9. nt'[r] \in 0 .. Total /\ nt[r] <= nt'[r]
        BY <3>1, <4>4, <4>5, <4>6 DEF a
      <4> QED BY <4>8, <4>9
    <3> QED BY <3>5, <3>6
  <2>4. nt' \in [Rank -> 0 .. Total]
    BY <1>1, <2>3
  <2>5. SetTypes'
    BY <1>1, <1>5, <2>1, <2>2, <2>4 DEF IInv, SetTypes, Loops
  <2>6. ASSUME NEW r \in Rank, NEW f \in Files, NEW k \in 1 .. Lnt(f, r), Behind(f, r, k)'
        PROVE  Given(f, r, k) < nt'[r]
    <3> HIDE DEF cur, i, n
    <3>1. CASE Behind(f, r, k)
      <4>1. Given(f, r, k) < nt[r]
        BY <3>1 DEF IInv, CountFacts
      <4>2. nt[r] <= nt'[r] /\ nt[r] \in 0 .. Total /\ nt'[r] \in 0 .. Total
        BY <2>3 DEF IInv, SetTypes
      <4>3. Given(f, r, k) \in 0 .. Total - 1 /\ Total \in Nat
        BY <1>2, GivenFacts, ConcatenatedFacts
      <4> QED BY <4>1, <4>2, <4>3
    <3>2. CASE f = cur(r) /\ k \in i(r) + 1 .. i(r) + n(r)
      BY <2>3, <3>2
    <3> QED BY <1>6, <2>6, <3>1, <3>2
  <2>7. CountFacts'
    BY <1>1, <1>5, <2>6 DEF CountFacts
  <2> QED BY <2>5, <2>7
<1>9. EarlyFacts'
  <2>1. \A r \in Rank : pc'[r] \notin Early
    BY <1>1, <1>4 DEF Early
  <2> QED BY <2>1 DEF EarlyFacts, Early
<1>10. LoopFacts'
  <2> SUFFICES ASSUME NEW r \in Rank
      PROVE  /\ pc'[r] \notin Early => /\ Len(olst'[r]) = Len(set'.nts)
                                       /\ \A f \in Files' : Listed(f, r)'
             /\ pc'[r] = "enter" => loop'[r].i = 0
             /\ pc'[r] \in {"read", "write"} => More(loop'[r], LocalSize(r)')
             /\ pc'[r] = "write" => BlockOk(r)'
             /\ pc'[r] \in {"close", "done"} => /\ loop'[r].file = Len(set'.nts)
                                                /\ loop'[r].i >= LocalSize(r)'
    BY DEF LoopFacts
  <2>1. \A f \in Files' : Listed(f, r)'
    BY <1>1, <1>2, <1>5, ListedStays
  <2>2. pc'[r] = after(r).pc /\ loop'[r] = after(r).loop
    BY <1>1
  <2>3. LocalSize(r)' = Lnt(after(r).loop.file, r)
    BY <1>5, <2>2 DEF LocalSize
  <2> QED BY <1>1, <1>2, <1>4, <2>1, <2>2, <2>3
<1>11. OutFacts'
  <2> SUFFICES ASSUME NEW w PROVE w \in out' <=> Written(w)'
    BY DEF OutFacts
  <2> DEFINE Fresh == \E r \in Rank : \E k \in i(r) + 1 .. i(r) + n(r) :
                        w = <<Given(cur(r), r, k), <<cur(r), Ilst(cur(r), r)[k]>>>>
  <2>1. w \in out' <=> w \in out \/ \E r \in Rank : \E v \in Range(block[r]) : w = <<v.place, v.trace>>
    BY <1>1
  <2>2. ASSUME NEW r \in Rank
        PROVE  (\E v \in Range(block[r]) : w = <<v.place, v.trace>>) <=>
                 \E k \in i(r) + 1 .. i(r) + n(r) :
                    w = <<Given(cur(r), r, k), <<cur(r), Ilst(cur(r), r)[k]>>>>
    <3>1. \A k : /\ Item(r, k).place = Given(cur(r), r, k)
                 /\ Item(r, k).trace = <<cur(r), Ilst(cur(r), r)[k]>>
      BY DEF Item
    <3>2. /\ \A j \in 1 .. n(r) : \E k \in i(r) + 1 .. i(r) + n(r) : block[r][j] = Item(r, k)
          /\ \A k \in i(r) + 1 .. i(r) + n(r) : \E j \in 1 .. n(r) : block[r][j] = Item(r, k)
          /\ DOMAIN block[r] = 1 .. n(r)
      BY <1>2 DEF BlockOk
    <3>3. \A v : v \in Range(block[r]) <=> \E j \in 1 .. n(r) : v = block[r][j]
      BY <3>2 DEF Range
    <3> HIDE DEF cur, i, n
    <3>4. ASSUME NEW v
          PROVE  v \in Range(block[r]) <=> \E k \in i(r) + 1 .. i(r) + n(r) : v = Item(r, k)
      <4>1. ASSUME v \in Range(block[r])
            PROVE  \E k \in i(r) + 1 .. i(r) + n(r) : v = Item(r, k)
        <5>1. PICK j \in 1 .. n(r) : v = block[r][j]
          BY <3>3, <4>1
        <5>2. PICK k \in i(r) + 1 .. i(r) + n(r) : block[r][j] = Item(r, k)
          BY <3>2
        <5> QED BY <5>1, <5>2
      <4>2. ASSUME NEW k \in i(r) + 1 .. i(r) + n(r), v = Item(r, k)
            PROVE  v \in Range(block[r])
        <5>1. PICK j \in 1 .. n(r) : block[r][j] = Item(r, k)
          BY <3>2
        <5> QED BY <3>3, <4>2, <5>1
      <4> QED BY <4>1, <4>2
    <3> QED BY <3>1, <3>4
  <2>3. w \in out' <=> Written(w) \/ Fresh
    BY <2>1, <2>2 DEF IInv, OutFacts
  <2>4. Written(w)' <=>
          \E r \in Rank : \E f \in Files : \E k \in 1 .. Lnt(f, r) :
             Behind(f, r, k)' /\ w = <<Given(f, r, k), <<f, Ilst(f, r)[k]>>>>
    BY <1>5 DEF Written
  <2>5. Fresh <=>
          \E r \in Rank : \E f \in Files : \E k \in 1 .. Lnt(f, r) :
             /\ f = cur(r) /\ k \in i(r) + 1 .. i(r) + n(r)
             /\ w = <<Given(f, r, k), <<f, Ilst(f, r)[k]>>>>
    <3> HIDE DEF cur, i, n
    <3> QED BY <1>7
  <2>6. Written(w) <=>
          \E r \in Rank : \E f \in Files : \E k \in 1 .. Lnt(f, r) :
             Behind(f, r, k) /\ w = <<Given(f, r, k), <<f, Ilst(f, r)[k]>>>>
    BY DEF Written
  <2> HIDE DEF cur, i, n, Fresh
  <2> QED BY <1>6, <2>3, <2>4, <2>5, <2>6
<1>12. KeeperFacts'
  BY <1>1, KeeperStays DEF IInv
<1> QED BY <1>8, <1>9, <1>10, <1>11, <1>12 DEF IInv

(***************************************************************************)
(* Behind the last chunk every trace is written, so some process has       *)
(* counted the last of them, and none has counted more.                    *)
(***************************************************************************)
LEMMA AllBehind ==
  ASSUME IInv, \A r \in Rank : pc[r] \in {"close", "done"},
         NEW r \in Rank, NEW f \in Files, NEW i \in 1 .. Lnt(f, r)
  PROVE  Behind(f, r, i)
<1>1. /\ set \in Sets /\ loop[r] \in Loops
      /\ loop[r].file = Len(set.nts) /\ loop[r].i >= LocalSize(r)
  BY DEF IInv, SetTypes, LoopFacts
<1>2. f \in Nat /\ f <= Len(set.nts) /\ Len(set.nts) \in Nat
  BY <1>1, SetFacts DEF Files
<1>3. f = loop[r].file => i <= loop[r].i
  <2>1. Lnt(f, r) \in Nat /\ loop[r].i \in Nat
    BY <1>1, LocalFacts DEF Loops
  <2> QED BY <1>1, <2>1 DEF LocalSize
<1> QED BY <1>1, <1>2, <1>3 DEF Behind, Past

LEMMA GreatestCount ==
  ASSUME IInv, \A r \in Rank : pc[r] \in {"close", "done"}
  PROVE  Max({nt[r] : r \in Rank}) = Total
<1> DEFINE m == Max({nt[r] : r \in Rank})
<1>1. set \in Sets /\ Dealt(keeper) /\ nt \in [Rank -> 0 .. Total] /\ Total \in Nat
  BY ConcatenatedFacts DEF IInv, SetTypes, KeeperFacts
<1>2. nt \in [Rank -> Nat]
  BY <1>1
<1>3. m \in Nat /\ (\A r \in Rank : nt[r] <= m) /\ \E r \in Rank : nt[r] = m
  BY <1>2, Busiest
<1> HIDE DEF m
<1>4. m <= Total
  BY <1>1, <1>3
<1>5. CASE Total = 0
  BY <1>3, <1>4, <1>5 DEF m
<1>6. CASE Total # 0
  <2>1. Total - 1 \in 0 .. Total - 1
    BY <1>1, <1>6
  <2>2. PICK r \in Rank : \E f \in Files : \E i \in 1 .. Lnt(f, r) : Given(f, r, i) = Total - 1
    BY <1>1, <2>1, GivenFacts
  <2>3. PICK f \in Files : \E i \in 1 .. Lnt(f, r) : Given(f, r, i) = Total - 1
    BY <2>2
  <2>4. PICK i \in 1 .. Lnt(f, r) : Given(f, r, i) = Total - 1
    BY <2>3
  <2>5. Given(f, r, i) < nt[r]
    BY AllBehind DEF IInv, CountFacts
  <2>6. m = Total
    BY <1>1, <1>2, <1>3, <1>4, <2>4, <2>5
  <2> QED BY <2>6 DEF m
<1> QED BY <1>5, <1>6

LEMMA CloseStep == IInv /\ Close => IInv'
<1> SUFFICES ASSUME IInv, Close PROVE IInv'
  OBVIOUS
<1>1. /\ \A r \in Rank : pc[r] = "close"
      /\ pc' = [r \in Rank |-> "done"]
      /\ count' = IF sorting /\ Refused THEN count ELSE Max({nt[r] : r \in Rank})
      /\ UNCHANGED <<set, sorting, added, olst, keeper, trlist, loop, block, out, nt>>
  BY DEF Close, Move
<1>2. Files' = Files /\ Total' = Total /\ \A r \in Rank : LocalSize(r)' = LocalSize(r)
  BY <1>1, SetFixed DEF LocalSize
<1>3. count' = -1 \/ count' = Total
  BY <1>1, GreatestCount DEF IInv, SetTypes
<1>4. SetTypes'
  <2>1. pc' \in [Rank -> Steps]
    BY <1>1 DEF Steps
  <2> QED BY <1>1, <1>2, <1>3, <2>1 DEF IInv, SetTypes, Loops
<1>5. EarlyFacts'
  BY <1>1 DEF EarlyFacts, Early
<1>6. LoopFacts'
  <2>1. \A r \in Rank : /\ Len(olst[r]) = Len(set.nts) /\ \A f \in Files : Listed(f, r)
                        /\ loop[r].file = Len(set.nts) /\ loop[r].i >= LocalSize(r)
    BY <1>1 DEF IInv, LoopFacts, Early
  <2>2. \A r \in Rank : \A f \in Files : Listed(f, r)'
    BY <1>1, <2>1, ListedStays
  <2> QED BY <1>1, <1>2, <2>1, <2>2 DEF LoopFacts
<1>7. OutFacts' /\ CountFacts'
  BY <1>1, NothingWritten DEF IInv
<1>8. KeeperFacts'
  BY <1>1, KeeperStays DEF IInv
<1> QED BY <1>4, <1>5, <1>6, <1>7, <1>8 DEF IInv

LEMMA IdleStep == IInv /\ UNCHANGED vars => IInv'
<1> SUFFICES ASSUME IInv, UNCHANGED vars PROVE IInv'
  OBVIOUS
<1>1. UNCHANGED <<set, sorting, added, pc, olst, keeper, trlist, loop, block, out, nt, count>>
  BY DEF vars
<1>2. SetTypes'
  <2>1. Files' = Files /\ Total' = Total
    BY <1>1, SetFixed
  <2> QED BY <1>1, <2>1 DEF IInv, SetTypes, Loops
<1>3. EarlyFacts' /\ LoopFacts'
  <2>1. \A q \in Rank : pc'[q] = pc[q] /\ olst'[q] = olst[q]
    BY <1>1
  <2> QED BY <1>1, <2>1, OthersStay DEF EarlyFacts, LoopFacts, AtStart
<1>4. OutFacts' /\ CountFacts'
  BY <1>1, NothingWritten DEF IInv
<1>5. KeeperFacts'
  BY <1>1, KeeperStays DEF IInv
<1> QED BY <1>2, <1>3, <1>4, <1>5 DEF IInv

(***************************************************************************)
(* The invariant holds throughout: the places of the traces are fixed      *)
(* before the first write, and the output holds the traces the loops have  *)
(* behind them, at their places.                                           *)
(***************************************************************************)
THEOREM Inductive == Spec => []IInv
<1>1. Init => IInv
  BY InitHolds
<1>2. IInv /\ [Next]_vars => IInv'
  <2> SUFFICES ASSUME IInv, [Next]_vars PROVE IInv'
    OBVIOUS
  <2>1. CASE Add
    BY <2>1, AddStep
  <2>2. CASE Refuse
    BY <2>2, RefuseStep
  <2>3. CASE Round
    BY <2>3, RoundStep
  <2>4. CASE FileOrder
    BY <2>4, FileOrderStep
  <2>5. CASE Enter
    BY <2>5, EnterStep
  <2>6. CASE Read
    BY <2>6, ReadStep
  <2>7. CASE Write
    BY <2>7, WriteStep
  <2>8. CASE Close
    BY <2>8, CloseStep
  <2>9. CASE \E r \in Rank : Copy(r)
    BY <2>9, CopyStep
  <2>10. CASE UNCHANGED vars
    BY <2>10, IdleStep
  <2> QED BY <2>1, <2>2, <2>3, <2>4, <2>5, <2>6, <2>7, <2>8, <2>9, <2>10 DEF Next, Finished
<1> QED BY <1>1, <1>2, PTL DEF Spec

-----------------------------------------------------------------------------
(***************************************************************************)
(* The variables keep their types: the loops stay within the files, and    *)
(* only traces of the set are written.                                     *)
(***************************************************************************)
THEOREM TypesKept == Spec => []TypeOK
<1>1. IInv => TypeOK
  <2> SUFFICES ASSUME IInv PROVE TypeOK
    OBVIOUS
  <2>1. SetTypes /\ Dealt(keeper)
    BY DEF IInv, KeeperFacts
  <2>2. out \subseteq Nat \X Traces
    <3> SUFFICES ASSUME NEW w \in out PROVE w \in Nat \X Traces
      OBVIOUS
    <3>1. PICK r \in Rank, f \in Files : \E i \in 1 .. Lnt(f, r) : w = <<Given(f, r, i), <<f, Ilst(f, r)[i]>>>>
      BY DEF IInv, OutFacts, Written
    <3>2. PICK i \in 1 .. Lnt(f, r) : w = <<Given(f, r, i), <<f, Ilst(f, r)[i]>>>>
      BY <3>1
    <3>3. Given(f, r, i) \in Nat /\ <<f, Ilst(f, r)[i]>> \in Traces
      BY <2>1, GivenFacts, LocalFacts DEF SetTypes
    <3> QED BY <3>2, <3>3
  <2>3. nt \in [Rank -> Nat]
    BY <2>1 DEF SetTypes
  <2>4. ASSUME NEW r \in Rank
        PROVE  /\ loop[r] \in [file : Files, i : Nat, rem : Nat]
               /\ \A f \in DOMAIN olst[r] : olst[r][f] \in Seq(Nat)
    BY <2>1 DEF SetTypes, Loops
  <2> QED BY <2>1, <2>2, <2>3, <2>4 DEF SetTypes, Dealt, TypeOK, Steps
<1> QED BY <1>1, Inductive, PTL

(***************************************************************************)
(* No place of the output gets two traces and no trace two places, for any *)
(* files on any number of processes, sorted or not: even where the second  *)
(* sort confuses the headers, its places are all different.                *)
(***************************************************************************)
THEOREM NeverOverwrites == Spec => []NoOverwrite
<1>1. IInv => NoOverwrite
  <2> SUFFICES ASSUME IInv, NEW v \in out, NEW w \in out, v # w
      PROVE  v[1] # w[1] /\ v[2] # w[2]
    BY DEF NoOverwrite
  <2>1. set \in Sets /\ Dealt(keeper)
    BY DEF IInv, SetTypes, KeeperFacts
  <2>2. PICK r \in Rank, f \in Files : \E i \in 1 .. Lnt(f, r) : v = <<Given(f, r, i), <<f, Ilst(f, r)[i]>>>>
    BY DEF IInv, OutFacts, Written
  <2>3. PICK i \in 1 .. Lnt(f, r) : v = <<Given(f, r, i), <<f, Ilst(f, r)[i]>>>>
    BY <2>2
  <2>4. PICK s \in Rank, g \in Files : \E j \in 1 .. Lnt(g, s) : w = <<Given(g, s, j), <<g, Ilst(g, s)[j]>>>>
    BY DEF IInv, OutFacts, Written
  <2>5. PICK j \in 1 .. Lnt(g, s) : w = <<Given(g, s, j), <<g, Ilst(g, s)[j]>>>>
    BY <2>4
  <2>6. ~(r = s /\ f = g /\ i = j)
    BY <2>3, <2>5
  <2>7. v[1] # w[1]
    BY <2>1, <2>3, <2>5, <2>6, GivenFacts
  <2>8. ASSUME v[2] = w[2] PROVE FALSE
    <3> DEFINE h == <<f, Ilst(f, r)[i]>>
    <3>1. h \in Traces /\ h[1] = f
      BY <2>1, LocalFacts
    <3>2. h = <<g, Ilst(g, s)[j]>> /\ f = g
      BY <2>3, <2>5, <2>8
    <3>3. Lnt(f, r) \in Nat /\ Lnt(g, s) \in Nat
      BY <2>1, LocalFacts
    <3>4. i \in Nat /\ j \in Nat /\ HeldAt(h, r, i) /\ HeldAt(h, s, j)
      BY <3>1, <3>2, <3>3 DEF HeldAt
    <3> HIDE DEF h
    <3>5. r = s /\ i = j
      BY <2>1, <3>1, <3>4, EveryTraceHeld
    <3> QED BY <2>6, <3>2, <3>5
  <2> QED BY <2>7, <2>8
<1> QED BY <1>1, Inductive, PTL

(***************************************************************************)
(* Every write names its places in ascending order.                        *)
(***************************************************************************)
THEOREM AlwaysAscend == Spec => []WritesAscend
<1>1. IInv => WritesAscend
  <2> SUFFICES ASSUME IInv, NEW r \in Rank, pc[r] = "write",
                      NEW j \in 1 .. Len(block[r]), NEW k \in 1 .. Len(block[r]), j < k
      PROVE  block[r][j].place < block[r][k].place
    BY DEF WritesAscend
  <2>1. BlockOk(r)
    BY DEF IInv, LoopFacts
  <2> QED BY <2>1 DEF BlockOk
<1> QED BY <1>1, Inductive, PTL

(***************************************************************************)
(* The trace count in the header of the finished output is that of the     *)
(* set.                                                                    *)
(***************************************************************************)
THEOREM CountAlwaysTotal == Spec => []CountIsTotal
<1>1. IInv => CountIsTotal
  BY DEF IInv, SetTypes, CountIsTotal
<1> QED BY <1>1, Inductive, PTL

(***************************************************************************)
(* The finished output holds every trace once: in the order of the files   *)
(* for any files, and in the order of the keys for sorted files whose      *)
(* numbers rise, when every process has at least four of their headers.    *)
(* (With three the rounds exchange nothing, and with fewer the sort is     *)
(* refused.)                                                               *)
(***************************************************************************)
THEOREM FinishedInOrder == Spec => []((sorting => Rising(set.nts) /\ Large) => OutputInOrder)
<1>1. IInv => ((sorting => Rising(set.nts) /\ Large) => OutputInOrder)
  <2> SUFFICES ASSUME IInv, sorting => Rising(set.nts) /\ Large, \A r \in Rank : pc[r] = "done"
      PROVE  out = {<<IF sorting THEN PlaceOf(h) ELSE Concatenated(h), h>> : h \in Traces}
    BY DEF OutputInOrder
  <2> DEFINE Right(h) == IF sorting THEN PlaceOf(h) ELSE Concatenated(h)
  <2>1. set \in Sets /\ Dealt(keeper)
    BY DEF IInv, SetTypes, KeeperFacts
  <2>2. ASSUME NEW r \in Rank, NEW f \in Files, NEW i \in 1 .. Lnt(f, r)
        PROVE  Given(f, r, i) = Right(<<f, Ilst(f, r)[i]>>)
    <3>1. CASE sorting
      <4>1. KeysAscend(keeper) /\ RegionSz # 0
        BY <2>1, <3>1, LargeSorts DEF IInv, KeeperFacts
      <4>2. PlaceList[Pos(f, r, i) + 1] = PlaceOf(<<f, Ilst(f, r)[i]>>)
        BY <2>1, <3>1, <4>1, PlaceListIs
      <4> QED BY <3>1, <4>2 DEF Given
    <3>2. CASE ~sorting
      BY <3>2 DEF Given
    <3> QED BY <3>1, <3>2
  <2>3. \A w : w \in out <=> \E r \in Rank : \E f \in Files : \E i \in 1 .. Lnt(f, r) :
                               w = <<Given(f, r, i), <<f, Ilst(f, r)[i]>>>>
    BY AllBehind DEF IInv, OutFacts, Written
  <2> HIDE DEF Right
  <2>4. ASSUME NEW w \in out
        PROVE  \E h \in Traces : w = <<Right(h), h>>
    <3>1. PICK r \in Rank, f \in Files : \E i \in 1 .. Lnt(f, r) : w = <<Given(f, r, i), <<f, Ilst(f, r)[i]>>>>
      BY <2>3
    <3>2. PICK i \in 1 .. Lnt(f, r) : w = <<Given(f, r, i), <<f, Ilst(f, r)[i]>>>>
      BY <3>1
    <3>3. <<f, Ilst(f, r)[i]>> \in Traces
      BY <2>1, LocalFacts
    <3> QED BY <2>2, <3>2, <3>3
  <2>5. ASSUME NEW h \in Traces
        PROVE  <<Right(h), h>> \in out
    <3>1. h[1] \in Files
      BY <2>1, EveryTraceHeld
    <3>2. PICK r \in Rank : \E i \in Nat : HeldAt(h, r, i)
      BY <2>1, EveryTraceHeld
    <3>3. PICK i \in Nat : HeldAt(h, r, i)
      BY <3>2
    <3>4. i \in 1 .. Lnt(h[1], r) /\ h = <<h[1], Ilst(h[1], r)[i]>>
      BY <3>3 DEF HeldAt
    <3> DEFINE f == h[1]
    <3>5. f \in Files /\ i \in 1 .. Lnt(f, r) /\ h = <<f, Ilst(f, r)[i]>>
      BY <3>1, <3>4
    <3> HIDE DEF f
    <3>6. Given(f, r, i) = Right(h)
      BY <2>2, <3>5
    <3>7. <<Right(h), h>> = <<Given(f, r, i), <<f, Ilst(f, r)[i]>>>>
      BY <3>5, <3>6
    <3> QED BY <2>3, <3>5, <3>7
  <2> QED BY <2>4, <2>5 DEF Right
<1> QED BY <1>1, Inductive, PTL

-----------------------------------------------------------------------------
(***************************************************************************)
(* The list of deferred operations: what holds between two steps of the    *)
(* unwinding.                                                              *)
(***************************************************************************)
Mark     == SortTypes \cup {"trace", "gather"}
Part     == [of : DOMAIN Key, done : Seq(Mark)]
Content  == [key : Nat \ {0}, parts : SUBSET Part]
Roots    == DOMAIN Key \cup OutNames \cup {"temp", "gtemp"}
Order    == {<<>>} \cup {<<by>> : by \in SortTypes}
Ops      == {NoOp, TraceOp} \cup {SortOp(by) : by \in SortTypes}
                            \cup {GatherOp(k) : k \in GatherKeys}
Opening  == [id : Nat, name : Roots \X Nat, key : Nat \ {0}, order : Order]

ListTypes ==
  /\ file \in Seq(Opening) /\ func \in Seq(Ops)
  /\ outfix \in OutNames \cup {"", "temp"} /\ saved \in OutNames \cup {""}
  /\ cache \in SUBSET [desc : Seq(Nat), seen : Seq(SUBSET Part)]
  /\ DOMAIN disk \subseteq Roots \X Nat /\ \A n \in DOMAIN disk : disk[n] \in Content
  /\ phase \in {"user", "unwind", "single", "gather", "gone"}
  /\ fCurr \in Nat /\ opened \in Nat /\ names \in Seq(DOMAIN disk)

\* The files are there, and each was opened once.
Known ==
  /\ \A f \in DOMAIN Key : NameOf(f, 0) \in DOMAIN disk
  /\ \A i \in DOMAIN file : file[i].name \in DOMAIN disk /\ file[i].id <= opened
  /\ \A i, j \in DOMAIN file : file[i].id = file[j].id => i = j

\* What the cache has for the files of a group is what they hold.
CacheTrue ==
  /\ \A c \in cache : \A i \in DOMAIN c.desc : c.desc[i] <= opened
  /\ \A c \in cache, k \in Keys : c.desc = Desc(k) => c.seen = Contents(k)

\* No two groups have the name without a number.
Alone == \A j, k \in Keys : Len(Group(j)) = 1 /\ Len(Group(k)) = 1 => j = k

\* Marks that the operations from the j-th on leave, and the parts that there
\* are when files with such marks still to come are done.
Left(j)     == FlattenSeq([i \in 1 .. Len(func) - j + 1 |-> func[j + i - 1].does])
Owed(marks) == UNION {After(Held(file[i]), file[i].order \o marks) : i \in DOMAIN file}

\* From fCurr on: sorts, then operations on single traces or a gather
\* operation, and last the one that output() adds.
Queued ==
  /\ fCurr \in 1 .. Len(func) /\ func[Len(func)] = NoOp
  /\ \A i, j \in fCurr .. Len(func) :
       i < j => func[i].kind = "sort" \/ func[j].kind = "single"
  /\ \A i \in fCurr .. Len(func) : func[i].kind = "gather" => i = Len(func) - 1

OneGroup == \A i, j \in DOMAIN file : file[i].key = file[j].key
Fit == \A j \in fCurr .. Len(func) : func[j].kind = "gather" =>
         /\ OneGroup
         /\ Len(file) = 1 => /\ file[1].name # Gtemp /\ file[1].order = <<>>
                             /\ \A i \in fCurr .. Len(func) : func[i].kind # "sort"

\* No file of the set is one that is to be written.
Apart == \A i \in DOMAIN file : file[i].name[1] \in DOMAIN Key \cup {"gtemp"}

Prefixed == outfix \in OutNames /\ saved = "" /\ promised.prefix = outfix

Resting == Idle =>
  /\ WellUsed /\ Apart /\ saved = "" /\ outfix # "temp"
  /\ HeldBy(Range(names)) = promised.parts
  /\ \A n \in Range(names) : n[1] = promised.prefix
  /\ \A i, j \in DOMAIN names : names[i] = names[j] => i = j

Unwinding == phase = "unwind" =>
  Queued /\ Fit /\ Apart /\ Prefixed /\ file # <<>> /\ promised.parts = Owed(Left(fCurr))

\* The groups before the one to write next have their outputs.
Coming   == IF saved = "" THEN Singles[fCurr] ELSE <<>>
Due(k)   == UNION {After(Held(Group(k)[i]), Group(k)[i].order \o Coming) :
                     i \in DOMAIN Group(k)}
Writing  == phase = "single" =>
  /\ Queued /\ Apart /\ file # <<>>
  /\ \/ Current("single") /\ Prefixed /\ promised.parts = Owed(Coming)
     \/ /\ Current("gather") /\ saved \in OutNames /\ outfix = "temp" /\ promised.prefix = saved
        /\ OneGroup /\ Len(file) > 1 /\ promised.parts = Owed(Left(fCurr))
  /\ Len(names) <= Len(GroupOrder)
  /\ todo = [i \in 1 .. Len(GroupOrder) - Len(names) |-> GroupOrder[Len(names) + i]]
  /\ \A n \in DOMAIN names : LET k == GroupOrder[n]
                             IN  names[n] = OutName(k) /\ disk[names[n]].parts = Due(k)

Gathering == phase = "gather" =>
  /\ Queued /\ Current("gather") /\ Prefixed
  /\ Len(file) = 1 /\ file[1].name # Gtemp /\ file[1].order = <<>>
  /\ \/ todo = file /\ promised.parts = Owed(Left(fCurr))
     \/ todo = <<>> /\ Gtemp \in DOMAIN disk /\ promised.parts = disk[Gtemp].parts

ListInv == Disciplined => /\ ListTypes /\ Known /\ CacheTrue /\ Alone
                          /\ Resting /\ Unwinding /\ Writing /\ Gathering

-----------------------------------------------------------------------------
(***************************************************************************)
(* What the recursions over lists compute.  First one that goes from a     *)
(* place to a later one, and puts together what it meets.                  *)
(***************************************************************************)
Recurs(g, N, A, m, next, base) ==
  g = [i \in 1 .. N |-> IF i \in A THEN m[i] \o g[next[i]] ELSE base[i]]

LEMMA Backward ==
  ASSUME NEW N \in Nat, NEW A \in SUBSET (1 .. N), NEW m, NEW base,
         NEW next \in [A -> 1 .. N], \A i \in A : i < next[i]
  PROVE  \E g : Recurs(g, N, A, m, next, base)
<1> DEFINE Val(g, i) == IF i \in A THEN m[i] \o g[next[i]] ELSE base[i]
           Sol(g, j) == g = [i \in j .. N |-> g[i]] /\ \A i \in j .. N : g[i] = Val(g, i)
           Bad == {n \in Nat : n <= N /\ ~\E g : Sol(g, N - n + 1)}
<1>1. ASSUME NEW g, Sol(g, 1)
      PROVE  Recurs(g, N, A, m, next, base)
  <2>1. \A i \in 1 .. N : g[i] = IF i \in A THEN m[i] \o g[next[i]] ELSE base[i]
    BY <1>1
  <2>2. g = [i \in 1 .. N |-> g[i]]
    BY <1>1
  <2>3. [i \in 1 .. N |-> g[i]] = [i \in 1 .. N |-> IF i \in A THEN m[i] \o g[next[i]] ELSE base[i]]
    BY <2>1
  <2> QED BY <2>2, <2>3 DEF Recurs
<1>2. ASSUME Bad = {}
      PROVE  \E g : Sol(g, 1)
  <2>1. N \notin Bad /\ N - N + 1 = 1
    BY <1>2
  <2> HIDE DEF Sol
  <2> QED BY <2>1
<1>3. ASSUME NEW n \in Bad, \A k \in Bad : n <= k
      PROVE  FALSE
  <2>1. n \in Nat /\ n <= N /\ ~\E g : Sol(g, N - n + 1)
    OBVIOUS
  <2>2. n # 0
    <3> SUFFICES ASSUME n = 0 PROVE FALSE
      OBVIOUS
    <3>1. N - n + 1 > N /\ N - n + 1 \in Nat
      BY <2>1
    <3> DEFINE e == [i \in N - n + 1 .. N |-> 0]
    <3>2. e = [i \in N - n + 1 .. N |-> e[i]]
      OBVIOUS
    <3>3. \A i \in N - n + 1 .. N : e[i] = Val(e, i)
      BY <3>1
    <3> HIDE DEF e, Val
    <3> QED BY <2>1, <3>2, <3>3
  <2> DEFINE j == N - n + 1
  <2>3. j \in 1 .. N /\ N - (n - 1) + 1 = j + 1 /\ n - 1 \in Nat /\ n - 1 < n
    BY <2>1, <2>2
  <2>4. PICK g : Sol(g, j + 1)
    <3>1. n - 1 \notin Bad
      <4> HIDE DEF Bad, Sol
      <4>1. \A k \in Bad : n <= k
        BY <1>3
      <4>2. ~(n <= n - 1)
        BY <2>1, <2>3
      <4> QED BY <4>1, <4>2
    <3>2. n - 1 <= N
      BY <2>1, <2>3
    <3> HIDE DEF Sol
    <3> QED BY <2>3, <3>1, <3>2
  <2> DEFINE h == [i \in j .. N |-> IF i = j THEN Val(g, j) ELSE g[i]]
  <2>5. \A i \in j .. N : h[i] = IF i = j THEN Val(g, j) ELSE g[i]
    OBVIOUS
  <2>6. h = [i \in j .. N |-> h[i]]
    OBVIOUS
  <2> HIDE DEF h, j
  <2>7. ASSUME NEW i \in j .. N
        PROVE  h[i] = Val(h, i)
    <3>1. i \in A => next[i] \in j .. N /\ next[i] # j
      BY <2>3
    <3>2. i \in A => h[next[i]] = g[next[i]]
      BY <2>5, <3>1
    <3>3. Val(h, i) = Val(g, i)
      BY <3>2
    <3>4. i # j => i \in j + 1 .. N
      BY <2>3
    <3>5. i # j => g[i] = Val(g, i)
      BY <2>4, <3>4
    <3> HIDE DEF Val
    <3> QED BY <2>5, <3>3, <3>5
  <2> HIDE DEF Val
  <2> QED BY <2>1, <2>6, <2>7 DEF j
<1>4. Bad = {}
  <2> HIDE DEF Sol, Val
  <2>1. Bad \in SUBSET Nat
    OBVIOUS
  <2> HIDE DEF Bad
  <2> QED BY <1>3, <2>1, LeastNat
<1> HIDE DEF Sol, Val, Bad
<1> QED BY <1>1, <1>2, <1>4

(***************************************************************************)
(* A fold from the left goes through the values it has after each place.   *)
(***************************************************************************)
Folding(f, done, marks) ==
  f[0] = done /\ \A n \in 1 .. Len(marks) : f[n] = ThenOne(f[n - 1], marks[n])

LEMMA GreatestOf ==
  ASSUME NEW b \in Nat, NEW s \in SUBSET (1 .. b), s # {}
  PROVE  /\ Max(s) \in s /\ \A x \in s : x <= Max(s)
         /\ \A x \in s : (\A y \in s : y <= x) => x = Max(s)
<1>1. \E x \in s : \A y \in s : y <= x
  <2>1. s \in SUBSET Nat /\ \A x \in s : x <= b
    OBVIOUS
  <2> QED BY <2>1, GreatestNat
<1>2. \A x, y \in s : x \in Nat /\ y \in Nat /\ (x >= y <=> y <= x)
  OBVIOUS
<1>3. \E x \in s : \A y \in s : x >= y
  BY <1>1, <1>2
<1>4. Max(s) \in s /\ \A y \in s : Max(s) >= y
  BY <1>3 DEF Max
<1>5. ASSUME NEW x \in s, \A y \in s : y <= x
      PROVE  x = Max(s)
  <2> DEFINE c == Max(s)
  <2>1. c <= x /\ c >= x /\ c \in Nat /\ x \in Nat
    BY <1>2, <1>4, <1>5
  <2> HIDE DEF c
  <2>2. x = c
    BY <2>1
  <2> QED BY <2>2 DEF c
<1> QED BY <1>2, <1>4, <1>5

Iterates(g, done, marks) ==
  g = [s \in SUBSET DOMAIN marks |->
         IF s = {} THEN done ELSE ThenOne(g[s \ {Max(s)}], marks[Max(s)])]

\* There is such a function.
LEMMA FoldExists ==
  ASSUME NEW done, NEW marks, Len(marks) \in Nat, DOMAIN marks = 1 .. Len(marks)
  PROVE  \E g : Iterates(g, done, marks)
<1> DEFINE Val(g, s) == IF s = {} THEN done ELSE ThenOne(g[s \ {Max(s)}], marks[Max(s)])
           Sol(g, n) == g = [s \in SUBSET (1 .. n) |-> g[s]] /\ \A s \in SUBSET (1 .. n) : g[s] = Val(g, s)
           Bad == {n \in Nat : ~\E g : Sol(g, n)}
<1>1. ASSUME NEW n \in Bad, \A k \in Bad : n <= k
      PROVE  FALSE
  <2>1. n \in Nat /\ ~\E g : Sol(g, n)
    OBVIOUS
  <2>2. n # 0
    <3> SUFFICES ASSUME n = 0 PROVE FALSE
      OBVIOUS
    <3> DEFINE e == [s \in SUBSET (1 .. n) |-> done]
    <3>1. \A s \in SUBSET (1 .. n) : s = {}
      OBVIOUS
    <3>2. e = [s \in SUBSET (1 .. n) |-> e[s]]
      OBVIOUS
    <3>3. \A s \in SUBSET (1 .. n) : e[s] = Val(e, s)
      BY <3>1
    <3> HIDE DEF e, Val
    <3> QED BY <2>1, <3>2, <3>3
  <2> DEFINE j == n - 1
  <2>3. j \in Nat /\ j < n /\ n = j + 1
    BY <2>1, <2>2
  <2>4. PICK g : Sol(g, j)
    <3> HIDE DEF Sol
    <3>1. j \notin Bad
      BY <1>1, <2>1, <2>3
    <3> QED BY <2>3, <3>1
  <2> DEFINE h == [s \in SUBSET (1 .. n) |->
                     IF n \in s THEN ThenOne(g[s \ {n}], marks[n]) ELSE g[s]]
  <2>5. \A s \in SUBSET (1 .. n) : h[s] = IF n \in s THEN ThenOne(g[s \ {n}], marks[n]) ELSE g[s]
    OBVIOUS
  <2>6. h = [s \in SUBSET (1 .. n) |-> h[s]]
    OBVIOUS
  <2> HIDE DEF h, j
  <2>7. ASSUME NEW s \in SUBSET (1 .. n)
        PROVE  h[s] = Val(h, s)
    <3> DEFINE x == Max(s)
               r == s \ {x}
    <3>1. s # {} => x \in s /\ \A y \in s : y <= x
      BY <2>1, GreatestOf
    <3>2. CASE n \in s
      <4>1. x = n
        <5>1. \A y \in s : y <= n
          BY <2>1
        <5> QED BY <2>1, <3>2, <5>1, GreatestOf
      <4>2. r \in SUBSET (1 .. j) /\ r \in SUBSET (1 .. n) /\ n \notin r
        BY <2>3, <4>1
      <4>3. h[r] = g[r]
        BY <2>5, <4>2
      <4>4. h[s] = ThenOne(g[r], marks[n])
        BY <2>5, <3>2, <4>1
      <4> HIDE DEF x, r
      <4>5. h[s] = ThenOne(h[r], marks[x])
        BY <4>1, <4>3, <4>4
      <4> QED BY <3>2, <4>5 DEF r, x
    <3>3. CASE n \notin s
      <4>1. s \in SUBSET (1 .. j)
        <5>1. \A y \in s : y \in 1 .. j
          BY <2>3, <3>3
        <5> QED BY <5>1
      <4>2. r \in SUBSET (1 .. n) /\ n \notin r
        BY <3>3
      <4>3. h[r] = g[r] /\ h[s] = g[s]
        BY <2>5, <3>3, <4>2
      <4>4. g[s] = Val(g, s)
        BY <2>4, <4>1
      <4>5. Val(h, s) = Val(g, s)
        BY <4>3
      <4> HIDE DEF Val
      <4> QED BY <4>3, <4>4, <4>5
    <3> QED BY <3>2, <3>3
  <2> HIDE DEF Val
  <2> QED BY <2>1, <2>6, <2>7
<1>2. Bad = {}
  <2> HIDE DEF Sol, Val
  <2>1. Bad \in SUBSET Nat
    OBVIOUS
  <2> HIDE DEF Bad
  <2> QED BY <1>1, <2>1, LeastNat
<1>3. PICK g : Sol(g, Len(marks))
  <2> HIDE DEF Sol
  <2> QED BY <1>2
<1>4. g = [s \in SUBSET DOMAIN marks |-> IF s = {} THEN done ELSE ThenOne(g[s \ {Max(s)}], marks[Max(s)])]
  <2>1. g = [s \in SUBSET DOMAIN marks |-> g[s]]
    BY <1>3
  <2>2. \A s \in SUBSET DOMAIN marks :
          g[s] = IF s = {} THEN done ELSE ThenOne(g[s \ {Max(s)}], marks[Max(s)])
    BY <1>3
  <2> QED BY <2>1, <2>2
<1> QED BY <1>4 DEF Iterates

\* Then is the last value of such a fold.
LEMMA ThenRuns ==
  ASSUME NEW done, NEW marks \in Seq(Mark)
  PROVE  \E f : Folding(f, done, marks) /\ Then(done, marks) = f[Len(marks)]
<1> DEFINE l == Len(marks)
<1>1. l \in Nat /\ DOMAIN marks = 1 .. l
  OBVIOUS
<1>2. \E iter :
        /\ iter = [s \in SUBSET DOMAIN marks |->
                     IF s = {} THEN done ELSE ThenOne(iter[s \ {Max(s)}], marks[Max(s)])]
        /\ Then(done, marks) = iter[DOMAIN marks]
  <2>1. Len(marks) \in Nat /\ DOMAIN marks = 1 .. Len(marks)
    OBVIOUS
  <2>2. PICK iter : Iterates(iter, done, marks)
    BY <2>1, FoldExists
  <2> QED BY <2>2 DEF Iterates, Then, FoldLeft, MapThenFoldSet
<1>3. PICK iter :
        /\ iter = [s \in SUBSET DOMAIN marks |->
                     IF s = {} THEN done ELSE ThenOne(iter[s \ {Max(s)}], marks[Max(s)])]
        /\ Then(done, marks) = iter[DOMAIN marks]
  BY <1>2
<1>4. \A s \in SUBSET (1 .. l) :
        iter[s] = IF s = {} THEN done ELSE ThenOne(iter[s \ {Max(s)}], marks[Max(s)])
  BY <1>1, <1>3
<1>5. Then(done, marks) = iter[1 .. l]
  BY <1>1, <1>3
<1> DEFINE f == [n \in 0 .. l |-> iter[1 .. n]]
<1>6. f[0] = done
  <2>1. f[0] = iter[1 .. 0] /\ 1 .. 0 = {}
    BY <1>1
  <2> QED BY <1>4, <2>1
<1>7. ASSUME NEW n \in 1 .. l
      PROVE  f[n] = ThenOne(f[n - 1], marks[n])
  <2> DEFINE s == 1 .. n
  <2>1. n \in s /\ s \in SUBSET (1 .. l) /\ s # {} /\ s \in SUBSET (1 .. n) /\ n \in Nat
    <3>1. n \in Nat /\ 1 <= n /\ n <= l
      BY <1>1
    <3>2. n \in s
      BY <3>1
    <3>3. s \subseteq 1 .. l
      BY <1>1, <3>1
    <3> QED BY <3>1, <3>2, <3>3
  <2>2. Max(s) = n
    <3>1. \A y \in s : y <= n
      OBVIOUS
    <3> HIDE DEF s
    <3> QED BY <2>1, <3>1, GreatestOf
  <2>3. s \ {n} = 1 .. n - 1
    BY <1>1
  <2>4. f[n] = iter[s] /\ f[n - 1] = iter[1 .. n - 1]
    BY <1>1
  <2> HIDE DEF s, f
  <2>5. iter[s] = ThenOne(iter[s \ {Max(s)}], marks[Max(s)])
    BY <1>4, <2>1
  <2> QED BY <2>2, <2>3, <2>4, <2>5
<1>8. f[l] = iter[1 .. l]
  BY <1>1
<1> HIDE DEF f
<1> QED BY <1>5, <1>6, <1>7, <1>8 DEF Folding, l

LEMMA ThenIs ==
  ASSUME NEW done, NEW marks \in Seq(Mark), NEW f, Folding(f, done, marks)
  PROVE  Then(done, marks) = f[Len(marks)]
<1>1. PICK g : Folding(g, done, marks) /\ Then(done, marks) = g[Len(marks)]
  BY ThenRuns
<1> DEFINE Bad == {n \in 0 .. Len(marks) : f[n] # g[n]}
<1>2. Len(marks) \in Nat
  OBVIOUS
<1>3. ASSUME NEW n \in Bad, \A k \in Bad : n <= k
      PROVE  FALSE
  <2>1. n \in 0 .. Len(marks) /\ f[n] # g[n]
    OBVIOUS
  <2>2. n # 0
    BY <1>1, <2>1 DEF Folding
  <2>3. n \in 1 .. Len(marks) /\ n - 1 \in 0 .. Len(marks) /\ ~(n <= n - 1)
    BY <1>2, <2>1, <2>2
  <2>4. f[n - 1] = g[n - 1]
    BY <1>3, <2>3
  <2> QED BY <1>1, <2>1, <2>3, <2>4 DEF Folding
<1>4. Bad \in SUBSET Nat
  OBVIOUS
<1>5. Bad = {}
  <2> HIDE DEF Bad
  <2> QED BY <1>3, <1>4, LeastNat
<1> QED BY <1>1, <1>2, <1>5

LEMMA ThenFirst ==
  ASSUME NEW done, NEW m \in Mark, NEW marks \in Seq(Mark)
  PROVE  /\ Then(done, <<>>) = done
         /\ Then(done, <<m>> \o marks) = Then(ThenOne(done, m), marks)
<1>1. Then(done, <<>>) = done
  <2>1. <<>> \in Seq(Mark) /\ Len(<<>>) = 0
    OBVIOUS
  <2> DEFINE f == [n \in {0} |-> done]
  <2>2. Folding(f, done, <<>>) /\ f[0] = done
    BY <2>1 DEF Folding
  <2> HIDE DEF f
  <2> QED BY <2>1, <2>2, ThenIs
<1> DEFINE all == <<m>> \o marks
<1>2. /\ all \in Seq(Mark) /\ Len(all) = Len(marks) + 1 /\ Len(marks) \in Nat
      /\ all[1] = m /\ \A n \in 1 .. Len(marks) : all[n + 1] = marks[n]
  <2>1. <<m>> \in Seq(Mark) /\ Len(<<m>>) = 1 /\ <<m>>[1] = m
    OBVIOUS
  <2> QED BY <2>1, ConcatProperties
<1> HIDE DEF all
<1>3. PICK f : Folding(f, done, all) /\ Then(done, all) = f[Len(all)]
  BY <1>2, ThenRuns
<1> DEFINE g == [n \in 0 .. Len(marks) |-> f[n + 1]]
<1>4. Folding(g, ThenOne(done, m), marks)
  <2>1. f[0 + 1] = ThenOne(done, m)
    <3>1. 1 \in 1 .. Len(all)
      BY <1>2
    <3>2. f[1] = ThenOne(f[1 - 1], all[1]) /\ f[0] = done
      BY <1>3, <3>1 DEF Folding
    <3> QED BY <1>2, <3>2
  <2>2. ASSUME NEW n \in 1 .. Len(marks)
        PROVE  g[n] = ThenOne(g[n - 1], marks[n])
    <3>1. n + 1 \in 1 .. Len(all) /\ (n + 1) - 1 = n /\ (n - 1) + 1 = n
          /\ n \in 0 .. Len(marks) /\ n - 1 \in 0 .. Len(marks)
      BY <1>2
    <3>2. f[n + 1] = ThenOne(f[(n + 1) - 1], all[n + 1])
      BY <1>3, <3>1 DEF Folding
    <3>3. g[n] = f[n + 1] /\ g[n - 1] = f[(n - 1) + 1]
      BY <3>1
    <3> HIDE DEF g
    <3> QED BY <1>2, <3>1, <3>2, <3>3
  <2>3. g[0] = f[0 + 1]
    BY <1>2
  <2> HIDE DEF g
  <2> QED BY <2>1, <2>2, <2>3 DEF Folding
<1>5. g[Len(marks)] = f[Len(all)]
  BY <1>2
<1> HIDE DEF g
<1>6. Then(ThenOne(done, m), marks) = g[Len(marks)]
  BY <1>4, ThenIs
<1> QED BY <1>1, <1>3, <1>5, <1>6 DEF all

LEMMA ThenOneIs ==
  ASSUME NEW done \in Seq(Mark), NEW m \in Mark
  PROVE  ThenOne(done, m) \in Seq(Mark)
<1>1. done # <<>> => Front(done) \in Seq(Mark)
  BY DEF Front
<1> QED BY <1>1 DEF ThenOne

LEMMA ThenType ==
  ASSUME NEW done \in Seq(Mark), NEW marks \in Seq(Mark)
  PROVE  Then(done, marks) \in Seq(Mark)
<1>1. PICK f : Folding(f, done, marks) /\ Then(done, marks) = f[Len(marks)]
  BY ThenRuns
<1> DEFINE Bad == {n \in 0 .. Len(marks) : f[n] \notin Seq(Mark)}
<1>2. Len(marks) \in Nat
  OBVIOUS
<1>3. ASSUME NEW n \in Bad, \A k \in Bad : n <= k
      PROVE  FALSE
  <2>1. n \in 0 .. Len(marks) /\ f[n] \notin Seq(Mark)
    OBVIOUS
  <2>2. n # 0
    BY <1>1, <2>1 DEF Folding
  <2>3. n \in 1 .. Len(marks) /\ n - 1 \in 0 .. Len(marks) /\ ~(n <= n - 1)
    BY <1>2, <2>1, <2>2
  <2>4. f[n - 1] \in Seq(Mark)
    BY <1>3, <2>3
  <2>5. marks[n] \in Mark
    BY <2>3, ElementOfSeq
  <2> QED BY <1>1, <2>1, <2>3, <2>4, <2>5, ThenOneIs DEF Folding
<1>4. Bad \in SUBSET Nat
  OBVIOUS
<1>5. Bad = {}
  <2> HIDE DEF Bad
  <2> QED BY <1>3, <1>4, LeastNat
<1> QED BY <1>1, <1>2, <1>5

\* Of two sorts in a row the second counts.
LEMMA LastSort ==
  ASSUME NEW done \in Seq(Mark), NEW b \in SortTypes, NEW c \in SortTypes
  PROVE  ThenOne(ThenOne(done, b), c) = ThenOne(done, c)
<1> DEFINE base == IF done # <<>> /\ Last(done) \in SortTypes THEN Front(done) ELSE done
<1>1. base \in Seq(Mark) /\ b \in Mark /\ c \in Mark
  BY DEF Front, Mark
<1>2. ThenOne(done, b) = Append(base, b) /\ ThenOne(done, c) = Append(base, c)
  BY DEF ThenOne
<1> HIDE DEF base
<1>3. /\ Append(base, b) # <<>> /\ Last(Append(base, b)) = b
      /\ Front(Append(base, b)) = base
  <2> DEFINE s == Append(base, b)
  <2>1. /\ s \in Seq(Mark) /\ Len(s) = Len(base) + 1 /\ Len(base) \in Nat
        /\ s[Len(base) + 1] = b /\ \A i \in 1 .. Len(base) : s[i] = base[i]
    BY <1>1, AppendProperties
  <2> HIDE DEF s
  <2>2. s # <<>> /\ Last(s) = b
    BY <2>1 DEF Last
  <2> DEFINE t == SubSeq(s, 1, Len(s) - 1)
  <2>3. t \in Seq(Mark) /\ Len(t) = Len(base) /\ \A i \in 1 .. Len(base) : t[i] = base[i]
    BY <2>1
  <2> HIDE DEF t
  <2>4. t = base
    BY <1>1, <2>3, SeqEqual
  <2> QED BY <2>2, <2>4 DEF Front, s, t
<1> DEFINE s == ThenOne(done, b)
<1>4. s # <<>> /\ Last(s) = b /\ Front(s) = base
  BY <1>2, <1>3
<1> HIDE DEF s
<1>5. ThenOne(s, c) = Append(Front(s), c)
  BY <1>4 DEF ThenOne
<1> QED BY <1>2, <1>4, <1>5 DEF s

LEMMA SortsMerge ==
  ASSUME NEW done \in Seq(Mark), NEW b \in SortTypes, NEW c \in SortTypes, NEW marks \in Seq(Mark)
  PROVE  Then(done, <<b>> \o (<<c>> \o marks)) = Then(done, <<c>> \o marks)
<1>1. b \in Mark /\ c \in Mark /\ ThenOne(done, b) \in Seq(Mark) /\ <<c>> \o marks \in Seq(Mark)
  <2>1. b \in Mark /\ c \in Mark
    BY DEF Mark
  <2>2. ThenOne(done, b) \in Seq(Mark)
    BY <2>1, ThenOneIs
  <2> QED BY <2>1, <2>2
<1>2. Then(done, <<b>> \o (<<c>> \o marks)) = Then(ThenOne(done, b), <<c>> \o marks)
  <2> DEFINE s == <<c>> \o marks
  <2>1. s \in Seq(Mark)
    BY <1>1
  <2> HIDE DEF s
  <2>2. Then(done, <<b>> \o s) = Then(ThenOne(done, b), s)
    BY <1>1, <2>1, ThenFirst
  <2> QED BY <2>2 DEF s
<1> DEFINE d == ThenOne(done, b)
<1>3. Then(d, <<c>> \o marks) = Then(ThenOne(d, c), marks)
  <2> HIDE DEF d
  <2> QED BY <1>1, ThenFirst
<1>4. Then(done, <<c>> \o marks) = Then(ThenOne(done, c), marks)
  BY <1>1, ThenFirst
<1> QED BY <1>2, <1>3, <1>4, LastSort

(***************************************************************************)
(* Lists put together, from the front and from the back.                   *)
(***************************************************************************)
Joining(f, ss) ==
  f[1] = ss[1] /\ \A n \in 2 .. Len(ss) : f[n] = f[n - 1] \o ss[n]

Flattens(g, ss) ==
  g = [i \in 1 .. Len(ss) |-> IF i = 1 THEN ss[i] ELSE g[i - 1] \o ss[i]]

\* FlattenSeq is the last value of a function that there is.
LEMMA FlattenExists ==
  ASSUME NEW ss, Len(ss) \in Nat
  PROVE  \E g : Flattens(g, ss)
<1> DEFINE Val(g, i) == IF i = 1 THEN ss[i] ELSE g[i - 1] \o ss[i]
           Sol(g, n) == g = [i \in 1 .. n |-> g[i]] /\ \A i \in 1 .. n : g[i] = Val(g, i)
           Bad == {n \in Nat : ~\E g : Sol(g, n)}
<1>1. ASSUME NEW n \in Bad, \A k \in Bad : n <= k
      PROVE  FALSE
  <2>1. n \in Nat /\ ~\E g : Sol(g, n)
    OBVIOUS
  <2>2. n # 0
    <3> SUFFICES ASSUME n = 0 PROVE FALSE
      OBVIOUS
    <3> DEFINE e == [i \in 1 .. n |-> <<>>]
    <3>1. e = [i \in 1 .. n |-> e[i]] /\ \A i \in 1 .. n : e[i] = Val(e, i)
      OBVIOUS
    <3> HIDE DEF e, Val
    <3> QED BY <2>1, <3>1
  <2> DEFINE j == n - 1
  <2>3. j \in Nat /\ j < n /\ n = j + 1
    BY <2>1, <2>2
  <2>4. PICK g : Sol(g, j)
    <3> HIDE DEF Sol
    <3>1. j \notin Bad
      BY <1>1, <2>1, <2>3
    <3> QED BY <2>3, <3>1
  <2> DEFINE h == [i \in 1 .. n |-> IF i = n THEN Val(g, n) ELSE g[i]]
  <2>5. \A i \in 1 .. n : h[i] = IF i = n THEN Val(g, n) ELSE g[i]
    OBVIOUS
  <2>6. h = [i \in 1 .. n |-> h[i]]
    OBVIOUS
  <2> HIDE DEF h, j
  <2>7. ASSUME NEW i \in 1 .. n
        PROVE  h[i] = Val(h, i)
    <3>1. i # 1 => i - 1 \in 1 .. n /\ i - 1 # n
      BY <2>1
    <3>2. i # 1 => h[i - 1] = g[i - 1]
      BY <2>5, <3>1
    <3>3. Val(h, i) = Val(g, i)
      BY <3>2
    <3>4. i # n => i \in 1 .. j
      BY <2>3
    <3>5. i # n => g[i] = Val(g, i)
      BY <2>4, <3>4
    <3> HIDE DEF Val
    <3> QED BY <2>5, <3>3, <3>5
  <2> HIDE DEF Val
  <2> QED BY <2>1, <2>6, <2>7
<1>2. Bad = {}
  <2> HIDE DEF Sol, Val
  <2>1. Bad \in SUBSET Nat
    OBVIOUS
  <2> HIDE DEF Bad
  <2> QED BY <1>1, <2>1, LeastNat
<1>3. PICK g : Sol(g, Len(ss))
  <2> HIDE DEF Sol
  <2> QED BY <1>2
<1>4. g = [i \in 1 .. Len(ss) |-> g[i]]
  BY <1>3
<1>5. \A i \in 1 .. Len(ss) : g[i] = IF i = 1 THEN ss[i] ELSE g[i - 1] \o ss[i]
  BY <1>3
<1>6. g = [i \in 1 .. Len(ss) |-> IF i = 1 THEN ss[i] ELSE g[i - 1] \o ss[i]]
  BY <1>4, <1>5
<1> QED BY <1>6 DEF Flattens

LEMMA FlattenRuns ==
  ASSUME NEW ss \in Seq(Seq(Mark))
  PROVE  /\ ss = <<>> => FlattenSeq(ss) = <<>>
         /\ ss # <<>> => \E f : Joining(f, ss) /\ FlattenSeq(ss) = f[Len(ss)]
<1>1. Len(ss) \in Nat /\ (ss = <<>> <=> Len(ss) = 0)
  BY EmptySeq
<1>2. PICK g : /\ Flattens(g, ss)
               /\ FlattenSeq(ss) = IF Len(ss) = 0 THEN ss ELSE g[Len(ss)]
  <2>1. \E g : Flattens(g, ss)
    BY <1>1, FlattenExists
  <2> QED BY <2>1 DEF Flattens, FlattenSeq
<1>3. ASSUME ss # <<>>
      PROVE  Joining(g, ss)
  <2>1. \A i \in 1 .. Len(ss) : g[i] = IF i = 1 THEN ss[i] ELSE g[i - 1] \o ss[i]
    BY <1>2 DEF Flattens
  <2>2. 1 \in 1 .. Len(ss)
    BY <1>1, <1>3
  <2>3. \A n \in 2 .. Len(ss) : n \in 1 .. Len(ss) /\ n # 1
    BY <1>1
  <2> QED BY <2>1, <2>2, <2>3 DEF Joining
<1> QED BY <1>1, <1>2, <1>3

LEMMA JoiningType ==
  ASSUME NEW ss \in Seq(Seq(Mark)), ss # <<>>, NEW f, Joining(f, ss)
  PROVE  \A n \in 1 .. Len(ss) : f[n] \in Seq(Mark)
<1> DEFINE Bad == {n \in 1 .. Len(ss) : f[n] \notin Seq(Mark)}
<1>1. Len(ss) \in Nat /\ \A n \in 1 .. Len(ss) : ss[n] \in Seq(Mark)
  BY ElementOfSeq
<1>2. ASSUME NEW n \in Bad, \A k \in Bad : n <= k
      PROVE  FALSE
  <2>1. n \in 1 .. Len(ss) /\ f[n] \notin Seq(Mark)
    OBVIOUS
  <2>2. n # 1
    BY <1>1, <2>1 DEF Joining
  <2>3. n \in 2 .. Len(ss) /\ n - 1 \in 1 .. Len(ss) /\ ~(n <= n - 1)
    BY <1>1, <2>1, <2>2
  <2>4. f[n - 1] \in Seq(Mark)
    BY <1>2, <2>3
  <2>5. f[n] = f[n - 1] \o ss[n]
    BY <2>3 DEF Joining
  <2> QED BY <1>1, <2>1, <2>4, <2>5, ConcatProperties
<1>3. Bad \in SUBSET Nat
  BY <1>1
<1>4. Bad = {}
  <2> HIDE DEF Bad
  <2> QED BY <1>2, <1>3, LeastNat
<1> QED BY <1>4

\* Lists of marks put together are a list of marks.
LEMMA FlattenType ==
  ASSUME NEW ss \in Seq(Seq(Mark))
  PROVE  FlattenSeq(ss) \in Seq(Mark)
<1>1. CASE ss = <<>>
  <2>1. <<>> \in Seq(Mark)
    OBVIOUS
  <2> QED BY <1>1, <2>1, FlattenRuns
<1>2. CASE ss # <<>>
  <2>1. PICK f : Joining(f, ss) /\ FlattenSeq(ss) = f[Len(ss)]
    BY <1>2, FlattenRuns
  <2>2. Len(ss) \in 1 .. Len(ss)
    BY <1>2, EmptySeq
  <2> QED BY <1>2, <2>1, <2>2, JoiningType
<1> QED BY <1>1, <1>2

LEMMA FlattenIs ==
  ASSUME NEW ss \in Seq(Seq(Mark)), ss # <<>>, NEW f, Joining(f, ss)
  PROVE  FlattenSeq(ss) = f[Len(ss)]
<1>1. PICK g : Joining(g, ss) /\ FlattenSeq(ss) = g[Len(ss)]
  BY FlattenRuns
<1> DEFINE Bad == {n \in 1 .. Len(ss) : f[n] # g[n]}
<1>2. Len(ss) \in Nat \ {0}
  BY EmptySeq
<1>3. ASSUME NEW n \in Bad, \A k \in Bad : n <= k
      PROVE  FALSE
  <2>1. n \in 1 .. Len(ss) /\ f[n] # g[n]
    OBVIOUS
  <2>2. n # 1
    BY <1>1, <2>1 DEF Joining
  <2>3. n \in 2 .. Len(ss) /\ n - 1 \in 1 .. Len(ss) /\ ~(n <= n - 1)
    BY <1>2, <2>1, <2>2
  <2>4. f[n - 1] = g[n - 1]
    BY <1>3, <2>3
  <2> QED BY <1>1, <2>1, <2>3, <2>4 DEF Joining
<1>4. Bad \in SUBSET Nat
  BY <1>2
<1>5. Bad = {}
  <2> HIDE DEF Bad
  <2> QED BY <1>3, <1>4, LeastNat
<1> QED BY <1>1, <1>2, <1>5

LEMMA Regroup ==
  ASSUME NEW a \in Seq(Mark), NEW b \in Seq(Mark), NEW c \in Seq(Mark)
  PROVE  (a \o b) \o c = a \o (b \o c)
BY ConcatAssociative

\* The first list may be put in front of the others at last.
LEMMA FlattenFirst ==
  ASSUME NEW ss \in Seq(Seq(Mark)), ss # <<>>,
         NEW rest, rest = [i \in 1 .. Len(ss) - 1 |-> ss[i + 1]]
  PROVE  rest \in Seq(Seq(Mark)) /\ FlattenSeq(ss) = ss[1] \o FlattenSeq(rest)
<1> DEFINE l == Len(ss)
<1>1. l \in Nat \ {0} /\ \A n \in 1 .. l : ss[n] \in Seq(Mark)
  BY EmptySeq, ElementOfSeq
<1>2. /\ rest \in Seq(Seq(Mark)) /\ Len(rest) = l - 1
      /\ \A i \in 1 .. l - 1 : rest[i] = ss[i + 1]
  <2>1. l - 1 \in Nat /\ \A i \in 1 .. l - 1 : i + 1 \in 1 .. l
    BY <1>1
  <2>2. rest \in [1 .. l - 1 -> Seq(Mark)]
    BY <1>1, <2>1
  <2>3. rest \in Seq(Seq(Mark)) /\ Len(rest) = l - 1
    BY <2>1, <2>2
  <2> QED BY <2>3
<1>3. PICK f : Joining(f, ss) /\ FlattenSeq(ss) = f[l]
  BY FlattenRuns
<1> HIDE DEF l
<1>4. CASE l = 1
  <2>1. rest = <<>>
    BY <1>2, <1>4, EmptySeq
  <2>2. FlattenSeq(rest) = <<>>
    BY <1>2, <2>1, FlattenRuns
  <2>3. f[l] = ss[1] /\ ss[1] \in Seq(Mark)
    BY <1>1, <1>3, <1>4 DEF Joining
  <2> QED BY <1>2, <1>3, <2>2, <2>3, ConcatEmptySeq
<1>5. CASE l # 1
  <2>1. rest # <<>> /\ 1 \in 1 .. l - 1
    <3>1. l - 1 # 0 /\ 1 \in 1 .. l - 1
      BY <1>1, <1>5
    <3>2. Len(<<>>) = 0
      OBVIOUS
    <3> QED BY <1>2, <3>1, <3>2
  <2>2. PICK g : Joining(g, rest) /\ FlattenSeq(rest) = g[l - 1]
    BY <1>2, <2>1, FlattenRuns
  <2>3. \A n \in 1 .. l - 1 : g[n] \in Seq(Mark) /\ rest[n] \in Seq(Mark)
    BY <1>2, <2>1, <2>2, JoiningType, ElementOfSeq
  <2> DEFINE Bad == {n \in 1 .. l - 1 : f[n + 1] # ss[1] \o g[n]}
  <2>4. ASSUME NEW n \in Bad, \A k \in Bad : n <= k
        PROVE  FALSE
    <3>1. n \in 1 .. l - 1 /\ f[n + 1] # ss[1] \o g[n]
      OBVIOUS
    <3>2. /\ n + 1 \in 2 .. Len(ss) /\ (n + 1) - 1 = n
          /\ rest[n] = ss[n + 1] /\ 1 \in 1 .. l
      BY <1>1, <1>2, <3>1 DEF l
    <3>3. f[n + 1] = f[n] \o rest[n]
      BY <1>3, <3>2 DEF Joining
    <3>4. n # 1
      <4>1. n = 1 => f[n] = ss[1] /\ g[n] = rest[n]
        BY <1>3, <2>2 DEF Joining
      <4> QED BY <3>1, <3>3, <4>1
    <3>5. n \in 2 .. Len(rest) /\ n - 1 \in 1 .. l - 1 /\ ~(n <= n - 1) /\ (n - 1) + 1 = n
      BY <1>1, <1>2, <3>1, <3>4
    <3>6. f[n] = ss[1] \o g[n - 1]
      BY <2>4, <3>5
    <3>7. g[n] = g[n - 1] \o rest[n]
      BY <2>2, <3>5 DEF Joining
    <3>8. ss[1] \in Seq(Mark) /\ g[n - 1] \in Seq(Mark) /\ rest[n] \in Seq(Mark)
      BY <1>1, <2>3, <3>1, <3>2, <3>5
    <3>9. (ss[1] \o g[n - 1]) \o rest[n] = ss[1] \o (g[n - 1] \o rest[n])
      <4>1. PICK a \in Seq(Mark), b \in Seq(Mark), c \in Seq(Mark) :
              a = ss[1] /\ b = g[n - 1] /\ c = rest[n]
        BY <3>8
      <4>2. (a \o b) \o c = a \o (b \o c)
        BY Regroup
      <4> QED BY <4>1, <4>2
    <3> QED BY <3>1, <3>3, <3>6, <3>7, <3>9
  <2>5. Bad \in SUBSET Nat
    <3>1. \A n \in 1 .. l - 1 : n \in Nat
      BY <1>1
    <3> QED BY <3>1
  <2>6. Bad = {}
    <3> HIDE DEF Bad
    <3> QED BY <2>4, <2>5, LeastNat
  <2>7. l - 1 \in 1 .. l - 1 /\ (l - 1) + 1 = l
    BY <1>1, <1>5
  <2>8. f[l] = ss[1] \o g[l - 1]
    BY <2>6, <2>7
  <2> QED BY <1>2, <1>3, <2>2, <2>8
<1> QED BY <1>4, <1>5

\* A last list without elements adds nothing.
LEMMA FlattenLast ==
  ASSUME NEW ss \in Seq(Seq(Mark)), NEW all \in Seq(Seq(Mark)), Len(all) = Len(ss) + 1,
         \A i \in 1 .. Len(ss) : all[i] = ss[i], all[Len(ss) + 1] = <<>>
  PROVE  FlattenSeq(all) = FlattenSeq(ss)
<1>1. Len(ss) \in Nat /\ all # <<>> /\ (ss = <<>> <=> Len(ss) = 0)
  BY EmptySeq
<1>2. PICK f : Joining(f, all) /\ FlattenSeq(all) = f[Len(ss) + 1]
  BY <1>1, FlattenRuns
<1>3. CASE ss = <<>>
  <2>1. f[1] = <<>> /\ Len(ss) + 1 = 1
    BY <1>1, <1>2, <1>3 DEF Joining
  <2> QED BY <1>2, <1>3, <2>1, FlattenRuns
<1>4. CASE ss # <<>>
  <2>1. /\ Len(ss) + 1 \in 2 .. Len(all) /\ (Len(ss) + 1) - 1 = Len(ss)
        /\ Len(ss) \in 1 .. Len(all) /\ 1 \in 1 .. Len(ss)
        /\ \A n \in 2 .. Len(ss) : n \in 2 .. Len(all) /\ n \in 1 .. Len(ss)
    BY <1>1, <1>4
  <2>2. f[Len(ss) + 1] = f[Len(ss)] \o <<>>
    BY <1>2, <2>1 DEF Joining
  <2>3. f[Len(ss)] \in Seq(Mark)
    BY <1>1, <1>2, <2>1, JoiningType
  <2>4. Joining(f, ss)
    BY <1>2, <2>1 DEF Joining
  <2>5. FlattenSeq(ss) = f[Len(ss)]
    BY <1>4, <2>4, FlattenIs
  <2> QED BY <1>2, <2>2, <2>3, <2>5, ConcatEmptySeq
<1> QED BY <1>3, <1>4

-----------------------------------------------------------------------------
(***************************************************************************)
(* Marks on parts.                                                         *)
(***************************************************************************)
LEMMA OrderIs ==
  ASSUME NEW o \in Order
  PROVE  o \in Seq(Mark) /\ (o = <<>> \/ \E b \in SortTypes : b \in Mark /\ o = <<b>>)
<1>1. CASE o = <<>>
  BY <1>1
<1>2. CASE o # <<>>
  <2>1. PICK b \in SortTypes : o = <<b>>
    BY <1>2 DEF Order
  <2>2. b \in Mark
    BY DEF Mark
  <2>3. <<b>> \in Seq(Mark)
    BY <2>2
  <2> QED BY <2>1, <2>2, <2>3
<1> QED BY <1>1, <1>2

LEMMA ThenNone ==
  ASSUME NEW done
  PROVE  Then(done, <<>>) = done
<1>1. \E m \in Mark : m = "trace"
  BY DEF Mark
<1>2. PICK m \in Mark : m = "trace"
  BY <1>1
<1>3. <<>> \in Seq(Mark)
  OBVIOUS
<1> QED BY <1>3, ThenFirst

\* Marks left one after the other are as good as all at once.
LEMMA ThenThen ==
  ASSUME NEW done \in Seq(Mark), NEW o \in Order, NEW marks \in Seq(Mark)
  PROVE  Then(Then(done, o), marks) = Then(done, o \o marks)
<1>1. CASE o = <<>>
  <2>1. <<>> \o marks = marks
    BY ConcatEmptySeq
  <2> QED BY <1>1, <2>1, ThenNone
<1>2. CASE o # <<>>
  <2>1. PICK b \in Mark : o = <<b>>
    BY <1>2, OrderIs
  <2>2. ThenOne(done, b) \in Seq(Mark)
    BY ThenOneIs
  <2>3. Then(done, <<b>>) = Then(ThenOne(done, b), <<>>)
    <3>1. <<b>> \in Seq(Mark) /\ <<>> \in Seq(Mark)
      OBVIOUS
    <3>2. <<b>> \o <<>> = <<b>>
      BY <3>1, ConcatEmptySeq
    <3>3. Then(done, <<b>> \o <<>>) = Then(ThenOne(done, b), <<>>)
      BY <3>1, ThenFirst
    <3> QED BY <3>2, <3>3
  <2>4. Then(done, o) = ThenOne(done, b)
    BY <2>1, <2>3, ThenNone
  <2>5. Then(done, <<b>> \o marks) = Then(ThenOne(done, b), marks)
    BY ThenFirst
  <2> QED BY <2>1, <2>4, <2>5
<1> QED BY <1>1, <1>2

Marked(p, marks) == [of |-> p.of, done |-> Then(p.done, marks)]

LEMMA MarkedIs ==
  ASSUME NEW p \in Part, NEW marks \in Seq(Mark)
  PROVE  /\ [p EXCEPT !.done = Then(@, marks)] = Marked(p, marks)
         /\ Marked(p, marks) \in Part
         /\ Marked(p, marks).of = p.of /\ Marked(p, marks).done = Then(p.done, marks)
<1>1. p.of \in DOMAIN Key /\ p.done \in Seq(Mark) /\ p = [of |-> p.of, done |-> p.done]
  BY DEF Part
<1>2. Then(p.done, marks) \in Seq(Mark)
  BY <1>1, ThenType
<1> QED BY <1>1, <1>2 DEF Marked, Part

LEMMA AfterIs ==
  ASSUME NEW parts \in SUBSET Part, NEW marks \in Seq(Mark)
  PROVE  /\ \A x : x \in After(parts, marks) <=> \E p \in parts : x = Marked(p, marks)
         /\ After(parts, marks) \in SUBSET Part
<1>1. \A p \in parts : /\ [p EXCEPT !.done = Then(@, marks)] = Marked(p, marks)
                       /\ Marked(p, marks) \in Part
  BY MarkedIs
<1>2. \A x : x \in After(parts, marks) <=> \E p \in parts : x = [p EXCEPT !.done = Then(@, marks)]
  BY DEF After
<1> QED BY <1>1, <1>2

LEMMA AfterSame ==
  ASSUME NEW parts \in SUBSET Part, NEW a \in Seq(Mark), NEW b \in Seq(Mark),
         \A done \in Seq(Mark) : Then(done, a) = Then(done, b)
  PROVE  After(parts, a) = After(parts, b)
<1>1. \A p \in parts : p.done \in Seq(Mark)
  BY DEF Part
<1>2. \A p \in parts : Marked(p, a) = Marked(p, b)
  BY <1>1 DEF Marked
<1>3. \A x : x \in After(parts, a) <=> \E p \in parts : x = Marked(p, a)
  BY AfterIs
<1>4. \A x : x \in After(parts, b) <=> \E p \in parts : x = Marked(p, b)
  BY AfterIs
<1>5. \A x : x \in After(parts, a) <=> x \in After(parts, b)
  BY <1>2, <1>3, <1>4
<1> QED BY <1>5

LEMMA AfterNone ==
  ASSUME NEW parts \in SUBSET Part
  PROVE  After(parts, <<>>) = parts
<1>1. PICK none \in Seq(Mark) : none = <<>>
  <2>1. <<>> \in Seq(Mark)
    OBVIOUS
  <2> QED BY <2>1
<1>2. \A x : x \in After(parts, none) <=> \E p \in parts : x = Marked(p, none)
  BY AfterIs
<1>3. \A p \in parts : Marked(p, none) = p
  <2>1. \A p \in parts : Then(p.done, none) = p.done
    BY <1>1, ThenNone
  <2>2. \A p \in parts : [of |-> p.of, done |-> p.done] = p
    BY DEF Part
  <2> QED BY <2>1, <2>2 DEF Marked
<1>4. \A x : x \in After(parts, none) <=> x \in parts
  BY <1>2, <1>3
<1>5. After(parts, none) = parts
  BY <1>4
<1> QED BY <1>1, <1>5

\* So they are on all parts of a file.
LEMMA AfterAfter ==
  ASSUME NEW parts \in SUBSET Part, NEW o \in Order, NEW marks \in Seq(Mark)
  PROVE  After(After(parts, o), marks) = After(parts, o \o marks)
<1>1. o \in Seq(Mark)
  BY OrderIs
<1>2. PICK all \in Seq(Mark) : all = o \o marks
  BY <1>1, ConcatProperties
<1>3. PICK mid \in SUBSET Part : mid = After(parts, o)
  BY <1>1, AfterIs
<1>4. \A x : x \in mid <=> \E p \in parts : x = Marked(p, o)
  BY <1>1, <1>3, AfterIs
<1>5. \A x : x \in After(mid, marks) <=> \E q \in mid : x = Marked(q, marks)
  BY AfterIs
<1>6. \A x : x \in After(parts, all) <=> \E p \in parts : x = Marked(p, all)
  BY AfterIs
<1>7. \A p \in parts : Marked(Marked(p, o), marks) = Marked(p, all)
  <2>1. ASSUME NEW p \in parts
        PROVE  Marked(Marked(p, o), marks) = Marked(p, all)
    <3>1. p \in Part /\ p.done \in Seq(Mark)
      BY DEF Part
    <3>2. Then(Then(p.done, o), marks) = Then(p.done, all)
      BY <1>2, <3>1, ThenThen
    <3>3. Marked(p, o).of = p.of /\ Marked(p, o).done = Then(p.done, o)
      BY <1>1, <3>1, MarkedIs
    <3> QED BY <3>2, <3>3 DEF Marked
  <2> QED BY <2>1
<1>8. \A x : x \in After(mid, marks) <=> x \in After(parts, all)
  <2>1. \A x : x \in After(mid, marks) <=> \E p \in parts : x = Marked(Marked(p, o), marks)
    BY <1>4, <1>5
  <2> QED BY <1>6, <1>7, <2>1
<1>9. After(mid, marks) = After(parts, all)
  BY <1>8
<1> QED BY <1>2, <1>3, <1>9

-----------------------------------------------------------------------------
(***************************************************************************)
(* What is left of the list of operations.                                 *)
(***************************************************************************)
\* What an operation does, by its kind.
LEMMA OpsDo ==
  ASSUME NEW op \in Ops
  PROVE  /\ op.does \in Seq(Mark) /\ op.kind \in {"single", "sort", "gather"}
         /\ op.kind = "sort" => \E b \in SortTypes : op.does = <<b>>
         /\ op.kind = "gather" => op.key \in GatherKeys
<1>1. /\ <<>> \in Seq(Mark) /\ <<"trace">> \in Seq(Mark) /\ <<"gather">> \in Seq(Mark)
      /\ \A b \in SortTypes : <<b>> \in Seq(Mark)
  BY DEF Mark
<1>2. CASE op \in {NoOp, TraceOp}
  <2>1. op.does \in {<<>>, <<"trace">>} /\ op.kind = "single"
    BY <1>2 DEF NoOp, TraceOp
  <2>2. op.does \in Seq(Mark)
    BY <1>1, <2>1
  <2> QED BY <2>1, <2>2
<1>3. ASSUME NEW b \in SortTypes, op = SortOp(b)
      PROVE  op.does \in Seq(Mark) /\ op.kind = "sort" /\ op.does = <<b>>
  BY <1>1, <1>3 DEF SortOp
<1>4. ASSUME NEW k \in GatherKeys, op = GatherOp(k)
      PROVE  op.does \in Seq(Mark) /\ op.kind = "gather" /\ op.key = k
  BY <1>1, <1>4 DEF GatherOp
<1>5. CASE \E b \in SortTypes : op = SortOp(b)
  BY <1>3, <1>5
<1>6. CASE \E k \in GatherKeys : op = GatherOp(k)
  BY <1>4, <1>6
<1> QED BY <1>2, <1>5, <1>6 DEF Ops

\* Singles is a recursion from the back of the list.
LEMMA SinglesIs ==
  ASSUME func \in Seq(Ops)
  PROVE  \A i \in 1 .. Len(func) + 1 :
           Singles[i] = IF IsKind(i, "single") THEN func[i].does \o Singles[i + 1] ELSE <<>>
<1> DEFINE l == Len(func)
           A == {i \in 1 .. l + 1 : IsKind(i, "single")}
           m == [i \in 1 .. l + 1 |-> func[i].does]
           base == [i \in 1 .. l + 1 |-> <<>>]
           next == [i \in A |-> i + 1]
           Run(g) == g = [i \in 1 .. l + 1 |-> IF IsKind(i, "single") THEN func[i].does \o g[i + 1] ELSE <<>>]
<1>1. l \in Nat /\ l + 1 \in Nat /\ \A i \in A : i \in 1 .. l
  BY DEF IsKind
<1>2. A \in SUBSET (1 .. l + 1) /\ next \in [A -> 1 .. l + 1] /\ \A i \in A : i < next[i] /\ next[i] = i + 1
  BY <1>1
<1>3. PICK g : Recurs(g, l + 1, A, m, next, base)
  <2> HIDE DEF A, m, base, next
  <2>1. PICK N \in Nat : N = l + 1
    BY <1>1
  <2>2. PICK a \in SUBSET (1 .. N) : a = A
    BY <1>2, <2>1
  <2>3. PICK t \in [a -> 1 .. N] : t = next
    BY <1>2, <2>1, <2>2
  <2>4. \A i \in a : i < t[i]
    BY <1>2, <2>2, <2>3
  <2>5. \E g : Recurs(g, N, a, m, t, base)
    BY <2>4, Backward
  <2> QED BY <2>1, <2>2, <2>3, <2>5
<1>4. \A i \in 1 .. l + 1 : g[i] = IF IsKind(i, "single") THEN func[i].does \o g[i + 1] ELSE <<>>
  BY <1>2, <1>3 DEF Recurs
<1>5. Run(g)
  <2>1. g = [i \in 1 .. l + 1 |-> g[i]]
    BY <1>3 DEF Recurs
  <2> QED BY <1>4, <2>1
<1>6. Run(Singles)
  <2>1. Singles = CHOOSE h : Run(h)
    BY DEF Singles
  <2> HIDE DEF Run
  <2> QED BY <1>5, <2>1
<1> QED BY <1>6

\* So is InGather.
LEMMA InGatherIs ==
  ASSUME func \in Seq(Ops)
  PROVE  \A i \in 1 .. Len(func) + 2 : IsKind(i, "gather") /\ IsKind(i + 1, "single")
           => InGather[i] = func[i].does \o Singles[i + 1]
<1> DEFINE l == Len(func)
           A == {i \in 1 .. l + 2 : IsKind(i, "gather") /\ ~IsKind(i + 1, "single")}
           m == [i \in 1 .. l + 2 |-> func[i].does]
           base == [i \in 1 .. l + 2 |-> IF IsKind(i, "gather") THEN func[i].does \o Singles[i + 1] ELSE <<>>]
           next == [i \in A |-> i + 2]
           Run(g) == g = [i \in 1 .. l + 2 |->
                            CASE ~IsKind(i, "gather") -> <<>>
                              [] IsKind(i, "gather") /\ IsKind(i + 1, "single")
                                   -> func[i].does \o Singles[i + 1]
                              [] OTHER -> func[i].does \o g[i + 2]]
<1>1. l \in Nat /\ l + 2 \in Nat /\ \A i \in A : i \in 1 .. l
  BY DEF IsKind
<1>2. A \in SUBSET (1 .. l + 2) /\ next \in [A -> 1 .. l + 2] /\ \A i \in A : i < next[i] /\ next[i] = i + 2
  BY <1>1
<1>3. PICK g : Recurs(g, l + 2, A, m, next, base)
  <2> HIDE DEF A, m, base, next
  <2>1. PICK N \in Nat : N = l + 2
    BY <1>1
  <2>2. PICK a \in SUBSET (1 .. N) : a = A
    BY <1>2, <2>1
  <2>3. PICK t \in [a -> 1 .. N] : t = next
    BY <1>2, <2>1, <2>2
  <2>4. \A i \in a : i < t[i]
    BY <1>2, <2>2, <2>3
  <2>5. \E g : Recurs(g, N, a, m, t, base)
    BY <2>4, Backward
  <2> QED BY <2>1, <2>2, <2>3, <2>5
<1>4. \A i \in 1 .. l + 2 :
        g[i] = CASE ~IsKind(i, "gather") -> <<>>
                 [] IsKind(i, "gather") /\ IsKind(i + 1, "single") -> func[i].does \o Singles[i + 1]
                 [] OTHER -> func[i].does \o g[i + 2]
  BY <1>2, <1>3 DEF Recurs
<1>5. Run(g)
  <2>1. g = [i \in 1 .. l + 2 |-> g[i]]
    BY <1>3 DEF Recurs
  <2> QED BY <1>4, <2>1
<1>6. Run(InGather)
  <2>1. InGather = CHOOSE h : Run(h)
    BY DEF InGather
  <2> HIDE DEF Run
  <2> QED BY <1>5, <2>1
<1> QED BY <1>6

\* What is left begins with what the next operation does.
LEMMA LeftIs ==
  ASSUME func \in Seq(Ops)
  PROVE  /\ Left(Len(func) + 1) = <<>>
         /\ \A j \in 1 .. Len(func) + 1 : Left(j) \in Seq(Mark)
         /\ \A j \in 1 .. Len(func) : Left(j) = func[j].does \o Left(j + 1)
<1> DEFINE l == Len(func)
           Tail1(j) == [i \in 1 .. l - j + 1 |-> func[j + i - 1].does]
<1>1. l \in Nat /\ \A i \in 1 .. l : func[i] \in Ops /\ func[i].does \in Seq(Mark)
  BY OpsDo, ElementOfSeq
<1>2. ASSUME NEW j \in 1 .. l + 1
      PROVE  Tail1(j) \in Seq(Seq(Mark)) /\ Len(Tail1(j)) = l - j + 1
  <2>1. l - j + 1 \in Nat /\ \A i \in 1 .. l - j + 1 : j + i - 1 \in 1 .. l
    BY <1>1
  <2>2. Tail1(j) \in [1 .. l - j + 1 -> Seq(Mark)]
    BY <1>1, <2>1
  <2>3. PICK N \in Nat : N = l - j + 1
    BY <2>1
  <2>4. PICK t \in [1 .. N -> Seq(Mark)] : t = Tail1(j)
    BY <2>2, <2>3
  <2>5. t \in Seq(Seq(Mark)) /\ Len(t) = N
    OBVIOUS
  <2> QED BY <2>3, <2>4, <2>5
<1>3. \A j : Left(j) = FlattenSeq(Tail1(j))
  BY DEF Left
<1>4. ASSUME NEW j \in 1 .. l
      PROVE  Left(j) = func[j].does \o Left(j + 1)
  <2> HIDE DEF Tail1
  <2>1. PICK ss \in Seq(Seq(Mark)) : ss = Tail1(j)
    <3>1. j \in 1 .. l + 1
      BY <1>1
    <3> QED BY <1>2, <3>1
  <2> USE DEF Tail1
  <2>2. Len(ss) = l - j + 1 /\ \A i \in 1 .. l - j + 1 : ss[i] = func[j + i - 1].does
    BY <1>1, <1>2, <2>1
  <2>3. ss # <<>> /\ ss[1] = func[j].does
    <3>1. 1 \in 1 .. l - j + 1 /\ j + 1 - 1 = j /\ l - j + 1 # 0
      BY <1>1
    <3>2. Len(<<>>) = 0
      OBVIOUS
    <3> QED BY <2>2, <3>1, <3>2
  <2>4. PICK rest : rest = [i \in 1 .. Len(ss) - 1 |-> ss[i + 1]]
    OBVIOUS
  <2>5. FlattenSeq(ss) = ss[1] \o FlattenSeq(rest)
    BY <2>3, <2>4, FlattenFirst
  <2>6. rest = Tail1(j + 1)
    <3>1. /\ Len(ss) - 1 = l - j /\ l - (j + 1) + 1 = l - j
          /\ \A i \in 1 .. l - j : i + 1 \in 1 .. l - j + 1 /\ j + (i + 1) - 1 = (j + 1) + i - 1
      BY <1>1, <2>2
    <3>2. \A i \in 1 .. l - j : ss[i + 1] = func[(j + 1) + i - 1].does
      BY <2>2, <3>1
    <3> QED BY <2>4, <3>1, <3>2
  <2> QED BY <1>3, <2>1, <2>3, <2>5, <2>6
<1>5. ASSUME NEW j \in 1 .. l + 1
      PROVE  Left(j) \in Seq(Mark)
  BY <1>2, <1>3, FlattenType
<1>6. Left(l + 1) = <<>>
  <2>1. PICK ss \in Seq(Seq(Mark)) : ss = Tail1(l + 1)
    <3> HIDE DEF Tail1
    <3>1. PICK j \in 1 .. l + 1 : j = l + 1
      BY <1>1
    <3> QED BY <1>2, <3>1
  <2>2. Len(ss) = 0
    BY <1>1, <1>2, <2>1
  <2>3. ss = <<>>
    BY <2>2, EmptySeq
  <2>4. FlattenSeq(ss) = <<>>
    BY <2>3, FlattenRuns
  <2> QED BY <1>3, <2>1, <2>4
<1> QED BY <1>4, <1>5, <1>6

\* Operations on single traces up to the end are what is left.
LEMMA SinglesLeft ==
  ASSUME func \in Seq(Ops), NEW j \in 1 .. Len(func) + 1,
         \A i \in j .. Len(func) : func[i].kind = "single"
  PROVE  Singles[j] = Left(j)
<1> DEFINE l == Len(func)
           Bad == {n \in 0 .. l + 1 - j : Singles[l + 1 - n] # Left(l + 1 - n)}
<1>1. l \in Nat /\ l + 1 - j \in 0 .. l + 1 - j /\ l + 1 - (l + 1 - j) = j
  OBVIOUS
<1>2. ASSUME NEW n \in Bad, \A k \in Bad : n <= k
      PROVE  FALSE
  <2>1. n \in 0 .. l + 1 - j /\ Singles[l + 1 - n] # Left(l + 1 - n)
    OBVIOUS
  <2> DEFINE i == l + 1 - n
  <2>2. i \in 1 .. l + 1 /\ i \in Nat /\ j <= i
    BY <1>1, <2>1
  <2>3. n # 0
    <3>1. l + 1 - 0 = l + 1 /\ ~IsKind(l + 1, "single") /\ l + 1 \in 1 .. l + 1
      BY <1>1 DEF IsKind
    <3> QED BY <2>1, <3>1, SinglesIs, LeftIs
  <2>4. n - 1 \in 0 .. l + 1 - j /\ ~(n <= n - 1) /\ l + 1 - (n - 1) = i + 1 /\ i \in j .. l /\ i \in 1 .. l
    BY <1>1, <2>1, <2>2, <2>3
  <2>5. Singles[l + 1 - (n - 1)] = Left(l + 1 - (n - 1))
    BY <1>2, <2>4
  <2>6. IsKind(i, "single")
    BY <2>4 DEF IsKind
  <2> HIDE DEF i
  <2>7. Singles[i] = func[i].does \o Singles[i + 1]
    BY <2>2, <2>6, SinglesIs
  <2>8. Left(i) = func[i].does \o Left(i + 1)
    BY <2>4, LeftIs
  <2>9. Singles[i + 1] = Left(i + 1)
    BY <2>4, <2>5
  <2> QED BY <2>1, <2>7, <2>8, <2>9 DEF i
<1>3. Bad \in SUBSET Nat
  BY <1>1
<1>4. Bad = {}
  <2> HIDE DEF Bad
  <2> QED BY <1>2, <1>3, LeastNat
<1>5. Singles[l + 1 - (l + 1 - j)] = Left(l + 1 - (l + 1 - j))
  BY <1>1, <1>4
<1> QED BY <1>1, <1>5

\* The last of several sorts that follow each other counts, and what the file
\* was sorted by before does not.
LEMMA SortRun ==
  ASSUME func \in Seq(Ops), NEW f \in 1 .. Len(func), NEW p \in f + 1 .. Len(func),
         \A i \in f .. p - 1 : func[i].kind = "sort"
  PROVE  /\ func[p - 1].does \in Order
         /\ \A done \in Seq(Mark), o \in Order :
              Then(done, o \o Left(f)) = Then(done, func[p - 1].does \o Left(p))
<1> DEFINE l == Len(func)
           Bad == {n \in 0 .. p - 1 - f :
                     \E done \in Seq(Mark) : Then(done, Left(p - 1 - n)) # Then(done, Left(p - 1))}
<1>1. l \in Nat /\ p \in Nat /\ f \in Nat /\ f <= p - 1 /\ p <= l /\ 1 <= f /\ p - 1 - f \in Nat
  OBVIOUS
<1>2. ASSUME NEW i \in f .. p - 1
      PROVE  /\ \E b \in SortTypes : func[i].does = <<b>>
             /\ Left(i) = func[i].does \o Left(i + 1) /\ Left(i + 1) \in Seq(Mark)
  <2>1. i \in 1 .. l /\ i + 1 \in 1 .. l + 1
    BY <1>1
  <2>2. func[i] \in Ops /\ func[i].kind = "sort"
    BY <2>1, ElementOfSeq
  <2> QED BY <2>1, <2>2, OpsDo, LeftIs
<1>3. ASSUME NEW n \in Bad, \A k \in Bad : n <= k
      PROVE  FALSE
  <2>1. n \in 0 .. p - 1 - f
    OBVIOUS
  <2>2. PICK done \in Seq(Mark) : Then(done, Left(p - 1 - n)) # Then(done, Left(p - 1))
    OBVIOUS
  <2>3. n # 0
    <3>1. p - 1 - 0 = p - 1
      BY <1>1
    <3> QED BY <2>2, <3>1
  <2>4. PICK i \in f .. p - 1 : i = p - 1 - n
    BY <1>1, <2>1
  <2>5. n - 1 \in 0 .. p - 1 - f /\ ~(n <= n - 1) /\ p - 1 - (n - 1) = i + 1 /\ i + 1 \in f .. p - 1
    BY <1>1, <2>1, <2>3, <2>4
  <2>6. Then(done, Left(p - 1 - (n - 1))) = Then(done, Left(p - 1))
    <3>1. n - 1 \notin Bad
      BY <1>3, <2>5
    <3> QED BY <2>5, <3>1
  <2>7. PICK b \in SortTypes : func[i].does = <<b>>
    BY <1>2
  <2>8. PICK c \in SortTypes : func[i + 1].does = <<c>>
    BY <1>2, <2>5
  <2>9. PICK s \in Seq(Mark) : s = Left((i + 1) + 1)
    BY <1>2, <2>5
  <2>10. Left(i) = <<b>> \o Left(i + 1) /\ Left(i + 1) = <<c>> \o s
    BY <1>2, <2>5, <2>7, <2>8, <2>9
  <2>11. Then(done, Left(i)) = Then(done, Left(i + 1))
    <3>1. Then(done, <<b>> \o (<<c>> \o s)) = Then(done, <<c>> \o s)
      BY SortsMerge
    <3>2. Left(i) = <<b>> \o (<<c>> \o s)
      BY <2>10
    <3>3. Left(i + 1) = <<c>> \o s
      BY <2>10
    <3> QED BY <3>1, <3>2, <3>3
  <2> QED BY <2>2, <2>4, <2>5, <2>6, <2>11
<1>4. Bad \in SUBSET Nat
  BY <1>1
<1>5. Bad = {}
  <2> HIDE DEF Bad
  <2> QED BY <1>3, <1>4, LeastNat
<1>6. \A done \in Seq(Mark) : Then(done, Left(f)) = Then(done, Left(p - 1))
  <2>1. p - 1 - f \notin Bad /\ p - 1 - f \in 0 .. p - 1 - f /\ p - 1 - (p - 1 - f) = f
    BY <1>1, <1>5
  <2> QED BY <2>1
<1>7. Left(p - 1) = func[p - 1].does \o Left(p)
  <2>1. p - 1 \in f .. p - 1 /\ (p - 1) + 1 = p
    BY <1>1
  <2>2. Left(p - 1) = func[p - 1].does \o Left((p - 1) + 1)
    BY <1>2, <2>1
  <2> QED BY <2>1, <2>2
<1>8. func[p - 1].does \in Order
  <2>1. p - 1 \in f .. p - 1
    BY <1>1
  <2>2. PICK b \in SortTypes : func[p - 1].does = <<b>>
    BY <1>2, <2>1
  <2> QED BY <2>2 DEF Order
<1>9. ASSUME NEW done \in Seq(Mark), NEW o \in Order
      PROVE  Then(done, o \o Left(f)) = Then(done, Left(f))
  <2>1. f \in f .. p - 1
    BY <1>1
  <2>2. PICK c \in SortTypes : func[f].does = <<c>>
    BY <1>2, <2>1
  <2>3. PICK s \in Seq(Mark) : s = Left(f + 1)
    BY <1>2, <2>1
  <2>4. Left(f) = <<c>> \o s /\ Left(f) \in Seq(Mark)
    <3>1. f \in 1 .. l + 1
      BY <1>1
    <3> QED BY <1>2, <2>1, <2>2, <2>3, <3>1, LeftIs
  <2>5. CASE o = <<>>
    BY <2>4, <2>5, ConcatEmptySeq
  <2>6. CASE o # <<>>
    <3>1. PICK b \in SortTypes : o = <<b>>
      BY <2>6, OrderIs DEF Order
    <3> QED BY <2>4, <3>1, SortsMerge
  <2> QED BY <2>5, <2>6
<1> QED BY <1>6, <1>7, <1>8, <1>9

\* Behind a run of operations of a kind there is one of another kind.
LEMMA PastRunIs ==
  ASSUME func \in Seq(Ops), NEW kind, fCurr \in 1 .. Len(func), Current(kind),
         func[Len(func)].kind # kind
  PROVE  /\ PastRun(kind) \in fCurr + 1 .. Len(func) /\ func[PastRun(kind)].kind # kind
         /\ \A i \in fCurr .. PastRun(kind) - 1 : func[i].kind = kind
<1> DEFINE l == Len(func)
           Others == {j \in fCurr + 1 .. l : ~IsKind(j, kind)}
           Clear(j) == ~IsKind(j, kind) /\ \A i \in fCurr .. j - 1 : IsKind(i, kind)
<1>1. l \in Nat /\ DOMAIN func = 1 .. l /\ func[fCurr].kind = kind /\ func[l].kind # kind
  BY DEF Current
<1>2. l \in Others
  <2>1. fCurr # l
    BY <1>1
  <2>2. l \in fCurr + 1 .. l
    <3>1. fCurr \in Nat /\ l \in Nat /\ fCurr <= l
      OBVIOUS
    <3> HIDE DEF l
    <3> QED BY <2>1, <3>1
  <2>3. ~IsKind(l, kind)
    BY <1>1 DEF IsKind
  <2> QED BY <2>2, <2>3
<1>3. PICK p \in Others : \A j \in Others : p <= j
  <2>1. Others \in SUBSET Nat
    BY <1>1
  <2> HIDE DEF Others
  <2> QED BY <1>2, <2>1, LeastNat
<1>4. Clear(p)
  <2>1. ASSUME NEW i \in fCurr .. p - 1
        PROVE  IsKind(i, kind)
    <3>1. i # fCurr => i \in fCurr + 1 .. l /\ ~(p <= i)
      BY <1>1
    <3>2. i = fCurr => IsKind(i, kind)
      BY <1>1 DEF IsKind
    <3> QED BY <1>3, <3>1, <3>2
  <2> QED BY <2>1
<1>5. PastRun(kind) \in fCurr + 1 .. l /\ Clear(PastRun(kind))
  <2>1. PastRun(kind) = CHOOSE j \in fCurr + 1 .. l : Clear(j)
    BY DEF PastRun
  <2>2. p \in fCurr + 1 .. l
    OBVIOUS
  <2> HIDE DEF Clear
  <2> QED BY <1>4, <2>1, <2>2
<1> QED BY <1>1, <1>5 DEF IsKind

\* The next unwinding owes what output() promises.
LEMMA PromiseIs ==
  ASSUME func \in Seq(Ops), NEW longer \in Seq(Ops), longer = Append(func, NoOp)
  PROVE  FlattenSeq([i \in 1 .. Len(longer) |-> longer[i].does])
           = FlattenSeq([j \in DOMAIN func |-> func[j].does])
<1> DEFINE l == Len(func)
<1>1. /\ l \in Nat /\ DOMAIN func = 1 .. l /\ Len(longer) = l + 1
      /\ \A i \in 1 .. l : func[i] \in Ops /\ func[i].does \in Seq(Mark) /\ longer[i] = func[i]
      /\ longer[l + 1] = NoOp
  <2>1. NoOp \in Ops
    BY DEF Ops
  <2>2. Len(longer) = l + 1 /\ (\A i \in 1 .. l : longer[i] = func[i]) /\ longer[l + 1] = NoOp
    BY <2>1, AppendProperties
  <2> QED BY <2>2, OpsDo, ElementOfSeq
<1>2. \A i \in 1 .. l + 1 : longer[i].does \in Seq(Mark)
  BY <1>1, OpsDo, ElementOfSeq
<1>3. PICK N \in Nat : N = l
  BY <1>1
<1>4. PICK s \in [1 .. N -> Seq(Mark)] : s = [j \in DOMAIN func |-> func[j].does]
  BY <1>1, <1>3
<1>5. PICK t \in [1 .. N + 1 -> Seq(Mark)] : t = [i \in 1 .. Len(longer) |-> longer[i].does]
  BY <1>1, <1>2, <1>3
<1>6. s \in Seq(Seq(Mark)) /\ Len(s) = N /\ t \in Seq(Seq(Mark)) /\ Len(t) = N + 1
  <2>1. N + 1 \in Nat
    OBVIOUS
  <2> QED BY <2>1
<1>7. \A i \in 1 .. N : t[i] = s[i]
  <2>1. \A i \in 1 .. N : i \in 1 .. N + 1
    OBVIOUS
  <2>2. \A i \in 1 .. N : t[i] = longer[i].does /\ s[i] = func[i].does
    BY <1>1, <1>3, <1>4, <1>5, <2>1
  <2> QED BY <1>1, <1>3, <2>2
<1>8. t[N + 1] = <<>>
  <2>1. N + 1 \in 1 .. N + 1
    OBVIOUS
  <2>2. t[N + 1] = longer[N + 1].does
    BY <1>1, <1>3, <1>5, <2>1
  <2> QED BY <1>1, <1>3, <2>2 DEF NoOp
<1>9. FlattenSeq(t) = FlattenSeq(s)
  BY <1>6, <1>7, <1>8, FlattenLast
<1> QED BY <1>4, <1>5, <1>9

-----------------------------------------------------------------------------
(***************************************************************************)
(* Groups: each file of the set is in one, in one place.                   *)
(***************************************************************************)
Places(k) == {i \in DOMAIN file : file[i].key = k}
Member(k) == InOrder(Places(k), <)

InGroups ==
  \A k : /\ Len(Member(k)) \in Nat /\ Len(Group(k)) = Len(Member(k))
         /\ Group(k) \in Seq(Opening) /\ DOMAIN Group(k) = 1 .. Len(Member(k))
         /\ Group(k) = [n \in 1 .. Len(Member(k)) |-> file[Member(k)[n]]]
         /\ \A n \in 1 .. Len(Member(k)) :
              /\ Member(k)[n] \in DOMAIN file /\ file[Member(k)[n]].key = k
              /\ Group(k)[n] = file[Member(k)[n]]
         /\ \A i \in DOMAIN file : file[i].key = k => \E n \in 1 .. Len(Member(k)) : Member(k)[n] = i
         /\ \A m, n \in 1 .. Len(Member(k)) : Member(k)[m] = Member(k)[n] => m = n

LEMMA GroupIs ==
  ASSUME file \in Seq(Opening)
  PROVE  InGroups
<1>1. Len(file) \in Nat /\ DOMAIN file = 1 .. Len(file)
  OBVIOUS
<1> SUFFICES ASSUME NEW k
             PROVE  /\ Len(Member(k)) \in Nat /\ Len(Group(k)) = Len(Member(k))
                    /\ Group(k) \in Seq(Opening) /\ DOMAIN Group(k) = 1 .. Len(Member(k))
                    /\ Group(k) = [n \in 1 .. Len(Member(k)) |-> file[Member(k)[n]]]
                    /\ \A n \in 1 .. Len(Member(k)) :
                         /\ Member(k)[n] \in DOMAIN file /\ file[Member(k)[n]].key = k
                         /\ Group(k)[n] = file[Member(k)[n]]
                    /\ \A i \in DOMAIN file :
                         file[i].key = k => \E n \in 1 .. Len(Member(k)) : Member(k)[n] = i
                    /\ \A m, n \in 1 .. Len(Member(k)) : Member(k)[m] = Member(k)[n] => m = n
  BY DEF InGroups
<1>2. Places(k) \in SUBSET Nat /\ Places(k) \in SUBSET (1 .. Len(file)) /\ IsFiniteSet(Places(k))
  <2>1. Places(k) \in SUBSET (1 .. Len(file))
    BY <1>1 DEF Places
  <2>2. IsFiniteSet(1 .. Len(file))
    BY <1>1, FS_Interval
  <2>3. IsFiniteSet(Places(k))
    BY <2>1, <2>2, FS_Subset
  <2> QED BY <1>1, <2>1, <2>3
<1>3. Upward(Member(k), Places(k))
  BY DEF Upward, Member, InOrder
<1>4. PICK M \in SUBSET Nat : M = Places(k)
  BY <1>2
<1>5. PICK s : s = Member(k)
  OBVIOUS
<1>6. /\ s \in Seq(M) /\ Len(s) \in Nat /\ DOMAIN s = 1 .. Len(s)
      /\ \A e \in M : \E n \in 1 .. Len(s) : s[n] = e
      /\ \A m, n \in 1 .. Len(s) : s[m] = s[n] => m = n
  <2>1. IsFiniteSet(M) /\ Upward(s, M)
    BY <1>2, <1>3, <1>4, <1>5
  <2> QED BY ONLY <2>1, UpwardIs
<1>7. \A n \in 1 .. Len(s) : s[n] \in DOMAIN file /\ file[s[n]].key = k /\ file[s[n]] \in Opening
  <2>1. \A n \in 1 .. Len(s) : s[n] \in M
    BY <1>6, ElementOfSeq
  <2> QED BY <1>1, <1>4, <2>1, ElementOfSeq DEF Places
<1>8. Group(k) = [n \in 1 .. Len(s) |-> file[s[n]]]
  BY <1>5, <1>6 DEF Group, Member, Places
<1>9. Group(k) \in Seq(Opening) /\ Len(Group(k)) = Len(s) /\ DOMAIN Group(k) = 1 .. Len(s)
  <2>1. PICK N \in Nat : N = Len(s)
    BY <1>6
  <2>2. PICK g \in [1 .. N -> Opening] : g = Group(k)
    BY <1>7, <1>8, <2>1
  <2>3. g \in Seq(Opening) /\ Len(g) = N /\ DOMAIN g = 1 .. N
    OBVIOUS
  <2> QED BY <2>1, <2>2, <2>3
<1>10. \A i \in DOMAIN file : file[i].key = k => \E n \in 1 .. Len(s) : s[n] = i
  BY <1>4, <1>6 DEF Places
<1>11. \A n \in 1 .. Len(s) : Group(k)[n] = file[s[n]]
  BY <1>8
<1> QED BY <1>5, <1>6, <1>7, <1>8, <1>9, <1>10, <1>11

\* GroupOrder goes through the groups, each once.
LEMMA KeysIs ==
  ASSUME file \in Seq(Opening)
  PROVE  /\ Keys \in SUBSET (Nat \ {0}) /\ IsFiniteSet(Keys)
         /\ \A k : k \in Keys <=> \E i \in DOMAIN file : file[i].key = k
         /\ GroupOrder \in Seq(Keys) /\ Len(GroupOrder) \in Nat
         /\ \A k \in Keys : \E n \in 1 .. Len(GroupOrder) : GroupOrder[n] = k
         /\ \A m, n \in 1 .. Len(GroupOrder) : GroupOrder[m] = GroupOrder[n] => m = n
<1>1. Len(file) \in Nat /\ DOMAIN file = 1 .. Len(file) /\ \A i \in DOMAIN file : file[i] \in Opening
  BY ElementOfSeq
<1>2. \A k : k \in Keys <=> \E i \in DOMAIN file : file[i].key = k
  BY DEF Keys
<1>3. Keys \in SUBSET (Nat \ {0})
  BY <1>1, <1>2 DEF Opening
<1>4. IsFiniteSet(Keys)
  <2>1. IsFiniteSet(DOMAIN file)
    BY <1>1, FS_Interval
  <2>2. PICK f \in [DOMAIN file -> Keys] : f = [i \in DOMAIN file |-> file[i].key]
    BY <1>2
  <2>3. \A k \in Keys : \E i \in DOMAIN file : f[i] = k
    BY <1>2, <2>2
  <2>4. f \in Surjection(DOMAIN file, Keys)
    BY <2>3 DEF Surjection
  <2> QED BY <2>1, <2>4, FS_Surjection
<1>5. Upward(GroupOrder, Keys)
  BY DEF Upward, GroupOrder, InOrder
<1>6. PICK M \in SUBSET Nat : M = Keys
  BY <1>3
<1>7. PICK s : s = GroupOrder
  OBVIOUS
<1>8. /\ s \in Seq(M) /\ Len(s) \in Nat
      /\ \A e \in M : \E n \in 1 .. Len(s) : s[n] = e
      /\ \A m, n \in 1 .. Len(s) : s[m] = s[n] => m = n
  BY <1>4, <1>5, <1>6, <1>7, UpwardIs
<1> QED BY <1>2, <1>3, <1>4, <1>6, <1>7, <1>8

LEMMA OneAtMost ==
  ASSUME NEW S, IsFiniteSet(S)
  PROVE  Cardinality(S) <= 1 <=> \A a, b \in S : a = b
<1>1. ASSUME Cardinality(S) <= 1, NEW a \in S, NEW b \in S, a # b
      PROVE  FALSE
  <2>1. IsFiniteSet({a}) /\ Cardinality({a}) = 1
    BY FS_Singleton
  <2>2. Cardinality({a} \cup {b}) = 2
    BY <1>1, <2>1, FS_AddElement
  <2>3. {a} \cup {b} \in SUBSET S
    OBVIOUS
  <2>4. Cardinality({a} \cup {b}) <= Cardinality(S) /\ Cardinality(S) \in Nat
    BY <2>3, FS_Subset, FS_CardinalityType
  <2> QED BY <1>1, <2>2, <2>4
<1>2. ASSUME \A a, b \in S : a = b
      PROVE  Cardinality(S) <= 1
  <2>1. CASE S = {}
    BY <2>1, FS_EmptySet
  <2>2. CASE S # {}
    <3>1. PICK a : S = {a}
      BY <1>2, <2>2
    <3> QED BY <3>1, FS_Singleton
  <2> QED BY <2>1, <2>2
<1> QED BY <1>1, <1>2

\* Counted, and said of each two.
LEMMA AloneIs ==
  ASSUME file \in Seq(Opening)
  PROVE  /\ Alone <=> Cardinality({k \in Keys : Len(Group(k)) = 1}) <= 1
         /\ OneGroup <=> Cardinality(Keys) <= 1
<1>1. IsFiniteSet(Keys) /\ \A k : k \in Keys <=> \E i \in DOMAIN file : file[i].key = k
  BY KeysIs
<1>2. PICK S : S = {k \in Keys : Len(Group(k)) = 1}
  OBVIOUS
<1>3. IsFiniteSet(S)
  BY <1>1, <1>2, FS_Subset
<1>4. Alone <=> \A j, k \in S : j = k
  BY <1>2 DEF Alone
<1>5. OneGroup <=> \A j, k \in Keys : j = k
  <2>1. \A i \in DOMAIN file : file[i].key \in Keys
    BY <1>1
  <2>2. ASSUME OneGroup, NEW j \in Keys, NEW k \in Keys
        PROVE  j = k
    <3>1. PICK m \in DOMAIN file : file[m].key = j
      BY <1>1
    <3>2. PICK n \in DOMAIN file : file[n].key = k
      BY <1>1
    <3> QED BY <2>2, <3>1, <3>2 DEF OneGroup
  <2> QED BY <2>1, <2>2 DEF OneGroup
<1>6. Alone <=> Cardinality(S) <= 1
  BY <1>3, <1>4, OneAtMost
<1>7. OneGroup <=> Cardinality(Keys) <= 1
  BY <1>1, <1>5, OneAtMost
<1> QED BY <1>2, <1>6, <1>7

\* The groups follow from the files alone.
LEMMA SameGroups ==
  ASSUME file' = file
  PROVE  /\ Keys' = Keys /\ GroupOrder' = GroupOrder
         /\ \A k : Group(k)' = Group(k) /\ Desc(k)' = Desc(k)
         /\ Alone' <=> Alone
         /\ OneGroup' <=> OneGroup
         /\ Apart' <=> Apart
<1>1. Keys' = Keys
  BY DEF Keys
<1>2. GroupOrder' = GroupOrder
  BY <1>1 DEF GroupOrder, InOrder
<1>3. \A k : Group(k)' = Group(k)
  BY DEF Group, InOrder
<1>4. \A k : Desc(k)' = Desc(k)
  BY <1>3 DEF Desc
<1>5. Alone' <=> Alone
  BY <1>1, <1>3 DEF Alone
<1> QED BY <1>1, <1>2, <1>3, <1>4, <1>5 DEF OneGroup, Apart

\* A step that leaves the files of the set, and what they hold, alone.
Kept == /\ file' = file /\ cache' = cache /\ opened' = opened
        /\ DOMAIN disk \subseteq DOMAIN disk'
        /\ \A i \in DOMAIN file : disk'[file[i].name] = disk[file[i].name]

LEMMA KeptFiles ==
  ASSUME ListTypes, Known, CacheTrue, Alone, Kept
  PROVE  /\ Known' /\ CacheTrue' /\ Alone'
         /\ \A marks : Owed(marks)' = Owed(marks)
         /\ \A i \in DOMAIN file : Held(file[i])' = Held(file[i])
         /\ \A k : \A n \in DOMAIN Group(k) : Held(Group(k)[n])' = Held(Group(k)[n])
<1>1. /\ file' = file /\ cache' = cache /\ opened' = opened
      /\ DOMAIN disk \subseteq DOMAIN disk'
      /\ \A i \in DOMAIN file : disk'[file[i].name] = disk[file[i].name]
  BY DEF Kept
<1>2. \A i \in DOMAIN file : Held(file[i])' = Held(file[i])
  BY <1>1 DEF Held
<1>3. InGroups
  BY GroupIs DEF ListTypes
<1>4. \A k : \A n \in DOMAIN Group(k) : \E i \in DOMAIN file : Group(k)[n] = file[i]
  BY <1>3 DEF InGroups
<1>5. \A k : \A n \in DOMAIN Group(k) : Held(Group(k)[n])' = Held(Group(k)[n])
  <2>1. \A k : Group(k)' = Group(k)
    BY <1>1, SameGroups
  <2>2. ASSUME NEW k, NEW n \in DOMAIN Group(k)
        PROVE  Held(Group(k)[n])' = Held(Group(k)[n])
    <3>1. PICK i \in DOMAIN file : Group(k)[n] = file[i]
      BY <1>4
    <3>2. Held(Group(k)[n])' = disk'[Group(k)[n].name].parts
      BY <2>1 DEF Held
    <3>3. Held(Group(k)[n]) = disk[Group(k)[n].name].parts
      BY DEF Held
    <3> QED BY <1>1, <3>1, <3>2, <3>3
  <2> QED BY <2>2
<1>6. \A k : Contents(k)' = Contents(k)
  <2>1. \A k : Group(k)' = Group(k)
    BY <1>1, SameGroups
  <2>2. \A k : \A n \in DOMAIN Group(k) : disk'[Group(k)[n].name] = disk[Group(k)[n].name]
    BY <1>1, <1>4
  <2> QED BY <2>1, <2>2 DEF Contents, Held
<1>7. Known'
  BY <1>1 DEF Known
<1>8. CacheTrue'
  <2>1. Keys' = Keys /\ \A k : Desc(k)' = Desc(k)
    BY <1>1, SameGroups
  <2> QED BY <1>1, <1>6, <2>1 DEF CacheTrue
<1>9. Alone'
  BY <1>1, SameGroups
<1>10. \A marks : Owed(marks)' = Owed(marks)
  <2>1. ASSUME NEW marks
        PROVE  Owed(marks)' = Owed(marks)
    <3>1. Owed(marks)' = UNION {After(disk'[file[i].name].parts, file[i].order \o marks) : i \in DOMAIN file}
      BY <1>1 DEF Owed, Held, After, Then
    <3>2. Owed(marks) = UNION {After(disk[file[i].name].parts, file[i].order \o marks) : i \in DOMAIN file}
      BY DEF Owed, Held
    <3> QED BY <1>1, <3>1, <3>2
  <2> QED BY <2>1
<1> QED BY <1>2, <1>5, <1>7, <1>8, <1>9, <1>10

InKeys ==
  /\ Keys \in SUBSET (Nat \ {0}) /\ IsFiniteSet(Keys)
  /\ \A k : k \in Keys <=> \E i \in DOMAIN file : file[i].key = k
  /\ GroupOrder \in Seq(Keys) /\ Len(GroupOrder) \in Nat
  /\ \A k \in Keys : \E n \in 1 .. Len(GroupOrder) : GroupOrder[n] = k
  /\ \A m, n \in 1 .. Len(GroupOrder) : GroupOrder[m] = GroupOrder[n] => m = n
FewSingles == Cardinality({k \in Keys : Len(Group(k)) = 1}) <= 1
FewKeys == Cardinality(Keys) <= 1
FileTypes == file \in Seq(Opening)

LEMMA GroupsNow ==
  FileTypes => InGroups /\ InKeys /\ (Alone <=> FewSingles) /\ (OneGroup <=> FewKeys)
<1> SUFFICES ASSUME FileTypes
             PROVE  InGroups /\ InKeys /\ (Alone <=> FewSingles) /\ (OneGroup <=> FewKeys)
  OBVIOUS
<1>1. file \in Seq(Opening)
  BY DEF FileTypes
<1>2. InGroups
  BY <1>1, GroupIs
<1>3. InKeys
  BY <1>1, KeysIs DEF InKeys
<1>4. (Alone <=> FewSingles) /\ (OneGroup <=> FewKeys)
  BY <1>1, AloneIs DEF FewSingles, FewKeys
<1> QED BY <1>2, <1>3, <1>4

\* The same in the state after a step.
LEMMA GroupsLater ==
  FileTypes' => InGroups' /\ InKeys' /\ (Alone' <=> FewSingles') /\ (OneGroup' <=> FewKeys')
<1>1. FileTypes' => (InGroups /\ InKeys /\ (Alone <=> FewSingles) /\ (OneGroup <=> FewKeys))'
  BY GroupsNow, PTL
<1> QED BY <1>1

-----------------------------------------------------------------------------
(***************************************************************************)
(* One step after the other.                                               *)
(***************************************************************************)
Safe == /\ ListTypes /\ Known /\ CacheTrue /\ Alone
        /\ Resting /\ Unwinding /\ Writing /\ Gathering

\* Where in the list the unwinding is does not change either.
SameList == func' = func /\ fCurr' = fCurr

\* Then what is still to be done does not change.
LEMMA KeptList ==
  ASSUME ListTypes, Known, CacheTrue, Alone, Kept, SameList
  PROVE  /\ Left(fCurr)' = Left(fCurr) /\ Owed(Left(fCurr))' = Owed(Left(fCurr))
         /\ Singles' = Singles /\ InGather' = InGather
         /\ Queued' <=> Queued
         /\ Fit' <=> Fit
         /\ \A kind : Current(kind)' <=> Current(kind)
<1>1. func' = func /\ fCurr' = fCurr /\ file' = file
  BY DEF SameList, Kept
<1>2. Singles' = Singles
  BY <1>1 DEF Singles, IsKind
<1>3. InGather' = InGather
  BY <1>1, <1>2 DEF InGather, IsKind
<1>4. Left(fCurr)' = Left(fCurr)
  BY <1>1 DEF Left
<1>5. Owed(Left(fCurr))' = Owed(Left(fCurr))
  <2>1. Owed(Left(fCurr))' = UNION {After(disk'[file[i].name].parts, file[i].order \o Left(fCurr)) : i \in DOMAIN file}
    BY <1>1, <1>4 DEF Owed, Held
  <2>2. Owed(Left(fCurr)) = UNION {After(disk[file[i].name].parts, file[i].order \o Left(fCurr)) : i \in DOMAIN file}
    BY DEF Owed, Held
  <2>3. \A i \in DOMAIN file : disk'[file[i].name].parts = disk[file[i].name].parts
    BY DEF Kept
  <2> QED BY <2>1, <2>2, <2>3
<1>6. Queued' <=> Queued
  BY <1>1 DEF Queued
<1>7. Fit' <=> Fit
  BY <1>1 DEF Fit, OneGroup
<1>8. \A kind : Current(kind)' <=> Current(kind)
  BY <1>1 DEF Current
<1> QED BY <1>2, <1>3, <1>4, <1>5, <1>6, <1>7, <1>8

\* Nor does what startSingle is to write.
LEMMA KeptComing ==
  ASSUME ListTypes, Known, CacheTrue, Alone, Kept, SameList, saved' = saved
  PROVE  /\ Coming' = Coming /\ Owed(Coming)' = Owed(Coming)
         /\ \A k : Due(k)' = Due(k)
<1>1. file' = file
  BY DEF Kept
<1>2. Coming' = Coming
  <2>1. Singles' = Singles
    BY KeptList
  <2> QED BY <2>1 DEF Coming, SameList
<1>3. Owed(Coming)' = Owed(Coming)
  <2>1. Owed(Coming)' = UNION {After(disk'[file[i].name].parts, file[i].order \o Coming) : i \in DOMAIN file}
    BY <1>1, <1>2 DEF Owed, Held
  <2>2. Owed(Coming) = UNION {After(disk[file[i].name].parts, file[i].order \o Coming) : i \in DOMAIN file}
    BY DEF Owed, Held
  <2>3. \A i \in DOMAIN file : disk'[file[i].name].parts = disk[file[i].name].parts
    BY DEF Kept
  <2> QED BY <2>1, <2>2, <2>3
<1>4. ASSUME NEW k
      PROVE  Due(k)' = Due(k)
  <2>1. Group(k)' = Group(k)
    BY <1>1, SameGroups
  <2>2. \A n \in DOMAIN Group(k) : Held(Group(k)[n])' = Held(Group(k)[n])
    BY KeptFiles
  <2>3. \A n \in DOMAIN Group(k) : disk'[Group(k)[n].name].parts = disk[Group(k)[n].name].parts
    BY <2>1, <2>2 DEF Held
  <2>4. Due(k)' = UNION {After(disk'[Group(k)[i].name].parts, Group(k)[i].order \o Coming) :
                           i \in DOMAIN Group(k)}
    BY <1>2, <2>1 DEF Due, Held
  <2>5. Due(k) = UNION {After(disk[Group(k)[i].name].parts, Group(k)[i].order \o Coming) :
                          i \in DOMAIN Group(k)}
    BY DEF Due, Held
  <2> QED BY <2>3, <2>4, <2>5
<1> QED BY <1>2, <1>3, <1>4

\* A file that is none of the set's is written.
LEMMA PutIs ==
  ASSUME ListTypes, Known, NEW n \in Roots \X Nat, NEW k \in Nat \ {0}, NEW parts \in SUBSET Part,
         Put(n, k, parts), n \notin Names(file), file' = file, cache' = cache, opened' = opened
  PROVE  /\ Kept /\ DOMAIN disk' = DOMAIN disk \cup {n} /\ disk'[n].parts = parts
         /\ \A m \in DOMAIN disk : m # n => disk'[m] = disk[m]
         /\ DOMAIN disk' \subseteq Roots \X Nat /\ \A m \in DOMAIN disk' : disk'[m] \in Content
<1>1. /\ DOMAIN disk' = DOMAIN disk \cup {n}
      /\ disk'[n] = [key |-> k, parts |-> parts]
      /\ \A m \in DOMAIN disk : m # n => disk'[m] = disk[m]
  BY DEF Put
<1>2. \A i \in DOMAIN file : file[i].name \in DOMAIN disk /\ file[i].name # n
  BY DEF Known, Names
<1>3. Kept
  BY <1>1, <1>2 DEF Kept
<1>4. [key |-> k, parts |-> parts] \in Content
  BY DEF Content
<1>5. \A m \in DOMAIN disk' : disk'[m] \in Content
  BY <1>1, <1>4 DEF ListTypes
<1>6. DOMAIN disk' \subseteq Roots \X Nat
  BY <1>1 DEF ListTypes
<1> QED BY <1>1, <1>3, <1>5, <1>6

\* Lists and their places.
LEMMA TypesAre ==
  ASSUME ListTypes
  PROVE  /\ file \in Seq(Opening) /\ Len(file) \in Nat /\ DOMAIN file = 1 .. Len(file)
         /\ \A i \in DOMAIN file : file[i] \in Opening
         /\ func \in Seq(Ops) /\ Len(func) \in Nat /\ DOMAIN func = 1 .. Len(func)
         /\ \A i \in DOMAIN func : func[i] \in Ops
         /\ names \in Seq(DOMAIN disk) /\ Len(names) \in Nat /\ DOMAIN names = 1 .. Len(names)
<1>1. file \in Seq(Opening) /\ func \in Seq(Ops) /\ names \in Seq(DOMAIN disk)
  BY DEF ListTypes
<1>2. /\ Len(file) \in Nat /\ DOMAIN file = 1 .. Len(file)
      /\ Len(func) \in Nat /\ DOMAIN func = 1 .. Len(func)
      /\ Len(names) \in Nat /\ DOMAIN names = 1 .. Len(names)
  BY <1>1
<1> QED BY <1>1, <1>2, ElementOfSeq

\* Each group has a name of its own, which is no file of the set.
LEMMA OutNameIs ==
  ASSUME ListTypes, Alone, Apart, outfix \in OutNames \cup {"temp"}
  PROVE  /\ \A k \in Keys : /\ OutName(k) \in Roots \X Nat /\ OutName(k)[1] = outfix
                            /\ OutName(k) \notin Names(file)
         /\ \A j, k \in Keys : OutName(j) = OutName(k) => j = k
<1>1. file \in Seq(Opening) /\ \A k \in Keys : k \in Nat /\ k # 0
  BY KeysIs DEF ListTypes
<1>2. \A k : OutName(k) = <<outfix, IF Len(Group(k)) = 1 THEN 0 ELSE k>>
  BY DEF OutName, NameOf
<1>3. ASSUME NEW k \in Keys
      PROVE  OutName(k) \in Roots \X Nat /\ OutName(k)[1] = outfix /\ OutName(k) \notin Names(file)
  <2>1. OutName(k) \in Roots \X Nat /\ OutName(k)[1] = outfix
    BY <1>1, <1>2 DEF Roots
  <2>2. \A i \in DOMAIN file : file[i].name[1] # outfix
    <3>1. \A i \in DOMAIN file : file[i].name[1] \in DOMAIN Key \cup {"gtemp"}
      BY DEF Apart
    <3>2. "gtemp" # "temp"
      OBVIOUS
    <3> QED BY <3>1, <3>2, PrefixAssumption
  <2>3. \A i \in DOMAIN file : file[i].name # OutName(k)
    BY <2>1, <2>2
  <2> QED BY <2>1, <2>3 DEF Names
<1>4. ASSUME NEW j \in Keys, NEW k \in Keys, OutName(j) = OutName(k)
      PROVE  j = k
  <2>1. (IF Len(Group(j)) = 1 THEN 0 ELSE j) = (IF Len(Group(k)) = 1 THEN 0 ELSE k)
    BY <1>2, <1>4
  <2>2. CASE Len(Group(j)) = 1 /\ Len(Group(k)) = 1
    BY <2>2 DEF Alone
  <2>3. CASE Len(Group(j)) # 1 \/ Len(Group(k)) # 1
    BY <1>1, <2>1, <2>3
  <2> QED BY <2>2, <2>3
<1> QED BY <1>3, <1>4

LEMMA HeldIs ==
  ASSUME ListTypes, Known
  PROVE  /\ \A i \in DOMAIN file : Held(file[i]) \in SUBSET Part /\ file[i] \in Opening
         /\ \A k : \A n \in DOMAIN Group(k) : Held(Group(k)[n]) \in SUBSET Part /\ Group(k)[n] \in Opening
<1>1. \A i \in DOMAIN file : Held(file[i]) \in SUBSET Part /\ file[i] \in Opening
  <2>1. \A i \in DOMAIN file : disk[file[i].name] \in Content
    BY DEF ListTypes, Known
  <2>2. \A i \in DOMAIN file : file[i] \in Opening
    BY TypesAre
  <2> QED BY <2>1, <2>2 DEF Held, Content
<1>2. \A k : \A n \in DOMAIN Group(k) : \E i \in DOMAIN file : Group(k)[n] = file[i]
  <2>1. InGroups
    BY GroupIs DEF ListTypes
  <2> QED BY <2>1 DEF InGroups
<1> QED BY <1>1, <1>2

LEMMA AtIs ==
  ASSUME ListTypes, Queued, NEW kind, Current(kind)
  PROVE  /\ fCurr \in 1 .. Len(func) /\ fCurr \in fCurr .. Len(func) /\ fCurr \in Nat
         /\ Len(func) \in Nat /\ func[fCurr].kind = kind /\ func[fCurr] \in Ops
         /\ func[Len(func)].kind = "single" /\ func[Len(func)].does = <<>>
         /\ kind # "single" => fCurr < Len(func)
         /\ kind = "gather" => fCurr = Len(func) - 1 /\ func[fCurr].does = <<"gather">>
<1>1. fCurr \in 1 .. Len(func) /\ func[Len(func)] = NoOp
  BY DEF Queued
<1>2. Len(func) \in Nat /\ DOMAIN func = 1 .. Len(func) /\ \A i \in DOMAIN func : func[i] \in Ops
  BY TypesAre
<1>3. func[fCurr].kind = kind
  BY DEF Current
<1>4. fCurr \in fCurr .. Len(func) /\ fCurr \in Nat /\ func[fCurr] \in Ops
  BY <1>1, <1>2
<1>5. func[Len(func)].kind = "single" /\ func[Len(func)].does = <<>>
  BY <1>1 DEF NoOp
<1>6. kind # "single" => fCurr # Len(func)
  BY <1>3, <1>5
<1>7. kind # "single" => fCurr < Len(func)
  <2>1. fCurr \in Nat /\ fCurr <= Len(func)
    BY <1>1, <1>2
  <2> DEFINE l == Len(func)
  <2>2. kind # "single" => fCurr # l
    BY <1>6
  <2>3. fCurr # l => fCurr < l
    <3>1. l \in Nat /\ fCurr \in Nat /\ fCurr <= l
      BY <1>2, <2>1
    <3> HIDE DEF l
    <3> QED BY <3>1
  <2> HIDE DEF l
  <2>4. kind # "single" => fCurr < l
    BY <2>2, <2>3
  <2> QED BY <2>4 DEF l
<1>8. kind = "gather" => fCurr = Len(func) - 1
  BY <1>3, <1>4 DEF Queued
<1>9. func[fCurr].kind = "gather" => func[fCurr].does = <<"gather">>
  <2>1. \A op \in Ops : op.kind = "gather" => op.does = <<"gather">>
    BY DEF Ops, NoOp, TraceOp, SortOp, GatherOp
  <2> QED BY <1>4, <2>1
<1> QED BY <1>1, <1>2, <1>3, <1>4, <1>5, <1>7, <1>8, <1>9

\* In a list without gather operations Singles is all that is left of it.
LEMMA AtSingle ==
  ASSUME ListTypes, Queued, Current("single")
  PROVE  Singles[fCurr] = Left(fCurr)
<1>1. func \in Seq(Ops) /\ fCurr \in 1 .. Len(func) /\ Len(func) \in Nat /\ func[fCurr].kind = "single"
  BY TypesAre DEF Queued, Current
<1>2. \A i \in fCurr .. Len(func) : func[i].kind = "single"
  <2>1. \A i \in fCurr .. Len(func) : fCurr < i => func[i].kind = "single"
    <3>1. fCurr \in fCurr .. Len(func)
      BY <1>1
    <3>2. "sort" # "single"
      OBVIOUS
    <3> QED BY <1>1, <3>1, <3>2 DEF Queued
  <2>2. \A i \in fCurr .. Len(func) : fCurr < i \/ i = fCurr
    BY <1>1
  <2> QED BY <1>1, <2>1, <2>2
<1>3. fCurr \in 1 .. Len(func) + 1
  BY <1>1
<1>4. PICK j \in 1 .. Len(func) + 1 : j = fCurr
  BY <1>3
<1>5. Singles[j] = Left(j)
  BY <1>1, <1>2, <1>4, SinglesLeft
<1> QED BY <1>4, <1>5

LEMMA LeftType ==
  ASSUME ListTypes, Queued
  PROVE  Left(fCurr) \in Seq(Mark)
<1>1. func \in Seq(Ops) /\ Len(func) \in Nat /\ fCurr \in 1 .. Len(func)
  BY TypesAre DEF Queued
<1>2. PICK j \in 1 .. Len(func) + 1 : j = fCurr
  BY <1>1
<1> QED BY <1>1, <1>2, LeftIs

LEMMA ComingIs ==
  ASSUME ListTypes, Writing, phase = "single"
  PROVE  /\ Coming \in Seq(Mark)
         /\ saved = "" => Current("single") /\ Prefixed /\ Coming = Left(fCurr) /\ promised.parts = Owed(Coming)
         /\ saved # "" => /\ Coming = <<>> /\ Current("gather") /\ saved \in OutNames /\ outfix = "temp"
                          /\ promised.prefix = saved /\ OneGroup /\ Len(file) > 1
                          /\ promised.parts = Owed(Left(fCurr))
         /\ outfix \in OutNames \cup {"temp"}
<1>1. Queued
  BY DEF Writing
<1>2. CASE Current("single") /\ Prefixed /\ promised.parts = Owed(Coming)
  <2>1. Coming = Left(fCurr)
    BY <1>1, <1>2, AtSingle DEF Coming, Prefixed
  <2> QED BY <1>1, <1>2, <2>1, LeftType DEF Prefixed
<1>3. CASE /\ Current("gather") /\ saved \in OutNames /\ outfix = "temp" /\ promised.prefix = saved
           /\ OneGroup /\ Len(file) > 1 /\ promised.parts = Owed(Left(fCurr))
  <2>1. saved # ""
    BY <1>3, PrefixAssumption
  <2>2. Coming = <<>>
    BY <2>1 DEF Coming
  <2>3. <<>> \in Seq(Mark)
    OBVIOUS
  <2> QED BY <1>3, <2>1, <2>2, <2>3
<1> QED BY <1>2, <1>3 DEF Writing

LEMMA DueType ==
  ASSUME ListTypes, Known, Coming \in Seq(Mark), NEW k
  PROVE  Due(k) \in SUBSET Part
<1>1. ASSUME NEW n \in DOMAIN Group(k)
      PROVE  After(Held(Group(k)[n]), Group(k)[n].order \o Coming) \in SUBSET Part
  <2>1. Held(Group(k)[n]) \in SUBSET Part /\ Group(k)[n].order \in Order
    BY HeldIs DEF Opening
  <2>2. PICK o \in Order : o = Group(k)[n].order
    BY <2>1
  <2>3. o \in Seq(Mark)
    BY OrderIs
  <2>4. PICK c \in Seq(Mark) : c = Coming
    OBVIOUS
  <2>5. PICK m \in Seq(Mark) : m = o \o c
    BY <2>3, ConcatProperties
  <2>6. PICK h \in SUBSET Part : h = Held(Group(k)[n])
    BY <2>1
  <2>7. After(h, m) \in SUBSET Part
    BY AfterIs
  <2> QED BY <2>2, <2>4, <2>5, <2>6, <2>7
<1> QED BY <1>1 DEF Due

\* The next group is written, and the outputs of the others stay.
LEMMA WriteGroupStep ==
  ASSUME Safe, WriteGroup
  PROVE  Safe'
<1> DEFINE l == Len(names)
           L == Len(GroupOrder)
<1>1. /\ ListTypes /\ Known /\ CacheTrue /\ Alone /\ Writing
      /\ phase = "single" /\ todo # <<>> /\ todo' = Tail(todo) /\ phase' = "single"
      /\ file' = file /\ func' = func /\ outfix' = outfix /\ cache' = cache /\ fCurr' = fCurr
      /\ saved' = saved /\ opened' = opened /\ promised' = promised /\ outputs' = outputs
      /\ given' = given /\ dying' = dying
  BY DEF Safe, WriteGroup, callVars
<1>2. /\ Queued /\ Apart /\ file # <<>>
      /\ l <= L /\ todo = [i \in 1 .. L - l |-> GroupOrder[l + i]]
      /\ \A n \in DOMAIN names : names[n] = OutName(GroupOrder[n]) /\ disk[names[n]].parts = Due(GroupOrder[n])
  BY <1>1 DEF Writing
<1>3. /\ file \in Seq(Opening) /\ names \in Seq(DOMAIN disk) /\ l \in Nat /\ DOMAIN names = 1 .. l
  BY <1>1, TypesAre
<1>4. /\ Keys \in SUBSET (Nat \ {0}) /\ GroupOrder \in Seq(Keys) /\ L \in Nat
      /\ \A m, n \in 1 .. L : GroupOrder[m] = GroupOrder[n] => m = n
  BY <1>3, KeysIs
<1>5. l + 1 \in 1 .. L /\ Head(todo) = GroupOrder[l + 1]
      /\ Tail(todo) = [i \in 1 .. L - (l + 1) |-> GroupOrder[(l + 1) + i]]
  <2>0. l \in Nat /\ L \in Nat /\ l <= L
    BY <1>2, <1>3, <1>4
  <2>1. PICK N \in Nat : N = L - l
    <3> HIDE DEF l, L
    <3> QED BY <2>0
  <2>2. \A i \in 1 .. N : GroupOrder[l + i] \in Keys
    <3>1. \A i \in 1 .. N : l + i \in 1 .. L
      BY <1>3, <1>4, <2>1
    <3> QED BY <1>4, <3>1, ElementOfSeq
  <2>3. PICK t \in [1 .. N -> Keys] : t = todo
    BY <1>2, <2>1, <2>2
  <2>4. t \in Seq(Keys) /\ Len(t) = N
    OBVIOUS
  <2>5. N # 0
    BY <1>1, <2>3, <2>4, EmptySeq
  <2>6. l + 1 \in 1 .. L /\ 1 \in 1 .. N
    <3> HIDE DEF l, L
    <3> QED BY <2>0, <2>1, <2>5
  <2>7. Head(t) = t[1] /\ t[1] = GroupOrder[l + 1]
    BY <1>2, <2>1, <2>3, <2>4, <2>6
  <2>8. Tail(t) = [i \in 1 .. N - 1 |-> t[i + 1]]
    <3>1. t # <<>>
      BY <1>1, <2>3
    <3>2. PICK u \in Seq(Keys) : u = Tail(t)
      <4>1. Tail(t) \in Seq(Keys)
        BY <2>4, <3>1, HeadTailProperties
      <4> QED BY <4>1
    <3>3. Len(u) = N - 1 /\ \A i \in 1 .. N - 1 : u[i] = t[i + 1]
      BY <2>4, <3>1, <3>2, HeadTailProperties
    <3>4. u = [i \in 1 .. N - 1 |-> u[i]]
      BY <3>3
    <3> QED BY <3>2, <3>3, <3>4
  <2>9. \A i \in 1 .. N - 1 : t[i + 1] = GroupOrder[(l + 1) + i]
    <3>1. \A i \in 1 .. N - 1 : i + 1 \in 1 .. N /\ l + (i + 1) = (l + 1) + i
      BY <1>3, <2>1
    <3> QED BY <1>2, <2>1, <2>3, <3>1
  <2>10. N - 1 = L - (l + 1)
    BY <1>3, <1>4, <2>1
  <2> QED BY <2>3, <2>6, <2>7, <2>8, <2>9, <2>10
<1>6. PICK k \in Keys : k = GroupOrder[l + 1]
  BY <1>4, <1>5, ElementOfSeq
<1>7. PICK n \in Roots \X Nat : n = OutName(k)
  BY <1>1, <1>2, ComingIs, OutNameIs
<1>8. /\ n \notin Names(file)
      /\ \A j \in Keys : OutName(j) = n => j = k
  BY <1>1, <1>2, <1>7, ComingIs, OutNameIs
<1>9. PICK parts \in SUBSET Part : parts = Due(k)
  BY <1>1, ComingIs, DueType
<1>10. Put(n, k, parts) /\ names' = Append(names, n)
  <2>1. k = Head(todo)
    BY <1>5, <1>6
  <2>2. Put(n, k, UNION {After(Held(Group(k)[i]), Group(k)[i].order \o Coming) : i \in DOMAIN Group(k)})
        /\ names' = Append(names, n)
    BY <1>7, <2>1 DEF WriteGroup, Coming
  <2> QED BY <1>9, <2>2 DEF Due
<1>11. /\ Kept /\ DOMAIN disk' = DOMAIN disk \cup {n} /\ disk'[n].parts = parts
       /\ \A m \in DOMAIN disk : m # n => disk'[m] = disk[m]
       /\ DOMAIN disk' \subseteq Roots \X Nat /\ \A m \in DOMAIN disk' : disk'[m] \in Content
  <2>1. k \in Nat \ {0}
    BY <1>4
  <2> QED BY <1>1, <1>8, <1>10, <2>1, PutIs
<1>12. SameList
  BY <1>1 DEF SameList
<1>13. Known' /\ CacheTrue' /\ Alone'
  BY <1>1, <1>11, KeptFiles
<1>14. /\ Coming' = Coming /\ Owed(Coming)' = Owed(Coming) /\ Owed(Left(fCurr))' = Owed(Left(fCurr))
       /\ \A j : Due(j)' = Due(j)
       /\ Queued' /\ \A kind : Current(kind)' <=> Current(kind)
  BY <1>1, <1>2, <1>11, <1>12, KeptList, KeptComing
<1>15. /\ Keys' = Keys /\ GroupOrder' = GroupOrder /\ \A j : Group(j)' = Group(j)
       /\ Apart' /\ (OneGroup' <=> OneGroup)
  BY <1>1, <1>2, SameGroups
<1>16. \A j : OutName(j)' = OutName(j)
  BY <1>1, <1>15 DEF OutName
<1>17. /\ names' \in Seq(DOMAIN disk') /\ Len(names') = l + 1 /\ DOMAIN names' = 1 .. l + 1
       /\ names'[l + 1] = n /\ \A m \in 1 .. l : names'[m] = names[m]
  <2>1. names \in Seq(DOMAIN disk')
    BY <1>3, <1>11, SeqMonotonic
  <2>2. n \in DOMAIN disk'
    BY <1>11
  <2>3. names' \in Seq(DOMAIN disk') /\ Len(names') = l + 1 /\ names'[l + 1] = n
        /\ \A m \in 1 .. l : names'[m] = names[m]
    BY <1>10, <2>1, <2>2, AppendProperties
  <2> QED BY <2>3
<1>18. ListTypes'
  BY <1>1, <1>11, <1>17 DEF ListTypes
<1>19. ASSUME NEW m \in 1 .. l + 1
       PROVE  names'[m] = OutName(GroupOrder[m]) /\ disk'[names'[m]].parts = Due(GroupOrder[m])
  <2>1. CASE m = l + 1
    BY <1>6, <1>7, <1>9, <1>11, <1>17, <2>1
  <2>2. CASE m # l + 1
    <3>1. m \in 1 .. l /\ m \in 1 .. L
      BY <1>3, <1>4, <1>5, <2>2
    <3>2. names'[m] = names[m] /\ names[m] = OutName(GroupOrder[m]) /\ names[m] \in DOMAIN disk
      BY <1>2, <1>3, <1>17, <3>1, ElementOfSeq
    <3>3. names[m] # n
      <4>1. GroupOrder[m] \in Keys
        BY <1>4, <3>1, ElementOfSeq
      <4>2. GroupOrder[m] # k
        BY <1>4, <1>5, <1>6, <2>2, <3>1
      <4> QED BY <1>8, <3>2, <4>1, <4>2
    <3> QED BY <1>2, <1>3, <1>11, <3>1, <3>2, <3>3
  <2> QED BY <2>1, <2>2
<1>20. Writing'
  <2>1. Prefixed' <=> Prefixed
    BY <1>1 DEF Prefixed
  <2>2. \/ Current("single")' /\ Prefixed' /\ promised'.parts = Owed(Coming)'
        \/ /\ Current("gather")' /\ saved' \in OutNames /\ outfix' = "temp" /\ promised'.prefix = saved'
           /\ OneGroup' /\ Len(file') > 1 /\ promised'.parts = Owed(Left(fCurr))'
    BY <1>1, <1>14, <1>15, <2>1 DEF Writing
  <2>3. Len(names') <= Len(GroupOrder')
    BY <1>5, <1>15, <1>17
  <2>4. todo' = [i \in 1 .. Len(GroupOrder') - Len(names') |-> GroupOrder'[Len(names') + i]]
    BY <1>1, <1>5, <1>15, <1>17
  <2>5. \A m \in DOMAIN names' : names'[m] = OutName(GroupOrder[m])' /\ disk'[names'[m]].parts = Due(GroupOrder[m])'
    <3>1. ASSUME NEW m \in 1 .. l + 1
          PROVE  names'[m] = OutName(GroupOrder[m])' /\ disk'[names'[m]].parts = Due(GroupOrder[m])'
      <4>1. PICK j : j = GroupOrder[m]
        OBVIOUS
      <4>2. GroupOrder'[m] = j
        BY <1>15, <4>1
      <4>3. OutName(GroupOrder[m])' = OutName(j)
        BY <1>1, <1>15, <4>2 DEF OutName
      <4>4. Due(GroupOrder[m])' = Due(j)'
        BY <4>2 DEF Due
      <4> QED BY <1>14, <1>19, <4>1, <4>3, <4>4
    <3> QED BY <1>17, <3>1
  <2> QED BY <1>1, <1>2, <1>14, <1>15, <2>2, <2>3, <2>4, <2>5 DEF Writing
<1>21. Resting' /\ Unwinding' /\ Gathering'
  BY <1>1 DEF Resting, Unwinding, Gathering, Idle
<1> QED BY <1>13, <1>18, <1>20, <1>21 DEF Safe

\* When startSingle is through, its files hold what the set is to become.
LEMMA WrittenAll ==
  ASSUME ListTypes, Known, Alone, Writing, phase = "single", todo = <<>>
  PROVE  /\ Len(names) = Len(GroupOrder)
         /\ HeldBy(Range(names)) = Owed(Coming)
         /\ \A n \in Range(names) : n[1] = outfix
         /\ \A i, j \in DOMAIN names : names[i] = names[j] => i = j
<1> DEFINE l == Len(names)
           L == Len(GroupOrder)
<1>1. /\ Queued /\ Apart
      /\ l <= L /\ todo = [i \in 1 .. L - l |-> GroupOrder[l + i]]
      /\ \A n \in DOMAIN names : names[n] = OutName(GroupOrder[n]) /\ disk[names[n]].parts = Due(GroupOrder[n])
  BY DEF Writing
<1>2. /\ file \in Seq(Opening) /\ l \in Nat /\ DOMAIN names = 1 .. l
  BY TypesAre
<1>3. InGroups /\ InKeys
  BY <1>2, GroupIs, KeysIs DEF InKeys
<1>4. /\ GroupOrder \in Seq(Keys) /\ L \in Nat
      /\ \A k \in Keys : \E n \in 1 .. L : GroupOrder[n] = k
      /\ \A m, n \in 1 .. L : GroupOrder[m] = GroupOrder[n] => m = n
  BY <1>3 DEF InKeys
<1>5. l = L
  <2>1. l \in Nat /\ L \in Nat /\ l <= L
    BY <1>1, <1>2, <1>4
  <2>2. PICK N \in Nat : N = L - l
    <3> HIDE DEF l, L
    <3> QED BY <2>1
  <2>3. N = 0
    <3>1. todo = [i \in 1 .. N |-> GroupOrder[l + i]]
      BY <1>1, <2>2
    <3>2. PICK t \in [1 .. N -> {GroupOrder[l + i] : i \in 1 .. N}] : t = todo
      BY <3>1
    <3>3. Len(t) = N /\ Len(<<>>) = 0
      OBVIOUS
    <3> QED BY <3>2, <3>3
  <2> HIDE DEF l, L
  <2> QED BY <2>1, <2>2, <2>3
<1>6. \A n \in 1 .. l : GroupOrder[n] \in Keys
  BY <1>4, <1>5, ElementOfSeq
<1>7. /\ \A k \in Keys : OutName(k)[1] = outfix
      /\ \A j, k \in Keys : OutName(j) = OutName(k) => j = k
  BY <1>1, ComingIs, OutNameIs
<1>8. \A n \in Range(names) : n[1] = outfix
  BY <1>1, <1>2, <1>6, <1>7 DEF Range
<1>9. \A i, j \in DOMAIN names : names[i] = names[j] => i = j
  BY <1>1, <1>2, <1>4, <1>5, <1>6, <1>7
<1>10. \A x : x \in HeldBy(Range(names)) <=> \E n \in 1 .. l : x \in Due(GroupOrder[n])
  <2>1. \A x : x \in HeldBy(Range(names)) <=> \E n \in 1 .. l : x \in disk[names[n]].parts
    BY <1>2 DEF HeldBy, Range
  <2> QED BY <1>1, <1>2, <2>1
<1>11. \A x, k : x \in Due(k) <=> \E m \in DOMAIN Group(k) :
                                     x \in After(Held(Group(k)[m]), Group(k)[m].order \o Coming)
  BY DEF Due
<1>12. \A x : x \in Owed(Coming) <=> \E i \in DOMAIN file :
                                       x \in After(Held(file[i]), file[i].order \o Coming)
  BY DEF Owed
<1>13. ASSUME NEW x, NEW n \in 1 .. l, x \in Due(GroupOrder[n])
       PROVE  x \in Owed(Coming)
  <2>1. PICK k : k = GroupOrder[n]
    OBVIOUS
  <2>2. PICK m \in DOMAIN Group(k) : x \in After(Held(Group(k)[m]), Group(k)[m].order \o Coming)
    BY <1>11, <1>13, <2>1
  <2>3. PICK i \in DOMAIN file : Group(k)[m] = file[i]
    BY <1>3 DEF InGroups
  <2> QED BY <1>12, <2>2, <2>3
<1>14. ASSUME NEW x, x \in Owed(Coming)
       PROVE  \E n \in 1 .. l : x \in Due(GroupOrder[n])
  <2>1. PICK i \in DOMAIN file : x \in After(Held(file[i]), file[i].order \o Coming)
    BY <1>12, <1>14
  <2>2. PICK k \in Keys : k = file[i].key
    BY <1>3 DEF InKeys
  <2>3. PICK n \in 1 .. l : GroupOrder[n] = k
    BY <1>4, <1>5
  <2>4. PICK m \in DOMAIN Group(k) : Group(k)[m] = file[i]
    <3>1. PICK m \in 1 .. Len(Member(k)) : Member(k)[m] = i
      BY <1>3, <2>2 DEF InGroups
    <3>2. m \in DOMAIN Group(k) /\ Group(k)[m] = file[Member(k)[m]]
      BY <1>3 DEF InGroups
    <3> QED BY <3>1, <3>2
  <2>5. x \in Due(k)
    BY <1>11, <2>1, <2>4
  <2> QED BY <2>3, <2>5
<1>15. HeldBy(Range(names)) = Owed(Coming)
  BY <1>10, <1>13, <1>14
<1> QED BY <1>5, <1>8, <1>9, <1>15

\* The list is empty again.
LEMMA ReturnStep ==
  ASSUME Safe, Return
  PROVE  Safe'
<1>1. /\ ListTypes /\ Known /\ CacheTrue /\ Alone /\ Writing
      /\ phase = "single" /\ todo = <<>> /\ saved = "" /\ func' = <<>> /\ fCurr' = 1
      /\ phase' \in {"gone", "user"}
      /\ file' = file /\ outfix' = outfix /\ cache' = cache /\ disk' = disk /\ names' = names
      /\ saved' = saved /\ opened' = opened /\ promised' = promised
  BY DEF Safe, Return
<1>2. Apart /\ Prefixed /\ promised.parts = Owed(Coming)
  BY <1>1, ComingIs DEF Writing
<1>3. /\ HeldBy(Range(names)) = promised.parts
      /\ \A n \in Range(names) : n[1] = promised.prefix
      /\ \A i, j \in DOMAIN names : names[i] = names[j] => i = j
  BY <1>1, <1>2, WrittenAll DEF Prefixed
<1>4. Kept
  BY <1>1 DEF Kept
<1>5. Known' /\ CacheTrue' /\ Alone'
  BY <1>1, <1>4, KeptFiles
<1>6. ListTypes'
  <2>1. <<>> \in Seq(Ops)
    OBVIOUS
  <2> QED BY <1>1, <2>1 DEF ListTypes
<1>7. WellUsed'
  <2>1. DOMAIN func' = {}
    <3>1. DOMAIN <<>> = {}
      OBVIOUS
    <3> QED BY <1>1, <3>1
  <2>2. FewSingles'
    <3>1. FileTypes'
      BY <1>6 DEF FileTypes, ListTypes
    <3> QED BY <1>5, <3>1, GroupsLater
  <2> QED BY <2>1, <2>2 DEF WellUsed, FewSingles
<1>8. Apart'
  BY <1>1, <1>2, SameGroups
<1>9. outfix # "temp"
  BY <1>2, PrefixAssumption DEF Prefixed
<1>10. Resting'
  <2>1. HeldBy(Range(names))' = HeldBy(Range(names))
    BY <1>1 DEF HeldBy
  <2> QED BY <1>1, <1>3, <1>7, <1>8, <1>9, <2>1 DEF Resting
<1>11. Unwinding' /\ Writing' /\ Gathering'
  BY <1>1 DEF Unwinding, Writing, Gathering
<1> QED BY <1>5, <1>6, <1>10, <1>11 DEF Safe

\* The first output is still to be written.
LEMMA StartSingleStep ==
  ASSUME Safe, StartSingle
  PROVE  Safe'
<1>1. /\ ListTypes /\ Known /\ CacheTrue /\ Alone /\ Unwinding
      /\ phase = "unwind" /\ phase' = "single" /\ todo' = GroupOrder /\ names' = <<>>
      /\ \/ Current("single") /\ outfix' = outfix /\ saved' = saved
         \/ Current("gather") /\ Len(file) > 1 /\ saved' = outfix /\ outfix' = "temp"
      /\ file' = file /\ func' = func /\ cache' = cache /\ disk' = disk /\ fCurr' = fCurr
      /\ opened' = opened /\ promised' = promised
  BY DEF Safe, StartSingle, callVars
<1>2. Queued /\ Fit /\ Apart /\ Prefixed /\ file # <<>> /\ promised.parts = Owed(Left(fCurr))
  BY <1>1 DEF Unwinding
<1>3. Kept /\ SameList
  BY <1>1 DEF Kept, SameList
<1>4. Known' /\ CacheTrue' /\ Alone'
  BY <1>1, <1>3, KeptFiles
<1>5. /\ Left(fCurr)' = Left(fCurr) /\ Owed(Left(fCurr))' = Owed(Left(fCurr)) /\ Singles' = Singles
      /\ Queued' /\ \A kind : Current(kind)' <=> Current(kind)
  BY <1>1, <1>2, <1>3, KeptList
<1>6. GroupOrder' = GroupOrder /\ Apart' /\ (OneGroup' <=> OneGroup)
  BY <1>1, <1>2, SameGroups
<1>7. ListTypes'
  <2>1. <<>> \in Seq(DOMAIN disk')
    OBVIOUS
  <2>2. outfix' \in OutNames \cup {"", "temp"} /\ saved' \in OutNames \cup {""}
    BY <1>1, <1>2 DEF ListTypes, Prefixed
  <2> QED BY <1>1, <2>1, <2>2 DEF ListTypes
<1>8. Len(names') = 0 /\ DOMAIN names' = {}
  <2>1. Len(<<>>) = 0 /\ DOMAIN <<>> = {}
    OBVIOUS
  <2> QED BY <1>1, <2>1
<1>9. todo' = [i \in 1 .. Len(GroupOrder') - Len(names') |-> GroupOrder'[Len(names') + i]]
  <2>1. PICK s \in Seq(Keys) : s = GroupOrder
    BY <1>1, TypesAre, KeysIs
  <2>2. s = [i \in 1 .. Len(s) |-> s[i]] /\ Len(s) \in Nat
    OBVIOUS
  <2>3. Len(s) - 0 = Len(s) /\ \A i \in 1 .. Len(s) : 0 + i = i
    BY <2>2
  <2>4. s = [i \in 1 .. Len(s) - 0 |-> s[0 + i]]
    BY <2>2, <2>3
  <2> QED BY <1>1, <1>6, <1>8, <2>1, <2>4
<1>10. Len(names') <= Len(GroupOrder')
  <2>1. Len(GroupOrder) \in Nat
    BY <1>1, TypesAre, KeysIs
  <2> QED BY <1>6, <1>8, <2>1
<1>11. \/ Current("single")' /\ Prefixed' /\ promised'.parts = Owed(Coming)'
       \/ /\ Current("gather")' /\ saved' \in OutNames /\ outfix' = "temp" /\ promised'.prefix = saved'
          /\ OneGroup' /\ Len(file') > 1 /\ promised'.parts = Owed(Left(fCurr))'
  <2>1. CASE Current("single") /\ outfix' = outfix /\ saved' = saved
    <3>1. Prefixed'
      BY <1>1, <1>2, <2>1 DEF Prefixed
    <3>2. Coming' = Coming /\ Owed(Coming)' = Owed(Coming)
      BY <1>1, <1>3, <2>1, KeptComing
    <3>3. Coming = Left(fCurr)
      BY <1>1, <1>2, <2>1, AtSingle DEF Coming, Prefixed
    <3> QED BY <1>1, <1>2, <1>5, <2>1, <3>1, <3>2, <3>3
  <2>2. CASE Current("gather") /\ Len(file) > 1 /\ saved' = outfix /\ outfix' = "temp"
    <3>1. OneGroup
      <4>1. fCurr \in fCurr .. Len(func) /\ func[fCurr].kind = "gather"
        BY <1>1, <1>2, <2>2, AtIs
      <4> QED BY <1>2, <4>1 DEF Fit
    <3> QED BY <1>1, <1>2, <1>5, <1>6, <2>2, <3>1 DEF Prefixed
  <2> QED BY <1>1, <2>1, <2>2
<1>12. Writing'
  BY <1>1, <1>2, <1>5, <1>6, <1>8, <1>9, <1>10, <1>11 DEF Writing
<1>13. Resting' /\ Unwinding' /\ Gathering'
  BY <1>1 DEF Resting, Unwinding, Gathering, Idle
<1> QED BY <1>4, <1>7, <1>12, <1>13 DEF Safe

\* Two groups do not have the same files.
LEMMA DescOnce ==
  ASSUME ListTypes, Known, NEW j \in Keys, NEW k \in Keys, Desc(j) = Desc(k)
  PROVE  j = k
<1>1. InGroups /\ InKeys
  BY GroupIs, KeysIs, TypesAre DEF InKeys
<1>2. PICK i \in DOMAIN file : file[i].key = j
  BY <1>1 DEF InKeys
<1>3. PICK n \in 1 .. Len(Member(j)) : Member(j)[n] = i
  BY <1>1, <1>2 DEF InGroups
<1>4. n \in DOMAIN Group(j) /\ Group(j)[n] = file[i]
  BY <1>1, <1>3 DEF InGroups
<1>5. n \in DOMAIN Desc(j) /\ Desc(j)[n] = file[i].id
  BY <1>4 DEF Desc
<1>6. n \in DOMAIN Desc(k) /\ Desc(k)[n] = file[i].id
  BY <1>5
<1>7. n \in DOMAIN Group(k) /\ Group(k)[n].id = file[i].id
  BY <1>6 DEF Desc
<1>8. PICK m \in DOMAIN file : file[m].key = k /\ Group(k)[n] = file[m]
  BY <1>1, <1>7 DEF InGroups
<1>9. m = i
  BY <1>7, <1>8 DEF Known
<1> QED BY <1>2, <1>8, <1>9

\* The order of the sort before the next operation that is none takes the
\* place of all before it.
LEMMA SubsetStep ==
  ASSUME Safe, Subset
  PROVE  Safe'
<1> DEFINE p == PastRun("sort")
<1>1. /\ ListTypes /\ Known /\ CacheTrue /\ Alone /\ Unwinding
      /\ phase = "unwind" /\ phase' = "unwind" /\ Current("sort") /\ fCurr' = p
      /\ file' = [i \in DOMAIN file |-> [file[i] EXCEPT !.order = func[p - 1].does]]
      /\ cache' = cache \cup {GetCache(k) : k \in Keys}
      /\ func' = func /\ outfix' = outfix /\ disk' = disk /\ todo' = todo /\ names' = names
      /\ saved' = saved /\ opened' = opened /\ promised' = promised
  BY DEF Safe, Subset, callVars
<1>2. Queued /\ Fit /\ Apart /\ Prefixed /\ file # <<>> /\ promised.parts = Owed(Left(fCurr))
  BY <1>1 DEF Unwinding
<1>3. /\ fCurr \in 1 .. Len(func) /\ Len(func) \in Nat /\ func \in Seq(Ops) /\ func[Len(func)].kind # "sort"
      /\ file \in Seq(Opening) /\ Len(file) \in Nat /\ DOMAIN file = 1 .. Len(file)
      /\ \A i \in DOMAIN file : file[i] \in Opening
  BY <1>1, <1>2, AtIs, TypesAre
<1>4. /\ p \in fCurr + 1 .. Len(func) /\ \A i \in fCurr .. p - 1 : func[i].kind = "sort"
  BY <1>1, <1>3, PastRunIs
<1> HIDE DEF p
<1>5. PICK o \in Order : o = func[p - 1].does
  BY <1>3, <1>4, SortRun
<1>6. \A done \in Seq(Mark), q \in Order : Then(done, q \o Left(fCurr)) = Then(done, o \o Left(p))
  BY <1>3, <1>4, <1>5, SortRun
<1>7. /\ file' \in Seq(Opening) /\ DOMAIN file' = DOMAIN file /\ Len(file') = Len(file)
      /\ \A i \in DOMAIN file : /\ file'[i].id = file[i].id /\ file'[i].name = file[i].name
                                /\ file'[i].key = file[i].key /\ file'[i].order = o
  <2>1. \A i \in DOMAIN file : /\ [file[i] EXCEPT !.order = o] \in Opening
                               /\ [file[i] EXCEPT !.order = o].id = file[i].id
                               /\ [file[i] EXCEPT !.order = o].name = file[i].name
                               /\ [file[i] EXCEPT !.order = o].key = file[i].key
                               /\ [file[i] EXCEPT !.order = o].order = o
    BY <1>3 DEF Opening
  <2>2. PICK N \in Nat : N = Len(file)
    BY <1>3
  <2>3. PICK fs \in [1 .. N -> Opening] : fs = file'
    BY <1>1, <1>3, <1>5, <2>1, <2>2
  <2>4. fs \in Seq(Opening) /\ Len(fs) = N
    OBVIOUS
  <2>5. \A i \in DOMAIN file : file'[i] = [file[i] EXCEPT !.order = o]
    BY <1>1, <1>5
  <2> QED BY <1>3, <2>1, <2>2, <2>3, <2>4, <2>5
<1>8. ListTypes'
  <2>1. InGroups /\ \A k : Group(k) \in Seq(Opening)
    BY <1>3, GroupIs DEF InGroups
  <2>2. \A k : /\ Len(Group(k)) \in Nat /\ DOMAIN Group(k) = 1 .. Len(Group(k))
               /\ \A n \in DOMAIN Group(k) : Group(k)[n].id \in Nat /\ Held(Group(k)[n]) \in SUBSET Part
    <3>1. \A k : \A n \in DOMAIN Group(k) : Group(k)[n].id \in Nat /\ Held(Group(k)[n]) \in SUBSET Part
      BY <1>1, HeldIs DEF Opening
    <3> QED BY <2>1, <3>1 DEF InGroups
  <2>3. ASSUME NEW k
        PROVE  Desc(k) \in Seq(Nat) /\ Contents(k) \in Seq(SUBSET Part)
    <3>1. PICK N \in Nat : N = Len(Group(k))
      BY <2>2
    <3>2. PICK d \in [1 .. N -> Nat] : d = Desc(k)
      BY <2>2, <3>1 DEF Desc
    <3>3. PICK c \in [1 .. N -> SUBSET Part] : c = Contents(k)
      BY <2>2, <3>1 DEF Contents
    <3>4. d \in Seq(Nat)
      OBVIOUS
    <3>5. c \in Seq(SUBSET Part)
      OBVIOUS
    <3> QED BY <3>2, <3>3, <3>4, <3>5
  <2>4. \A k : GetCache(k) \in cache \/ GetCache(k) = [desc |-> Desc(k), seen |-> Contents(k)]
    BY DEF GetCache
  <2>5. \A k : GetCache(k) \in cache \/ GetCache(k) \in [desc : Seq(Nat), seen : Seq(SUBSET Part)]
    BY <2>3, <2>4
  <2>6. cache' \in SUBSET [desc : Seq(Nat), seen : Seq(SUBSET Part)]
    BY <1>1, <2>5 DEF ListTypes
  <2>7. fCurr' \in Nat
    BY <1>1, <1>3, <1>4
  <2> QED BY <1>1, <1>7, <2>6, <2>7 DEF ListTypes
<1>9. Known'
  <2>1. ASSUME NEW i \in DOMAIN file'
        PROVE  file'[i].name \in DOMAIN disk' /\ file'[i].id <= opened'
    BY <1>1, <1>7 DEF Known
  <2>2. ASSUME NEW i \in DOMAIN file', NEW j \in DOMAIN file', file'[i].id = file'[j].id
        PROVE  i = j
    BY <1>1, <1>7, <2>2 DEF Known
  <2> QED BY <1>1, <2>1, <2>2 DEF Known
<1>10. /\ Keys' = Keys
       /\ \A k : Member(k)' = Member(k)
  <2>1. \A k : Places(k)' = Places(k)
    BY <1>7 DEF Places
  <2>2. ASSUME NEW k
        PROVE  Member(k)' = Member(k)
    <3>1. Upward(Member(k), Places(k))
      BY DEF Upward, Member, InOrder
    <3>2. Upward(Member(k)', Places(k)')
      BY DEF Upward, Member, InOrder
    <3> QED BY <2>1, <3>1, <3>2 DEF Upward
  <2>3. Keys' = Keys
    BY <1>7 DEF Keys
  <2> QED BY <2>2, <2>3
<1>11. InGroups /\ InGroups'
  <2>1. FileTypes'
    BY <1>7 DEF FileTypes
  <2> QED BY <1>3, <2>1, GroupIs, GroupsLater
<1>12. \A k : Len(Group(k)') = Len(Group(k)) /\ Desc(k)' = Desc(k) /\ Contents(k)' = Contents(k)
  <2>1. ASSUME NEW k
        PROVE  /\ DOMAIN Group(k)' = DOMAIN Group(k) /\ Len(Group(k)') = Len(Group(k))
               /\ \A n \in DOMAIN Group(k) : /\ Group(k)'[n].id = Group(k)[n].id
                                             /\ Group(k)'[n].name = Group(k)[n].name
    <3>1. PICK s : s = Member(k)
      OBVIOUS
    <3>2. Member(k)' = s
      BY <1>10, <3>1
    <3>3. /\ Len(Group(k)) = Len(s) /\ DOMAIN Group(k) = 1 .. Len(s)
          /\ \A n \in 1 .. Len(s) : s[n] \in DOMAIN file /\ Group(k)[n] = file[s[n]]
      BY <1>11, <3>1 DEF InGroups
    <3>4. /\ Len(Group(k)') = Len(s) /\ DOMAIN Group(k)' = 1 .. Len(s)
          /\ \A n \in 1 .. Len(s) : Group(k)'[n] = file'[s[n]]
      BY <1>11, <3>2 DEF InGroups
    <3> QED BY <1>7, <3>3, <3>4
  <2>2. \A k : Desc(k)' = Desc(k)
    BY <2>1 DEF Desc
  <2>3. \A k : Contents(k)' = Contents(k)
    BY <1>1, <2>1 DEF Contents, Held
  <2> QED BY <2>1, <2>2, <2>3
<1>13. Alone'
  BY <1>1, <1>10, <1>12 DEF Alone
<1>14. CacheTrue'
  <2>1. ASSUME NEW c \in cache'
        PROVE  \/ c \in cache
               \/ \E j \in Keys : c.desc = Desc(j) /\ c.seen = Contents(j)
    <3>1. CASE c \in cache
      BY <3>1
    <3>2. CASE c \notin cache
      <4>1. PICK j \in Keys : c = GetCache(j)
        BY <1>1, <3>2
      <4>2. GetCache(j) = [desc |-> Desc(j), seen |-> Contents(j)]
        BY <3>2, <4>1 DEF GetCache
      <4> QED BY <4>1, <4>2
    <3> QED BY <3>1, <3>2
  <2>2. ASSUME NEW j, NEW i \in DOMAIN Desc(j)
        PROVE  Desc(j)[i] <= opened
    <3>1. i \in DOMAIN Group(j) /\ Desc(j)[i] = Group(j)[i].id
      BY DEF Desc
    <3>2. PICK m \in DOMAIN file : Group(j)[i] = file[m]
      BY <1>11, <3>1 DEF InGroups
    <3> QED BY <1>1, <3>1, <3>2 DEF Known
  <2>3. ASSUME NEW c \in cache', NEW i \in DOMAIN c.desc
        PROVE  c.desc[i] <= opened'
    BY <1>1, <2>1, <2>2 DEF CacheTrue
  <2>4. ASSUME NEW c \in cache', NEW k \in Keys, c.desc = Desc(k)
        PROVE  c.seen = Contents(k)
    <3>1. CASE c \in cache
      BY <1>1, <2>4, <3>1 DEF CacheTrue
    <3>2. CASE c \notin cache
      <4>1. PICK j \in Keys : c.desc = Desc(j) /\ c.seen = Contents(j)
        BY <2>1, <3>2
      <4>2. j = k
        BY <1>1, <2>4, <4>1, DescOnce
      <4> QED BY <4>1, <4>2
    <3> QED BY <3>1, <3>2
  <2> QED BY <1>10, <1>12, <2>3, <2>4 DEF CacheTrue
<1>15. Queued'
  <2>1. fCurr' \in 1 .. Len(func') /\ \A i \in fCurr' .. Len(func') : i \in fCurr .. Len(func)
    BY <1>1, <1>3, <1>4
  <2> QED BY <1>1, <1>2, <2>1 DEF Queued
<1>16. Fit'
  <2>1. \A i \in fCurr' .. Len(func') : i \in fCurr .. Len(func)
    BY <1>1, <1>3, <1>4
  <2>2. ASSUME NEW j \in fCurr' .. Len(func'), func'[j].kind = "gather"
        PROVE  OneGroup' /\ Len(file') # 1
    <3>1. j \in fCurr .. Len(func) /\ func[j].kind = "gather"
      BY <1>1, <2>1, <2>2
    <3>2. OneGroup /\ Len(file) # 1
      <4>1. fCurr \in fCurr .. Len(func) /\ func[fCurr].kind = "sort"
        BY <1>1, <1>2, AtIs
      <4> QED BY <1>2, <3>1, <4>1 DEF Fit
    <3> QED BY <1>7, <3>2 DEF OneGroup
  <2> QED BY <2>2 DEF Fit
<1>17. Apart' /\ Prefixed' /\ file' # <<>>
  <2>1. Apart'
    BY <1>2, <1>7 DEF Apart
  <2>2. Prefixed'
    BY <1>1, <1>2 DEF Prefixed
  <2>3. Len(file) # 0
    BY <1>2, <1>3, EmptySeq
  <2>4. file' # <<>>
    <3>1. Len(<<>>) = 0
      OBVIOUS
    <3> QED BY <1>7, <2>3, <3>1
  <2> QED BY <2>1, <2>2, <2>4
<1>18. promised'.parts = Owed(Left(fCurr))'
  <2>1. PICK m \in Seq(Mark) : m = Left(fCurr)
    BY <1>1, <1>2, LeftType
  <2>2. PICK r \in Seq(Mark) : r = Left(p)
    <3>1. p \in 1 .. Len(func) + 1
      BY <1>3, <1>4
    <3> QED BY <1>3, <3>1, LeftIs
  <2>3. Left(fCurr)' = r
    BY <1>1, <2>2 DEF Left
  <2>4. ASSUME NEW i \in DOMAIN file
        PROVE  After(Held(file[i]), file[i].order \o m) = After(Held(file[i]), o \o r)
    <3>1. PICK h \in SUBSET Part : h = Held(file[i])
      BY <1>1, HeldIs
    <3>2. PICK q \in Order : q = file[i].order
      BY <1>3 DEF Opening
    <3>3. q \in Seq(Mark) /\ o \in Seq(Mark)
      BY OrderIs
    <3>4. PICK a \in Seq(Mark) : a = q \o m
      BY <3>3, ConcatProperties
    <3>5. PICK b \in Seq(Mark) : b = o \o r
      BY <3>3, ConcatProperties
    <3>6. \A done \in Seq(Mark) : Then(done, a) = Then(done, b)
      BY <1>6, <2>1, <2>2, <3>4, <3>5
    <3>7. After(h, a) = After(h, b)
      BY <3>6, AfterSame
    <3> QED BY <3>1, <3>2, <3>4, <3>5, <3>7
  <2>5. Owed(Left(fCurr)) = UNION {After(Held(file[i]), file[i].order \o m) : i \in DOMAIN file}
    BY <2>1 DEF Owed
  <2>6. Owed(Left(fCurr))' = UNION {After(Held(file[i]), o \o r) : i \in DOMAIN file}
    <3>1. Owed(Left(fCurr))' = UNION {After(disk'[file'[i].name].parts, file'[i].order \o r) : i \in DOMAIN file'}
      BY <2>3 DEF Owed, Held
    <3>2. \A i \in DOMAIN file : disk'[file'[i].name].parts = Held(file[i]) /\ file'[i].order = o
      BY <1>1, <1>7 DEF Held
    <3> QED BY <1>7, <3>1, <3>2
  <2>7. Owed(Left(fCurr)) = Owed(Left(fCurr))'
    BY <2>4, <2>5, <2>6
  <2> QED BY <1>1, <1>2, <2>7
<1>19. Unwinding'
  BY <1>15, <1>16, <1>17, <1>18 DEF Unwinding
<1>20. Resting' /\ Writing' /\ Gathering'
  BY <1>1 DEF Resting, Writing, Gathering, Idle
<1> QED BY <1>8, <1>9, <1>13, <1>14, <1>19, <1>20 DEF Safe

\* A single file takes the place of the files of the set.
LEMMA Renewed ==
  ASSUME ListTypes, Known, CacheTrue, NEW n \in DOMAIN disk, NEW ns, ns = <<n>>, file' = Opened(ns),
         opened' = opened + 1, cache' = cache, disk' = disk
  PROVE  /\ file' \in Seq(Opening) /\ Len(file') = 1 /\ DOMAIN file' = {1}
         /\ file'[1].name = n /\ file'[1].order = <<>> /\ file'[1].id = opened + 1
         /\ Known' /\ CacheTrue' /\ Alone' /\ OneGroup'
         /\ \A marks \in Seq(Mark) : Owed(marks)' = After(disk[n].parts, marks)
<1>1. /\ n \in Roots \X Nat /\ disk[n].key \in Nat \ {0} /\ opened \in Nat
      /\ \A m \in DOMAIN disk : disk[m] \in Content
  BY DEF ListTypes, Content
<1>2. DOMAIN ns = {1} /\ ns[1] = n /\ DOMAIN ns = 1 .. 1
  <2>1. Len(ns) = 1 /\ ns \in Seq({n}) /\ ns[1] = n
    OBVIOUS
  <2> QED BY <2>1
<1>3. file' = [i \in 1 .. 1 |-> [id |-> opened + i, name |-> ns[i], key |-> disk[ns[i]].key, order |-> <<>>]]
  BY <1>2 DEF Opened
<1>4. file'[1] = [id |-> opened + 1, name |-> n, key |-> disk[n].key, order |-> <<>>]
  BY <1>2, <1>3
<1>5. file'[1] \in Opening
  <2>1. <<>> \in Order /\ opened + 1 \in Nat
    BY <1>1 DEF Order
  <2> QED BY <1>1, <1>4, <2>1 DEF Opening
<1>6. file' \in Seq(Opening) /\ Len(file') = 1 /\ DOMAIN file' = {1}
  <2>0. PICK N \in Nat : N = 1
    OBVIOUS
  <2>1. PICK fs \in [1 .. N -> Opening] : fs = file'
    <3>1. \A i \in 1 .. 1 : i = 1
      OBVIOUS
    <3>2. \A i \in 1 .. 1 : file'[i] \in Opening
      BY <1>5, <3>1
    <3> QED BY <1>3, <2>0, <3>2
  <2>2. fs \in Seq(Opening) /\ Len(fs) = N /\ DOMAIN fs = 1 .. N
    OBVIOUS
  <2> QED BY <2>0, <2>1, <2>2
<1>7. file'[1].name = n /\ file'[1].order = <<>> /\ file'[1].id = opened + 1
  BY <1>4
<1>8. InGroups' /\ InKeys'
  <2>1. FileTypes'
    BY <1>6 DEF FileTypes
  <2> QED BY <2>1, GroupsLater
<1>9. Known'
  <2>1. \A f \in DOMAIN Key : NameOf(f, 0) \in DOMAIN disk'
    BY DEF Known
  <2>2. opened + 1 <= opened'
    BY <1>1
  <2> QED BY <1>6, <1>7, <2>1, <2>2 DEF Known
<1>10. CacheTrue'
  <2>1. \A c \in cache' : \A i \in DOMAIN c.desc : c.desc[i] <= opened
    BY DEF CacheTrue
  <2>2. ASSUME NEW c \in cache', NEW i \in DOMAIN c.desc
        PROVE  c.desc[i] <= opened'
    <3>1. c.desc[i] \in Nat
      <4>1. c.desc \in Seq(Nat)
        BY DEF ListTypes
      <4>2. PICK d \in Seq(Nat) : d = c.desc
        BY <4>1
      <4>3. d[i] \in Nat
        BY <2>2, <4>2
      <4> QED BY <4>2, <4>3
    <3> QED BY <1>1, <2>1, <3>1
  <2>3. ASSUME NEW c \in cache', NEW k \in Keys'
        PROVE  c.desc # Desc(k)'
    <3>1. PICK m \in DOMAIN file' : file'[m].key = k
      BY <1>8 DEF InKeys
    <3>6. \A i \in DOMAIN file' : file'[i].key = k => \E p \in 1 .. Len(Member(k)') : Member(k)'[p] = i
      BY <1>8 DEF InGroups
    <3>2. PICK j \in 1 .. Len(Member(k)') : Member(k)'[j] = m
      BY <3>1, <3>6
    <3>3. j \in DOMAIN Group(k)' /\ Group(k)'[j] = file'[m]
      BY <1>8, <3>2 DEF InGroups
    <3>4. j \in DOMAIN Desc(k)' /\ Desc(k)'[j] = opened + 1
      BY <1>6, <1>7, <3>3 DEF Desc
    <3>5. ~(opened + 1 <= opened)
      BY <1>1
    <3> QED BY <2>1, <3>4, <3>5
  <2> QED BY <2>2, <2>3 DEF CacheTrue
<1>11. OneGroup'
  BY <1>6 DEF OneGroup
<1>12. Alone'
  <2>1. \A j, k \in Keys' : j = k
    BY <1>6, <1>8 DEF InKeys
  <2> QED BY <2>1 DEF Alone
<1>13. ASSUME NEW marks \in Seq(Mark)
       PROVE  Owed(marks)' = After(disk[n].parts, marks)
  <2>1. Owed(marks)' = UNION {After(disk'[file'[i].name].parts, file'[i].order \o marks) : i \in DOMAIN file'}
    BY DEF Owed, Held
  <2>2. <<>> \o marks = marks
    BY ConcatEmptySeq
  <2>3. \A i \in DOMAIN file' : disk'[file'[i].name].parts = disk[n].parts /\ file'[i].order \o marks = marks
    BY <1>6, <1>7, <2>2
  <2>4. PICK a : a = After(disk[n].parts, marks)
    OBVIOUS
  <2>5. \A i \in DOMAIN file' : After(disk'[file'[i].name].parts, file'[i].order \o marks) = a
    BY <2>3, <2>4
  <2>6. \A x : x \in Owed(marks)' <=> \E i \in DOMAIN file' : x \in a
    BY <2>1, <2>5
  <2>7. \A x : x \in Owed(marks)' <=> x \in a
    BY <1>6, <2>6
  <2>8. Owed(marks)' = a
    BY <2>7
  <2> QED BY <2>4, <2>8
<1> QED BY <1>6, <1>7, <1>9, <1>10, <1>11, <1>12, <1>13

\* What is still to be done may be done to the files that startSingle has made.
LEMMA OwedAfter ==
  ASSUME ListTypes, Known, NEW marks \in Seq(Mark), NEW none, none = <<>>
  PROVE  Owed(none) \in SUBSET Part /\ Owed(marks) = After(Owed(none), marks)
<1>1. \A i \in DOMAIN file : Held(file[i]) \in SUBSET Part /\ file[i].order \in Order
  BY HeldIs DEF Opening
<1>2. ASSUME NEW i \in DOMAIN file
      PROVE  /\ After(Held(file[i]), file[i].order \o none) \in SUBSET Part
             /\ After(After(Held(file[i]), file[i].order \o none), marks)
                  = After(Held(file[i]), file[i].order \o marks)
  <2>1. PICK h \in SUBSET Part : h = Held(file[i])
    BY <1>1
  <2>2. PICK o \in Order : o = file[i].order
    BY <1>1
  <2>3. o \in Seq(Mark)
    BY OrderIs
  <2>4. o \o none = o
    BY <2>3, ConcatEmptySeq
  <2>5. After(h, o) \in SUBSET Part
    BY <2>3, AfterIs
  <2>6. After(After(h, o), marks) = After(h, o \o marks)
    BY AfterAfter
  <2> QED BY <2>1, <2>2, <2>4, <2>5, <2>6
<1>3. Owed(none) \in SUBSET Part
  BY <1>2 DEF Owed
<1>4. PICK all \in SUBSET Part : all = Owed(none)
  BY <1>3
<1>5. \A x : x \in After(all, marks) <=> \E q \in all : x = Marked(q, marks)
  BY AfterIs
<1>6. \A q : q \in all <=> \E i \in DOMAIN file : q \in After(Held(file[i]), file[i].order \o none)
  BY <1>4 DEF Owed
<1>7. ASSUME NEW i \in DOMAIN file
      PROVE  \A x : x \in After(Held(file[i]), file[i].order \o marks)
                      <=> \E q \in After(Held(file[i]), file[i].order \o none) : x = Marked(q, marks)
  <2>1. PICK s \in SUBSET Part : s = After(Held(file[i]), file[i].order \o none)
    BY <1>2
  <2>2. \A x : x \in After(s, marks) <=> \E q \in s : x = Marked(q, marks)
    BY AfterIs
  <2> QED BY <1>2, <2>1, <2>2
<1>8. \A x : x \in Owed(marks) <=> \E i \in DOMAIN file : x \in After(Held(file[i]), file[i].order \o marks)
  BY DEF Owed
<1>9. ASSUME NEW x
      PROVE  x \in Owed(marks) <=> x \in After(all, marks)
  <2>1. ASSUME x \in Owed(marks)
        PROVE  x \in After(all, marks)
    <3>1. PICK i \in DOMAIN file : x \in After(Held(file[i]), file[i].order \o marks)
      BY <1>8, <2>1
    <3>2. PICK q \in After(Held(file[i]), file[i].order \o none) : x = Marked(q, marks)
      BY <1>7, <3>1
    <3>3. q \in all
      BY <1>6, <3>2
    <3> QED BY <1>5, <3>2, <3>3
  <2>2. ASSUME x \in After(all, marks)
        PROVE  x \in Owed(marks)
    <3>1. PICK q \in all : x = Marked(q, marks)
      BY <1>5, <2>2
    <3>2. PICK i \in DOMAIN file : q \in After(Held(file[i]), file[i].order \o none)
      BY <1>6, <3>1
    <3>3. x \in After(Held(file[i]), file[i].order \o marks)
      BY <1>7, <3>1, <3>2
    <3> QED BY <1>8, <3>3
  <2> QED BY <2>1, <2>2
<1>10. Owed(marks) = After(all, marks)
  BY <1>9
<1> QED BY <1>3, <1>4, <1>10

\* The temporary file of the only group takes the place of the files: what it
\* holds has the sort behind it.
LEMMA ReopenStep ==
  ASSUME Safe, Reopen
  PROVE  Safe'
<1>1. /\ ListTypes /\ Known /\ CacheTrue /\ Alone /\ Writing
      /\ phase = "single" /\ todo = <<>> /\ saved # "" /\ outfix' = saved /\ saved' = ""
      /\ file' = Opened(names) /\ opened' = opened + Len(names) /\ phase' = "gather" /\ todo' = file'
      /\ func' = func /\ cache' = cache /\ disk' = disk /\ fCurr' = fCurr /\ names' = names
      /\ promised' = promised
  BY DEF Safe, Reopen, callVars
<1>2. /\ Coming = <<>> /\ Current("gather") /\ saved \in OutNames /\ outfix = "temp"
      /\ promised.prefix = saved /\ OneGroup /\ promised.parts = Owed(Left(fCurr))
  BY <1>1, ComingIs
<1>3. Queued /\ file # <<>>
  BY <1>1 DEF Writing
<1>4. /\ Len(names) = Len(GroupOrder) /\ HeldBy(Range(names)) = Owed(Coming)
      /\ \A n \in Range(names) : n[1] = outfix
  BY <1>1, WrittenAll
<1>5. /\ file \in Seq(Opening) /\ Len(file) \in Nat /\ DOMAIN file = 1 .. Len(file)
      /\ names \in Seq(DOMAIN disk) /\ DOMAIN names = 1 .. Len(names)
  BY <1>1, TypesAre
<1>6. Len(GroupOrder) = 1
  <2>1. /\ GroupOrder \in Seq(Keys) /\ Len(GroupOrder) \in Nat
        /\ \A k : k \in Keys <=> \E i \in DOMAIN file : file[i].key = k
        /\ \A k \in Keys : \E n \in 1 .. Len(GroupOrder) : GroupOrder[n] = k
        /\ \A m, n \in 1 .. Len(GroupOrder) : GroupOrder[m] = GroupOrder[n] => m = n
    BY <1>5, KeysIs
  <2>2. 1 \in DOMAIN file
    <3>1. Len(file) # 0
      BY <1>3, <1>5, EmptySeq
    <3> QED BY <1>5, <3>1
  <2>3. PICK k : k = file[1].key
    OBVIOUS
  <2>4. k \in Keys /\ \A j \in Keys : j = k
    BY <1>2, <2>1, <2>2, <2>3 DEF OneGroup
  <2>5. PICK n \in 1 .. Len(GroupOrder) : GroupOrder[n] = k
    BY <2>1, <2>4
  <2>6. \A m \in 1 .. Len(GroupOrder) : GroupOrder[m] = k
    BY <2>1, <2>4, ElementOfSeq
  <2>7. \A m \in 1 .. Len(GroupOrder) : m = n
    BY <2>1, <2>5, <2>6
  <2>8. PICK L \in Nat : L = Len(GroupOrder)
    BY <2>1
  <2>9. 1 \in 1 .. L /\ L \in 1 .. L
    BY <2>5, <2>8
  <2>10. L = 1
    BY <2>7, <2>8, <2>9
  <2> QED BY <2>8, <2>10
<1>7. PICK n \in DOMAIN disk : names = <<n>>
  <2>1. names[1] \in DOMAIN disk
    <3>1. PICK s \in Seq(DOMAIN disk) : s = names /\ Len(s) = 1
      BY <1>4, <1>5, <1>6
    <3>2. s[1] \in DOMAIN disk
      BY <3>1, ElementOfSeq
    <3> QED BY <3>1, <3>2
  <2>2. PICK n \in DOMAIN disk : n = names[1]
    BY <2>1
  <2>3. names = <<n>>
    <3>1. <<n>> \in Seq(DOMAIN disk) /\ Len(<<n>>) = 1 /\ <<n>>[1] = n
      OBVIOUS
    <3>2. \A i \in 1 .. Len(names) : names[i] = <<n>>[i]
      BY <1>4, <1>6, <2>2, <3>1
    <3> QED BY <1>4, <1>5, <1>6, <3>1, <3>2, SeqEqual
  <2> QED BY <2>3
<1>8. opened' = opened + 1
  BY <1>1, <1>4, <1>6
<1>9. /\ file' \in Seq(Opening) /\ Len(file') = 1 /\ DOMAIN file' = {1}
      /\ file'[1].name = n /\ file'[1].order = <<>>
      /\ Known' /\ CacheTrue' /\ Alone'
      /\ \A marks \in Seq(Mark) : Owed(marks)' = After(disk[n].parts, marks)
  BY <1>1, <1>7, <1>8, Renewed
<1>10. n \in Range(names) /\ Range(names) = {n}
  <2>1. DOMAIN names = {1} /\ names[1] = n
    BY <1>4, <1>5, <1>6, <1>7
  <2> QED BY <2>1 DEF Range
<1>11. n # Gtemp
  <2>1. n[1] = "temp"
    BY <1>2, <1>4, <1>10
  <2>2. Gtemp[1] = "gtemp"
    BY DEF Gtemp, NameOf
  <2>3. "temp" # "gtemp"
    OBVIOUS
  <2> QED BY <2>1, <2>2, <2>3
<1>12. disk[n].parts = Owed(Coming)
  <2>1. HeldBy(Range(names)) = disk[n].parts
    BY <1>10 DEF HeldBy
  <2> QED BY <1>4, <2>1
<1>13. promised'.parts = Owed(Left(fCurr))'
  <2>1. PICK m \in Seq(Mark) : m = Left(fCurr)
    BY <1>1, <1>3, LeftType
  <2>2. Left(fCurr)' = m
    BY <1>1, <2>1 DEF Left
  <2>3. Owed(Left(fCurr))' = Owed(m)'
    BY <2>2 DEF Owed
  <2>4. PICK none : none = <<>>
    OBVIOUS
  <2>5. Owed(m) = After(Owed(none), m)
    BY <1>1, <2>4, OwedAfter
  <2>6. Coming = none
    BY <1>2, <2>4
  <2>7. disk[n].parts = Owed(none)
    BY <1>12, <2>6
  <2>8. Owed(m)' = After(disk[n].parts, m)
    BY <1>9
  <2> QED BY <1>1, <1>2, <2>1, <2>3, <2>5, <2>7, <2>8
<1>14. Queued' /\ Current("gather")'
  BY <1>1, <1>2, <1>3 DEF Queued, Current
<1>15. Gathering'
  <2>1. Prefixed'
    BY <1>1, <1>2 DEF Prefixed
  <2> QED BY <1>1, <1>9, <1>11, <1>13, <1>14, <2>1 DEF Gathering
<1>16. ListTypes'
  <2>1. opened' \in Nat
    <3>1. opened \in Nat
      BY <1>1 DEF ListTypes
    <3> QED BY <1>8, <3>1
  <2>2. outfix' \in OutNames \cup {"", "temp"} /\ saved' \in OutNames \cup {""}
    BY <1>1, <1>2
  <2> QED BY <1>1, <1>9, <2>1, <2>2 DEF ListTypes
<1>17. Resting' /\ Unwinding' /\ Writing'
  BY <1>1 DEF Resting, Unwinding, Writing, Idle
<1> QED BY <1>9, <1>15, <1>16, <1>17 DEF Safe

LEMMA StartGatherStep ==
  ASSUME Safe, StartGather
  PROVE  Safe'
<1>1. /\ ListTypes /\ Known /\ CacheTrue /\ Alone /\ Unwinding
      /\ phase = "unwind" /\ Current("gather") /\ Len(file) = 1 /\ phase' = "gather" /\ todo' = file
      /\ file' = file /\ func' = func /\ outfix' = outfix /\ cache' = cache /\ disk' = disk
      /\ fCurr' = fCurr /\ names' = names /\ saved' = saved /\ opened' = opened /\ promised' = promised
  BY DEF Safe, StartGather, callVars
<1>2. Queued /\ Fit /\ Apart /\ Prefixed /\ file # <<>> /\ promised.parts = Owed(Left(fCurr))
  BY <1>1 DEF Unwinding
<1>3. file[1].name # Gtemp /\ file[1].order = <<>>
  <2>1. fCurr \in fCurr .. Len(func) /\ func[fCurr].kind = "gather"
    BY <1>1, <1>2, AtIs
  <2> QED BY <1>1, <1>2, <2>1 DEF Fit
<1>4. Kept /\ SameList
  BY <1>1 DEF Kept, SameList
<1>5. Known' /\ CacheTrue' /\ Alone'
  BY <1>1, <1>4, KeptFiles
<1>6. Owed(Left(fCurr))' = Owed(Left(fCurr)) /\ Queued' /\ Current("gather")'
  BY <1>1, <1>2, <1>4, KeptList
<1>7. Prefixed'
  BY <1>1, <1>2 DEF Prefixed
<1>8. Gathering'
  BY <1>1, <1>2, <1>3, <1>6, <1>7 DEF Gathering
<1>9. ListTypes'
  BY <1>1 DEF ListTypes
<1>10. Resting' /\ Unwinding' /\ Writing'
  BY <1>1 DEF Resting, Unwinding, Writing, Idle
<1> QED BY <1>5, <1>8, <1>9, <1>10 DEF Safe

\* A gather operation that comes last but one is applied with what is left.
LEMMA AtGather ==
  ASSUME ListTypes, Queued, Current("gather")
  PROVE  /\ InGather[fCurr] = Left(fCurr) /\ Left(Len(func)) = <<>>
         /\ Left(fCurr) \in Seq(Mark) /\ func[fCurr].key \in Nat \ {0}
<1>1. /\ fCurr \in 1 .. Len(func) /\ Len(func) \in Nat /\ func[fCurr].kind = "gather"
      /\ func[Len(func)].kind = "single" /\ func[Len(func)].does = <<>> /\ fCurr = Len(func) - 1
      /\ func \in Seq(Ops) /\ DOMAIN func = 1 .. Len(func) /\ func[fCurr] \in Ops
  BY AtIs, TypesAre
<1>2. PICK j \in 1 .. Len(func) : j = fCurr
  BY <1>1
<1>3. PICK l \in 1 .. Len(func) : l = Len(func) /\ l = j + 1
  BY <1>1, <1>2
<1>4. IsKind(j, "gather") /\ IsKind(j + 1, "single")
  BY <1>1, <1>2, <1>3 DEF IsKind
<1>5. InGather[j] = func[j].does \o Singles[j + 1]
  <2>1. j \in 1 .. Len(func) + 2
    BY <1>1
  <2> QED BY <1>1, <1>4, <2>1, InGatherIs
<1>6. Left(j) = func[j].does \o Left(j + 1)
  BY <1>1, LeftIs
<1>7. Singles[l] = Left(l)
  <2>1. PICK i \in 1 .. Len(func) + 1 : i = l
    BY <1>1
  <2>2. \A m \in i .. Len(func) : m = Len(func)
    BY <1>1, <1>3, <2>1
  <2>3. \A m \in i .. Len(func) : func[m].kind = "single"
    BY <1>1, <2>2
  <2> QED BY <1>1, <2>1, <2>3, SinglesLeft
<1>8. Left(l) = <<>>
  <2>1. Left(l) = func[l].does \o Left(l + 1) /\ Left(Len(func) + 1) = <<>>
    BY <1>1, LeftIs
  <2>2. <<>> \o <<>> = <<>>
    OBVIOUS
  <2> QED BY <1>1, <1>3, <2>1, <2>2
<1>9. func[fCurr].key \in GatherKeys
  BY <1>1, OpsDo
<1> QED BY <1>2, <1>3, <1>5, <1>6, <1>7, <1>8, <1>9, LeftType, KeyAssumption

\* gtemp.segy is written from the only file.
LEMMA GatherStep ==
  ASSUME Safe, GatherFile
  PROVE  Safe'
<1>1. /\ ListTypes /\ Known /\ CacheTrue /\ Alone /\ Gathering
      /\ phase = "gather" /\ todo # <<>> /\ phase' = "gather" /\ todo' = Tail(todo)
      /\ Put(Gtemp, func[fCurr].key, After(Held(Head(todo)), InGather[fCurr]))
      /\ file' = file /\ func' = func /\ outfix' = outfix /\ cache' = cache
      /\ fCurr' = fCurr /\ names' = names /\ saved' = saved /\ opened' = opened /\ promised' = promised
  BY DEF Safe, GatherFile, callVars
<1>2. /\ Queued /\ Current("gather") /\ Prefixed
      /\ Len(file) = 1 /\ file[1].name # Gtemp /\ file[1].order = <<>>
      /\ todo = file /\ promised.parts = Owed(Left(fCurr))
  BY <1>1 DEF Gathering
<1>3. /\ file \in Seq(Opening) /\ DOMAIN file = {1} /\ Head(todo) = file[1] /\ todo' = <<>>
  <2>1. file \in Seq(Opening) /\ DOMAIN file = 1 .. 1
    BY <1>1, <1>2, TypesAre
  <2>2. Head(file) = file[1] /\ file # <<>>
    BY <1>1, <1>2, <2>1
  <2>3. Tail(file) \in Seq(Opening) /\ Len(Tail(file)) = 0
    BY <1>2, <2>1, <2>2, HeadTailProperties
  <2>4. Tail(file) = <<>>
    BY <2>3, EmptySeq
  <2> QED BY <1>1, <1>2, <2>1, <2>2, <2>4
<1>4. PICK m \in Seq(Mark) : m = Left(fCurr) /\ m = InGather[fCurr]
  BY <1>1, <1>2, AtGather
<1>5. PICK h \in SUBSET Part : h = Held(file[1])
  BY <1>1, <1>3, HeldIs
<1>6. PICK parts \in SUBSET Part : parts = After(h, m)
  BY AfterIs
<1>7. Owed(Left(fCurr)) = parts
  <2>1. <<>> \o m = m
    BY ConcatEmptySeq
  <2>2. Owed(Left(fCurr)) = UNION {After(Held(file[i]), file[i].order \o m) : i \in DOMAIN file}
    BY <1>4 DEF Owed
  <2>3. \A i \in DOMAIN file : After(Held(file[i]), file[i].order \o m) = parts
    BY <1>2, <1>3, <1>5, <1>6, <2>1
  <2>4. \A x : x \in Owed(Left(fCurr)) <=> \E i \in DOMAIN file : x \in parts
    BY <2>2, <2>3
  <2>5. \A x : x \in Owed(Left(fCurr)) <=> x \in parts
    BY <1>3, <2>4
  <2> QED BY <2>5
<1>8. PICK k \in Nat \ {0} : k = func[fCurr].key
  BY <1>1, <1>2, AtGather
<1>9. PICK n \in Roots \X Nat : n = Gtemp
  BY DEF Gtemp, NameOf, Roots
<1>10. n \notin Names(file)
  BY <1>2, <1>3, <1>9 DEF Names
<1>11. Put(n, k, parts)
  BY <1>1, <1>2, <1>3, <1>4, <1>5, <1>6, <1>8, <1>9
<1>12. /\ Kept /\ DOMAIN disk' = DOMAIN disk \cup {n} /\ disk'[n].parts = parts
       /\ DOMAIN disk' \subseteq Roots \X Nat /\ \A d \in DOMAIN disk' : disk'[d] \in Content
  BY <1>1, <1>10, <1>11, PutIs
<1>13. SameList
  BY <1>1 DEF SameList
<1>14. Known' /\ CacheTrue' /\ Alone'
  BY <1>1, <1>12, KeptFiles
<1>15. Queued' /\ Current("gather")'
  BY <1>1, <1>2, <1>12, <1>13, KeptList
<1>16. Gathering'
  <2>1. Prefixed'
    BY <1>1, <1>2 DEF Prefixed
  <2>2. Gtemp \in DOMAIN disk' /\ promised'.parts = disk'[Gtemp].parts
    BY <1>1, <1>2, <1>7, <1>9, <1>12
  <2> QED BY <1>1, <1>2, <1>3, <1>15, <2>1, <2>2 DEF Gathering, Gtemp
<1>17. ListTypes'
  <2>1. names \in Seq(DOMAIN disk')
    BY <1>1, <1>12, TypesAre, SeqMonotonic
  <2> QED BY <1>1, <1>12, <2>1 DEF ListTypes
<1>18. Resting' /\ Unwinding' /\ Writing'
  BY <1>1 DEF Resting, Unwinding, Writing, Idle
<1> QED BY <1>14, <1>16, <1>17, <1>18 DEF Safe

\* Only the operation that output() has added is left for gtemp.segy.
LEMMA EndGatherStep ==
  ASSUME Safe, EndGather
  PROVE  Safe'
<1>1. /\ ListTypes /\ Known /\ CacheTrue /\ Alone /\ Gathering
      /\ phase = "gather" /\ todo = <<>> /\ phase' = "unwind"
      /\ file' = Opened(<<Gtemp>>) /\ opened' = opened + 1 /\ fCurr' = PastRun("gather")
      /\ func' = func /\ outfix' = outfix /\ cache' = cache /\ disk' = disk /\ todo' = todo
      /\ names' = names /\ saved' = saved /\ promised' = promised
  BY DEF Safe, EndGather, callVars
<1>2. /\ Queued /\ Current("gather") /\ Prefixed /\ Len(file) = 1
      /\ Gtemp \in DOMAIN disk /\ promised.parts = disk[Gtemp].parts
  <2>1. Len(<<>>) = 0
    OBVIOUS
  <2> QED BY <1>1, <2>1 DEF Gathering
<1>3. /\ fCurr \in 1 .. Len(func) /\ Len(func) \in Nat /\ func \in Seq(Ops)
      /\ fCurr = Len(func) - 1 /\ func[Len(func)].kind = "single"
  BY <1>1, <1>2, AtIs, TypesAre
<1>4. fCurr' = Len(func)
  <2>1. func[Len(func)].kind # "gather"
    BY <1>3
  <2>2. PastRun("gather") \in fCurr + 1 .. Len(func)
    BY <1>2, <1>3, <2>1, PastRunIs
  <2> QED BY <1>1, <1>3, <2>2
<1>5. PICK n \in DOMAIN disk : n = Gtemp
  BY <1>2
<1>6. PICK ns : ns = <<n>> /\ file' = Opened(ns)
  BY <1>1, <1>5
<1>7. /\ file' \in Seq(Opening) /\ Len(file') = 1 /\ DOMAIN file' = {1}
      /\ file'[1].name = n /\ file'[1].order = <<>>
      /\ Known' /\ CacheTrue' /\ Alone'
      /\ \A marks \in Seq(Mark) : Owed(marks)' = After(disk[n].parts, marks)
  BY <1>1, <1>6, Renewed
<1>8. promised'.parts = Owed(Left(fCurr))'
  <2>1. PICK none \in Seq(Mark) : none = <<>>
    <3>1. <<>> \in Seq(Mark)
      OBVIOUS
    <3> QED BY <3>1
  <2>2. Left(fCurr)' = none
    <3>1. Left(fCurr)' = Left(Len(func))
      BY <1>1, <1>4 DEF Left
    <3> QED BY <1>1, <1>2, <2>1, <3>1, AtGather
  <2>3. Owed(Left(fCurr))' = Owed(none)'
    BY <2>2 DEF Owed
  <2>4. PICK h \in SUBSET Part : h = disk[n].parts
    BY <1>1 DEF ListTypes, Content
  <2>5. After(h, none) = h
    BY <2>1, AfterNone
  <2>6. Owed(none)' = After(h, none)
    BY <1>7, <2>4
  <2> QED BY <1>1, <1>2, <1>5, <2>3, <2>4, <2>5, <2>6
<1>9. \A i \in fCurr' .. Len(func') : i = Len(func) /\ i \in fCurr .. Len(func)
  BY <1>1, <1>3, <1>4
<1>10. Queued'
  <2>1. fCurr' \in 1 .. Len(func')
    BY <1>1, <1>3, <1>4
  <2> QED BY <1>1, <1>2, <1>9, <2>1 DEF Queued
<1>11. Fit'
  BY <1>1, <1>3, <1>9 DEF Fit
<1>12. Apart' /\ Prefixed' /\ file' # <<>>
  <2>1. n[1] = "gtemp"
    BY <1>5 DEF Gtemp, NameOf
  <2>2. Apart'
    BY <1>7, <2>1 DEF Apart
  <2>3. Prefixed'
    BY <1>1, <1>2 DEF Prefixed
  <2>4. Len(<<>>) = 0
    OBVIOUS
  <2>5. file' # <<>>
    <3>1. PICK fs \in Seq(Opening) : fs = file' /\ Len(fs) = 1
      BY <1>7
    <3> QED BY <2>4, <3>1
  <2> QED BY <2>2, <2>3, <2>5
<1>13. Unwinding'
  BY <1>8, <1>10, <1>11, <1>12 DEF Unwinding
<1>14. ListTypes'
  <2>1. opened' \in Nat /\ fCurr' \in Nat
    <3>1. opened \in Nat
      BY <1>1 DEF ListTypes
    <3> QED BY <1>1, <1>3, <1>4, <3>1
  <2> QED BY <1>1, <1>7, <2>1 DEF ListTypes
<1>15. Resting' /\ Writing' /\ Gathering'
  BY <1>1 DEF Resting, Writing, Gathering, Idle
<1> QED BY <1>7, <1>13, <1>14, <1>15 DEF Safe

\* A list that suits the unwinding still does with the operation that output()
\* puts at its end.
LEMMA UnwindStep ==
  ASSUME Safe, phase = "user", file # <<>>, NEW p \in OutNames, Unwind(p)
  PROVE  Safe'
<1>1. /\ ListTypes /\ Known /\ CacheTrue /\ Alone
      /\ WellUsed /\ Apart /\ saved = ""
      /\ func' = Append(func, NoOp) /\ outfix' = p /\ phase' = "unwind" /\ fCurr' = 1
      /\ promised' = [prefix |-> p, parts |-> Promise]
      /\ file' = file /\ cache' = cache /\ disk' = disk /\ todo' = todo /\ names' = names
      /\ saved' = saved /\ opened' = opened
  BY DEF Safe, Resting, Idle, Unwind
<1> DEFINE l == Len(func)
<1>2. /\ func \in Seq(Ops) /\ l \in Nat /\ DOMAIN func = 1 .. l /\ \A i \in 1 .. l : func[i] \in Ops
      /\ file \in Seq(Opening)
  BY <1>1, TypesAre
<1>3. NoOp \in Ops /\ NoOp.kind = "single"
  BY DEF Ops, NoOp
<1>4. /\ func' \in Seq(Ops) /\ Len(func') = l + 1 /\ func'[l + 1] = NoOp
      /\ \A i \in 1 .. l : func'[i] = func[i]
  <2>1. PICK s \in Seq(Ops) : s = func
    BY <1>2
  <2>2. PICK op \in Ops : op = NoOp
    BY <1>3
  <2>3. PICK t : t = Append(s, op)
    OBVIOUS
  <2>4. t \in Seq(Ops) /\ Len(t) = Len(s) + 1 /\ t[Len(s) + 1] = op /\ \A i \in 1 .. Len(s) : t[i] = s[i]
    BY <2>3, AppendProperties
  <2> QED BY <1>1, <2>1, <2>2, <2>3, <2>4
<1>5. Kept
  BY <1>1 DEF Kept
<1>6. Known' /\ CacheTrue' /\ Alone'
  BY <1>1, <1>5, KeptFiles
<1>7. /\ \A i, j \in 1 .. l : i < j => func[i].kind # "gather" /\ (func[i].kind = "sort" \/ func[j].kind = "single")
      /\ (\E i \in 1 .. l : func[i].kind = "gather") =>
           /\ FewKeys
           /\ \/ Len(file) # 1
              \/ /\ file[1].name # Gtemp
                 /\ file[1].order = <<>>
                 /\ \A i \in 1 .. l : func[i].kind # "sort"
  BY <1>1, <1>2 DEF WellUsed, FewKeys
<1>8. \A i \in 1 .. l + 1 : i \in 1 .. l \/ i = l + 1
  BY <1>2
<1>9. Queued'
  <2>1. fCurr' \in 1 .. Len(func') /\ func'[Len(func')] = NoOp
    <3>1. 1 \in 1 .. l + 1
      <4>1. l \in Nat
        BY <1>2
      <4> HIDE DEF l
      <4> QED BY <4>1
    <3> QED BY <1>1, <1>4, <3>1
  <2>2. ASSUME NEW i \in 1 .. l + 1, NEW j \in 1 .. l + 1, i < j
        PROVE  func'[i].kind = "sort" \/ func'[j].kind = "single"
    <3>1. CASE j = l + 1
      BY <1>3, <1>4, <3>1
    <3>2. CASE j # l + 1
      <4>1. i \in 1 .. l /\ j \in 1 .. l
        BY <1>2, <2>2, <3>2
      <4> QED BY <1>4, <1>7, <2>2, <4>1
    <3> QED BY <3>1, <3>2
  <2>3. ASSUME NEW i \in 1 .. l + 1, func'[i].kind = "gather"
        PROVE  i = (l + 1) - 1
    <3>1. i \in 1 .. l
      BY <1>3, <1>4, <1>8, <2>3
    <3>2. func[i].kind = "gather"
      BY <1>4, <2>3, <3>1
    <3>3. l \in 1 .. l /\ (i = l \/ i < l)
      <4>1. l \in Nat /\ i \in 1 .. l
        BY <1>2, <3>1
      <4> HIDE DEF l
      <4> QED BY <4>1
    <3>4. i = l
      BY <1>7, <3>1, <3>2, <3>3
    <3> QED BY <1>2, <3>4
  <2> QED BY <1>1, <1>4, <2>1, <2>2, <2>3 DEF Queued
<1>10. Fit'
  <2>1. ASSUME NEW j \in 1 .. l + 1, func'[j].kind = "gather"
        PROVE  /\ OneGroup
               /\ Len(file) = 1 => /\ file[1].name # Gtemp /\ file[1].order = <<>>
                                   /\ \A i \in 1 .. l + 1 : func'[i].kind # "sort"
    <3>1. j \in 1 .. l /\ func[j].kind = "gather"
      BY <1>3, <1>4, <1>8, <2>1
    <3>2. FewKeys
      BY <1>7, <3>1
    <3>3. OneGroup
      BY <1>2, <3>2, AloneIs DEF FewKeys
    <3>4. Len(file) = 1 => file[1].name # Gtemp /\ file[1].order = <<>> /\ \A i \in 1 .. l : func[i].kind # "sort"
      BY <1>7, <3>1
    <3>5. ASSUME Len(file) = 1, NEW i \in 1 .. l + 1
          PROVE  func'[i].kind # "sort"
      BY <1>3, <1>4, <1>8, <3>4, <3>5
    <3> QED BY <3>3, <3>4, <3>5
  <2> QED BY <1>1, <1>4, <2>1 DEF Fit, OneGroup
<1>11. promised'.parts = Owed(Left(fCurr))'
  <2>1. PICK longer \in Seq(Ops) : longer = func'
    BY <1>4
  <2>2. Left(fCurr)' = FlattenSeq([i \in 1 .. Len(longer) |-> longer[i].does])
    <3>1. Left(fCurr)' = FlattenSeq([i \in 1 .. Len(longer) - 1 + 1 |-> longer[1 + i - 1].does])
      BY <1>1, <2>1 DEF Left
    <3>2. Len(longer) - 1 + 1 = Len(longer) /\ \A i \in 1 .. Len(longer) : 1 + i - 1 = i
      OBVIOUS
    <3>3. [i \in 1 .. Len(longer) - 1 + 1 |-> longer[1 + i - 1].does] = [i \in 1 .. Len(longer) |-> longer[i].does]
      BY <3>2
    <3> QED BY <3>1, <3>3
  <2>3. PICK m : m = FlattenSeq([j \in DOMAIN func |-> func[j].does])
    OBVIOUS
  <2>4. Left(fCurr)' = m
    BY <1>1, <1>2, <2>1, <2>2, <2>3, PromiseIs
  <2>5. Promise = UNION {After(Held(file[i]), file[i].order \o m) : i \in DOMAIN file}
    BY <2>3 DEF Promise
  <2>6. Owed(Left(fCurr))' = UNION {After(Held(file[i]), file[i].order \o m) : i \in DOMAIN file}
    BY <1>1, <2>4 DEF Owed, Held
  <2>7. Promise = Owed(Left(fCurr))'
    BY <2>5, <2>6
  <2> QED BY <1>1, <2>7
<1>12. Apart' /\ Prefixed'
  <2>1. Apart'
    BY <1>1, SameGroups
  <2> QED BY <1>1, <2>1 DEF Prefixed
<1>13. Unwinding'
  BY <1>1, <1>9, <1>10, <1>11, <1>12 DEF Unwinding
<1>14. ListTypes'
  BY <1>1, <1>4 DEF ListTypes
<1>15. Resting' /\ Writing' /\ Gathering'
  BY <1>1 DEF Resting, Writing, Gathering, Idle
<1> QED BY <1>6, <1>13, <1>14, <1>15 DEF Safe

LEMMA OutputStep ==
  ASSUME Safe, NEW p \in OutNames, Output(p)
  PROVE  Safe'
<1>1. phase = "user" /\ file # <<>> /\ Unwind(p)
  BY DEF Output
<1> QED BY <1>1, UnwindStep

LEMMA DestroyStep ==
  ASSUME Safe, Destroy
  PROVE  Safe'
<1>1. phase = "user" /\ ListTypes /\ outfix # "temp"
  BY DEF Destroy, Safe, Resting, Idle
<1>2. CASE outfix # "" /\ file # <<>>
  <2>1. outfix \in OutNames
    BY <1>1, <1>2 DEF ListTypes
  <2>2. PICK p \in OutNames : p = outfix
    BY <2>1
  <2>3. Unwind(p)
    BY <1>2, <2>2 DEF Destroy
  <2> QED BY <1>1, <1>2, <2>3, UnwindStep
<1>3. CASE ~(outfix # "" /\ file # <<>>)
  <2>1. /\ ListTypes /\ Known /\ CacheTrue /\ Alone /\ Resting /\ phase = "user" /\ phase' = "gone"
        /\ file' = file /\ func' = func /\ outfix' = outfix /\ cache' = cache /\ disk' = disk
        /\ fCurr' = fCurr /\ todo' = todo /\ names' = names /\ saved' = saved /\ opened' = opened
        /\ promised' = promised
    BY <1>3 DEF Safe, Destroy
  <2>2. Kept
    BY <2>1 DEF Kept
  <2>3. Known' /\ CacheTrue' /\ Alone'
    BY <2>1, <2>2, KeptFiles
  <2>4. ListTypes'
    BY <2>1 DEF ListTypes
  <2>5. WellUsed' /\ Apart'
    <3>1. WellUsed /\ Apart
      BY <2>1 DEF Resting, Idle
    <3>2. Keys' = Keys /\ \A k : Group(k)' = Group(k)
      BY <2>1, SameGroups
    <3>3. WellUsed'
      BY <2>1, <3>1, <3>2 DEF WellUsed
    <3> QED BY <2>1, <3>1, <3>3, SameGroups
  <2>6. Resting'
    <3>1. HeldBy(Range(names))' = HeldBy(Range(names))
      BY <2>1 DEF HeldBy
    <3> QED BY <2>1, <2>5, <3>1 DEF Resting, Idle
  <2>7. Unwinding' /\ Writing' /\ Gathering'
    BY <2>1 DEF Unwinding, Writing, Gathering
  <2> QED BY <2>3, <2>4, <2>6, <2>7 DEF Safe
<1> QED BY <1>2, <1>3

\* An operation more waits.
LEMMA DeferStep ==
  ASSUME Safe, Disciplined, NEW op \in Ops, Defer(op)
  PROVE  Safe'
<1>1. /\ ListTypes /\ Known /\ CacheTrue /\ Alone /\ Resting /\ phase = "user" /\ phase' = "user"
      /\ func' = Append(func, op) /\ WellUsed'
      /\ file' = file /\ outfix' = outfix /\ cache' = cache /\ disk' = disk
      /\ names' = names /\ saved' = saved /\ opened' = opened /\ fCurr' = fCurr
      /\ promised' = promised
  BY DEF Safe, Defer, callVars
<1>2. Kept
  BY <1>1 DEF Kept
<1>3. Known' /\ CacheTrue' /\ Alone'
  BY <1>1, <1>2, KeptFiles
<1>4. ListTypes'
  <2>1. func' \in Seq(Ops)
    BY <1>1, TypesAre, AppendProperties
  <2> QED BY <1>1, <2>1 DEF ListTypes
<1>5. Apart'
  BY <1>1, SameGroups DEF Resting, Idle
<1>6. Resting'
  <2>1. HeldBy(Range(names))' = HeldBy(Range(names))
    BY <1>1 DEF HeldBy
  <2> QED BY <1>1, <1>5, <2>1 DEF Resting, Idle
<1>7. Unwinding' /\ Writing' /\ Gathering'
  BY <1>1 DEF Unwinding, Writing, Gathering
<1> QED BY <1>3, <1>4, <1>6, <1>7 DEF Safe

\* A new file has a number that no entry of the cache has.
LEMMA AddFileStep ==
  ASSUME Safe, Disciplined, NEW f \in DOMAIN Key, AddFile(f)
  PROVE  Safe'
<1>1. /\ ListTypes /\ Known /\ CacheTrue /\ Alone /\ Resting /\ phase = "user" /\ phase' = "user"
      /\ file' = Append(file, [id |-> opened + 1, name |-> NameOf(f, 0), key |-> Key[f], order |-> <<>>])
      /\ opened' = opened + 1 /\ WellUsed'
      /\ func' = func /\ outfix' = outfix /\ cache' = cache /\ disk' = disk
      /\ names' = names /\ saved' = saved /\ fCurr' = fCurr /\ promised' = promised
  BY DEF Safe, AddFile
<1> DEFINE l == Len(file)
<1>2. /\ file \in Seq(Opening) /\ l \in Nat /\ DOMAIN file = 1 .. l /\ opened \in Nat
      /\ \A i \in DOMAIN file : file[i] \in Opening
  <2>1. opened \in Nat
    BY <1>1 DEF ListTypes
  <2> QED BY <1>1, <2>1, TypesAre
<1>3. PICK new \in Opening : /\ new = [id |-> opened + 1, name |-> NameOf(f, 0), key |-> Key[f], order |-> <<>>]
                             /\ new.id = opened + 1 /\ new.name = NameOf(f, 0)
  <2>1. NameOf(f, 0) \in Roots \X Nat
    BY DEF NameOf, Roots
  <2>2. Key[f] \in Nat \ {0} /\ <<>> \in Order /\ opened + 1 \in Nat
    BY <1>2, KeyAssumption DEF Order
  <2>3. PICK nm \in Roots \X Nat : nm = NameOf(f, 0)
    BY <2>1
  <2>4. PICK kk \in Nat \ {0} : kk = Key[f]
    BY <2>2
  <2>5. [id |-> opened + 1, name |-> nm, key |-> kk, order |-> <<>>] \in Opening
    BY <2>2 DEF Opening
  <2>6. [id |-> opened + 1, name |-> NameOf(f, 0), key |-> Key[f], order |-> <<>>] \in Opening
    BY <2>3, <2>4, <2>5
  <2> QED BY <2>6
<1>4. /\ file' \in Seq(Opening) /\ Len(file') = l + 1 /\ DOMAIN file' = 1 .. l + 1
      /\ file'[l + 1] = new /\ \A i \in 1 .. l : file'[i] = file[i]
  <2>1. PICK s \in Seq(Opening) : s = file
    BY <1>2
  <2>2. PICK t : t = Append(s, new)
    OBVIOUS
  <2>3. t \in Seq(Opening) /\ Len(t) = Len(s) + 1 /\ t[Len(s) + 1] = new /\ \A i \in 1 .. Len(s) : t[i] = s[i]
    BY <2>2, AppendProperties
  <2>4. DOMAIN t = 1 .. Len(s) + 1
    BY <2>3
  <2> QED BY <1>1, <1>3, <2>1, <2>2, <2>3, <2>4
<1>5. PICK L \in Nat : L = l
  BY <1>2
<1>6. \A i \in 1 .. L + 1 : i \in 1 .. L \/ i = L + 1
  OBVIOUS
<1>7. InGroups /\ InGroups' /\ InKeys' /\ (Alone' <=> FewSingles')
  <2>1. FileTypes'
    BY <1>4 DEF FileTypes
  <2> QED BY <1>2, <2>1, GroupIs, GroupsLater
<1>8. Alone'
  BY <1>1, <1>7 DEF WellUsed, FewSingles
<1>9. Known'
  <2>1. ASSUME NEW i \in DOMAIN file'
        PROVE  file'[i].name \in DOMAIN disk' /\ file'[i].id <= opened'
    <3>1. CASE i \in 1 .. L
      <4>1. file[i].name \in DOMAIN disk /\ file[i].id <= opened /\ file[i].id \in Nat
        BY <1>1, <1>2, <1>5, <3>1 DEF Known, Opening
      <4>2. file[i].id <= opened + 1
        BY <1>2, <4>1
      <4> QED BY <1>1, <1>4, <1>5, <3>1, <4>1, <4>2
    <3>2. CASE i = L + 1
      <4>1. opened + 1 <= opened + 1
        BY <1>2
      <4> QED BY <1>1, <1>3, <1>4, <1>5, <3>2, <4>1 DEF Known
    <3> QED BY <1>4, <1>5, <1>6, <3>1, <3>2
  <2>2. \A i \in 1 .. L : file'[i].id = file[i].id /\ file'[i].id # opened + 1
    <3>1. \A i \in 1 .. L : file[i].id <= opened /\ file[i].id \in Nat
      BY <1>1, <1>2, <1>5 DEF Known, Opening
    <3>2. \A i \in 1 .. L : file[i].id # opened + 1
      BY <1>2, <3>1
    <3> QED BY <1>4, <1>5, <3>2
  <2>3. ASSUME NEW i \in DOMAIN file', NEW j \in DOMAIN file', file'[i].id = file'[j].id
        PROVE  i = j
    <3>1. file'[L + 1].id = opened + 1
      BY <1>3, <1>4, <1>5
    <3>2. (i \in 1 .. L \/ i = L + 1) /\ (j \in 1 .. L \/ j = L + 1)
      BY <1>4, <1>5, <1>6
    <3>3. CASE i \in 1 .. L /\ j \in 1 .. L
      BY <1>1, <1>2, <1>5, <2>2, <2>3, <3>3 DEF Known
    <3> QED BY <2>2, <2>3, <3>1, <3>2, <3>3
  <2> QED BY <1>1, <2>1, <2>3 DEF Known
<1>10. ASSUME NEW k, k # new.key
       PROVE  Group(k)' = Group(k) /\ (k \in Keys' => k \in Keys)
  <2>1. Places(k)' = Places(k)
    BY <1>2, <1>4, <1>5, <1>6, <1>10 DEF Places
  <2>2. Upward(Member(k), Places(k)) /\ Upward(Member(k)', Places(k)')
    BY DEF Upward, Member, InOrder
  <2>3. Member(k)' = Member(k)
    BY <2>1, <2>2 DEF Upward
  <2>4. PICK s : s = Member(k)
    OBVIOUS
  <2>5. \A n \in 1 .. Len(s) : s[n] \in 1 .. l
    BY <1>2, <1>7, <2>4 DEF InGroups
  <2>6. Group(k) = [n \in 1 .. Len(s) |-> file[s[n]]]
    BY <1>7, <2>4 DEF InGroups
  <2>7. Group(k)' = [n \in 1 .. Len(s) |-> file'[s[n]]]
    BY <1>7, <2>3, <2>4 DEF InGroups
  <2>8. Group(k)' = Group(k)
    BY <1>4, <2>5, <2>6, <2>7
  <2>9. k \in Keys' => k \in Keys
    BY <1>2, <1>4, <1>5, <1>6, <1>10 DEF Keys
  <2> QED BY <2>8, <2>9
<1>11. CacheTrue'
  <2>1. ASSUME NEW c \in cache, NEW i \in DOMAIN c.desc
        PROVE  c.desc[i] <= opened /\ c.desc[i] <= opened'
    <3>1. c.desc[i] \in Nat
      <4>1. PICK d \in Seq(Nat) : d = c.desc
        BY <1>1 DEF ListTypes
      <4>2. d[i] \in Nat
        BY <2>1, <4>1
      <4> QED BY <4>1, <4>2
    <3>2. c.desc[i] <= opened
      BY <1>1 DEF CacheTrue
    <3> QED BY <1>1, <1>2, <3>1, <3>2
  <2>2. ASSUME NEW c \in cache
        PROVE  c.desc # Desc(new.key)'
    <3>1. PICK k : k = new.key
      OBVIOUS
    <3>2. PICK m \in DOMAIN file' : file'[m] = new
      <4>1. l + 1 \in DOMAIN file'
        BY <1>4, <1>5
      <4> QED BY <1>4, <4>1
    <3>8. \A i \in DOMAIN file' : file'[i].key = k => \E p \in 1 .. Len(Member(k)') : Member(k)'[p] = i
      BY <1>7 DEF InGroups
    <3>9. file'[m].key = k
      BY <3>1, <3>2
    <3>3. PICK j \in 1 .. Len(Member(k)') : Member(k)'[j] = m
      BY <3>2, <3>8, <3>9
    <3>4. j \in DOMAIN Group(k)' /\ Group(k)'[j] = new
      BY <1>7, <3>2, <3>3 DEF InGroups
    <3>5. j \in DOMAIN Desc(k)' /\ Desc(k)'[j] = opened + 1
      BY <1>3, <3>4 DEF Desc
    <3>6. ~(opened + 1 <= opened)
      BY <1>2
    <3>7. c.desc # Desc(k)'
      BY <2>1, <3>5, <3>6
    <3> QED BY <3>1, <3>7 DEF Desc, Group
  <2>3. ASSUME NEW c \in cache, NEW k \in Keys', c.desc = Desc(k)'
        PROVE  c.seen = Contents(k)'
    <3>1. k # new.key
      <4>1. PICK q : q = new.key
        OBVIOUS
      <4>2. k = q => c.desc = Desc(q)'
        BY <2>3
      <4>3. c.desc # Desc(q)'
        BY <2>2, <4>1 DEF Desc, Group
      <4> QED BY <4>1, <4>2, <4>3
    <3>2. Group(k)' = Group(k) /\ k \in Keys
      BY <1>10, <3>1
    <3>3. Desc(k)' = Desc(k) /\ Contents(k)' = Contents(k)
      BY <1>1, <3>2 DEF Desc, Contents, Held
    <3>4. c.seen = Contents(k)
      BY <1>1, <2>3, <3>2, <3>3 DEF CacheTrue
    <3> QED BY <3>3, <3>4
  <2> QED BY <1>1, <2>1, <2>3 DEF CacheTrue
<1>12. ListTypes'
  <2>1. opened' \in Nat
    BY <1>1, <1>2
  <2>2. cache' \in SUBSET [desc : Seq(Nat), seen : Seq(SUBSET Part)]
    BY <1>1 DEF ListTypes
  <2>3. names' \in Seq(DOMAIN disk')
    BY <1>1 DEF ListTypes
  <2> QED BY <1>1, <1>4, <2>1, <2>2, <2>3 DEF ListTypes
<1>13. Apart'
  <2>1. Apart
    BY <1>1 DEF Resting, Idle
  <2>2. new.name[1] \in DOMAIN Key
    BY <1>3 DEF NameOf
  <2> QED BY <1>2, <1>4, <1>5, <1>6, <2>1, <2>2 DEF Apart
<1>14. Resting'
  <2>1. HeldBy(Range(names))' = HeldBy(Range(names))
    BY <1>1 DEF HeldBy
  <2> QED BY <1>1, <1>13, <2>1 DEF Resting, Idle
<1>15. Unwinding' /\ Writing' /\ Gathering'
  BY <1>1 DEF Unwinding, Writing, Gathering
<1> QED BY <1>8, <1>9, <1>11, <1>12, <1>14, <1>15 DEF Safe

-----------------------------------------------------------------------------
(***************************************************************************)
(* From the first state on.                                                *)
(***************************************************************************)
\* There are no files yet.
LEMMA FirstState ==
  ASSUME ListInit
  PROVE  Safe
<1>1. /\ file = <<>> /\ func = <<>> /\ outfix \in OutNames \cup {""} /\ cache = {}
      /\ phase = "user" /\ fCurr = 1 /\ names = <<>> /\ saved = "" /\ opened = 0
      /\ promised.prefix = "" /\ promised.parts = {}
  BY DEF ListInit
<1>2. DOMAIN <<>> = {} /\ Len(<<>>) = 0
  OBVIOUS
<1>3. DOMAIN file = {} /\ DOMAIN func = {} /\ DOMAIN names = {}
  BY <1>1, <1>2
<1>4. /\ DOMAIN disk = {NameOf(f, 0) : f \in DOMAIN Key}
      /\ \A n \in DOMAIN disk : disk[n] = [key |-> Key[n[1]], parts |-> {[of |-> n[1], done |-> <<>>]}]
  BY DEF ListInit
<1>5. ASSUME NEW n \in DOMAIN disk
      PROVE  n \in Roots \X Nat /\ disk[n] \in Content
  <2>1. PICK f \in DOMAIN Key : n = NameOf(f, 0)
    BY <1>4
  <2>2. n[1] = f /\ n \in Roots \X Nat
    BY <2>1 DEF NameOf, Roots
  <2>3. disk[n] = [key |-> Key[f], parts |-> {[of |-> f, done |-> <<>>]}]
    BY <1>4, <2>2
  <2>4. Key[f] \in Nat \ {0}
    BY KeyAssumption
  <2>5. <<>> \in Seq(Mark)
    OBVIOUS
  <2>6. [of |-> f, done |-> <<>>] \in Part
    BY <2>5 DEF Part
  <2> QED BY <2>2, <2>3, <2>4, <2>6 DEF Content
<1>6. ListTypes
  <2>1. <<>> \in Seq(Opening) /\ <<>> \in Seq(Ops) /\ <<>> \in Seq(DOMAIN disk)
    OBVIOUS
  <2>2. file \in Seq(Opening) /\ func \in Seq(Ops) /\ names \in Seq(DOMAIN disk)
    BY <1>1, <2>1
  <2>3. DOMAIN disk \subseteq Roots \X Nat /\ \A n \in DOMAIN disk : disk[n] \in Content
    BY <1>5
  <2> QED BY <1>1, <2>2, <2>3 DEF ListTypes
<1>7. Known
  BY <1>3, <1>4 DEF Known
<1>8. CacheTrue
  BY <1>1 DEF CacheTrue
<1>9. Keys = {}
  BY <1>3 DEF Keys
<1>10. Alone
  BY <1>9 DEF Alone
<1>11. Apart
  BY <1>3 DEF Apart
<1>12. WellUsed
  <2>1. FileTypes
    BY <1>6 DEF ListTypes, FileTypes
  <2>2. FewSingles
    BY <1>10, <2>1, GroupsNow
  <2> QED BY <1>3, <2>2 DEF WellUsed, FewSingles
<1>13. Resting
  <2>1. Range(names) = {}
    BY <1>3 DEF Range
  <2>2. HeldBy(Range(names)) = {}
    BY <2>1 DEF HeldBy
  <2>3. outfix # "temp"
    BY <1>1, PrefixAssumption
  <2> QED BY <1>1, <1>3, <1>11, <1>12, <2>1, <2>2, <2>3 DEF Resting
<1>14. Unwinding /\ Writing /\ Gathering
  BY <1>1 DEF Unwinding, Writing, Gathering
<1> QED BY <1>6, <1>7, <1>8, <1>10, <1>13, <1>14 DEF Safe

LEMMA SameUse ==
  ASSUME file' = file, func' = func
  PROVE  WellUsed' <=> WellUsed
<1>1. Keys' = Keys /\ \A k : Group(k)' = Group(k)
  BY SameGroups
<1>2. FewSingles' <=> FewSingles
  <2>1. {k \in Keys' : Len(Group(k)') = 1} = {k \in Keys : Len(Group(k)) = 1}
    BY <1>1
  <2> QED BY <2>1 DEF FewSingles
<1>3. FewKeys' <=> FewKeys
  BY <1>1 DEF FewKeys
<1>4. WellUsed <=>
        /\ \A i, j \in DOMAIN func :
              i < j => func[i].kind # "gather" /\ (func[i].kind = "sort" \/ func[j].kind = "single")
        /\ FewSingles
        /\ (\E i \in DOMAIN func : func[i].kind = "gather") =>
             /\ FewKeys
             /\ \/ Len(file) # 1
                \/ /\ file[1].name # Gtemp
                   /\ file[1].order = <<>>
                   /\ \A i \in DOMAIN func : func[i].kind # "sort"
  BY DEF WellUsed, FewSingles, FewKeys
<1>5. WellUsed' <=>
        /\ \A i, j \in DOMAIN func :
              i < j => func[i].kind # "gather" /\ (func[i].kind = "sort" \/ func[j].kind = "single")
        /\ FewSingles'
        /\ (\E i \in DOMAIN func : func[i].kind = "gather") =>
             /\ FewKeys'
             /\ \/ Len(file) # 1
                \/ /\ file[1].name # Gtemp
                   /\ file[1].order = <<>>
                   /\ \A i \in DOMAIN func : func[i].kind # "sort"
  BY DEF WellUsed, FewSingles, FewKeys
<1> QED BY <1>2, <1>3, <1>4, <1>5

LEMMA NothingStep ==
  ASSUME Safe, UNCHANGED listVars
  PROVE  Safe'
<1>1. /\ ListTypes /\ Known /\ CacheTrue /\ Alone /\ Resting /\ Unwinding /\ Writing /\ Gathering
      /\ file' = file /\ func' = func /\ outfix' = outfix /\ cache' = cache /\ disk' = disk
      /\ phase' = phase /\ fCurr' = fCurr /\ todo' = todo /\ names' = names /\ saved' = saved
      /\ opened' = opened /\ promised' = promised
  BY DEF Safe, listVars
<1>2. Kept /\ SameList
  BY <1>1 DEF Kept, SameList
<1>3. Known' /\ CacheTrue' /\ Alone' /\ (OneGroup' <=> OneGroup) /\ (Apart' <=> Apart)
      /\ Keys' = Keys /\ GroupOrder' = GroupOrder /\ \A k : Group(k)' = Group(k)
  BY <1>1, <1>2, KeptFiles, SameGroups
<1>4. ListTypes'
  BY <1>1 DEF ListTypes
<1>5. Resting'
  <2>1. HeldBy(Range(names))' = HeldBy(Range(names))
    BY <1>1 DEF HeldBy
  <2>2. WellUsed' <=> WellUsed
    BY <1>1, SameUse
  <2> QED BY <1>1, <1>3, <2>1, <2>2 DEF Resting, Idle
<1>6. /\ Left(fCurr)' = Left(fCurr) /\ Owed(Left(fCurr))' = Owed(Left(fCurr))
      /\ (Queued' <=> Queued) /\ (Fit' <=> Fit) /\ \A kind : Current(kind)' <=> Current(kind)
  BY <1>1, <1>2, KeptList
<1>7. Coming' = Coming /\ Owed(Coming)' = Owed(Coming) /\ \A k : Due(k)' = Due(k)
  BY <1>1, <1>2, KeptComing
<1>8. Prefixed' <=> Prefixed
  BY <1>1 DEF Prefixed
<1>9. Unwinding'
  BY <1>1, <1>3, <1>6, <1>8 DEF Unwinding
<1>10. Writing'
  <2>1. \A k : OutName(k)' = OutName(k)
    BY <1>1, <1>3 DEF OutName
  <2> QED BY <1>1, <1>3, <1>6, <1>7, <1>8, <2>1 DEF Writing
<1>11. Gathering'
  BY <1>1, <1>3, <1>6, <1>8 DEF Gathering
<1> QED BY <1>3, <1>4, <1>5, <1>9, <1>10, <1>11 DEF Safe

\* Every step of the set keeps all of it.
LEMMA EveryStep ==
  ASSUME Disciplined, Safe, [ListNext]_listVars
  PROVE  Safe'
<1>1. ASSUME NEW f \in DOMAIN Key, AddFile(f)
      PROVE  Safe'
  BY <1>1, AddFileStep
<1>2. ASSUME NEW op \in Ops, Defer(op)
      PROVE  Safe'
  BY <1>2, DeferStep
<1>3. ASSUME \/ \E by \in SortTypes : SortBy(by)
             \/ \E k \in GatherKeys : ToAngle(k)
             \/ Taper \/ AGC \/ TemporalFilter
      PROVE  \E op \in Ops : Defer(op)
  <2>1. TraceOp \in Ops /\ (\A by \in SortTypes : SortOp(by) \in Ops)
        /\ \A k \in GatherKeys : GatherOp(k) \in Ops
    BY DEF Ops
  <2> QED BY <1>3, <2>1 DEF SortBy, ToAngle, Taper, AGC, TemporalFilter
<1>4. ASSUME NEW p \in OutNames, Output(p)
      PROVE  Safe'
  BY <1>4, OutputStep
<1>5. CASE Destroy
  BY <1>5, DestroyStep
<1>6. CASE Subset
  BY <1>6, SubsetStep
<1>7. CASE StartSingle
  BY <1>7, StartSingleStep
<1>8. CASE WriteGroup
  BY <1>8, WriteGroupStep
<1>9. CASE Reopen
  BY <1>9, ReopenStep
<1>10. CASE StartGather
  BY <1>10, StartGatherStep
<1>11. CASE GatherFile
  BY <1>11, GatherStep
<1>12. CASE EndGather
  BY <1>12, EndGatherStep
<1>13. CASE Return
  BY <1>13, ReturnStep
<1>14. CASE Gone \/ UNCHANGED listVars
  BY <1>14, NothingStep DEF Gone
<1>15. CASE Call
  BY <1>1, <1>2, <1>3, <1>4, <1>5, <1>15 DEF Call
<1>16. CASE Work
  BY <1>6, <1>7, <1>8, <1>9, <1>10, <1>11, <1>12, <1>13, <1>16 DEF Work
<1> QED BY <1>14, <1>15, <1>16 DEF ListNext

-----------------------------------------------------------------------------
(***************************************************************************)
(* Between any two steps the set, its list, the files on disk, the cache   *)
(* and what output() has promised fit together: for any files, groups,     *)
(* orders and names, for lists of any length and any number of outputs.    *)
(***************************************************************************)
THEOREM ListKept == ListSpec => []ListInv
<1>1. ListInit => ListInv
  BY FirstState DEF ListInv, Safe
<1>2. ListInv /\ [ListNext]_listVars => ListInv'
  BY EveryStep DEF ListInv, Safe
<1> QED BY <1>1, <1>2, PTL DEF ListSpec

(***************************************************************************)
(* Whatever a caller who keeps to WellUsed defers, once output() or the    *)
(* destructor is through the files written hold every part of the set, and *)
(* every operation has been applied to it once, in order.                  *)
(***************************************************************************)
THEOREM AlwaysDelivered == ListSpec => [](Disciplined => Delivered)
<1>1. ListInv => (Disciplined => Delivered)
  BY DEF ListInv, Resting, Delivered
<1> QED BY <1>1, ListKept, PTL

(***************************************************************************)
(* No sort takes headers from the cache that are not those of the files    *)
(* the set has then.                                                       *)
(***************************************************************************)
THEOREM AlwaysFresh == ListSpec => (Disciplined => FreshHeaders)
<1>1. CASE Disciplined
  <2>1. ListInv => \A k \in Keys : GetCache(k).seen = Contents(k)
    <3> SUFFICES ASSUME ListInv, NEW k \in Keys
                 PROVE  GetCache(k).seen = Contents(k)
      OBVIOUS
    <3>1. CacheTrue
      BY <1>1 DEF ListInv
    <3>2. CASE \E c \in cache : c.desc = Desc(k)
      <4>1. PICK c \in cache : c = GetCache(k) /\ c.desc = Desc(k)
        BY <3>2 DEF GetCache
      <4> QED BY <3>1, <4>1 DEF CacheTrue
    <3>3. CASE ~\E c \in cache : c.desc = Desc(k)
      BY <3>3 DEF GetCache
    <3> QED BY <3>2, <3>3
  <2>2. ListInv /\ [ListNext]_listVars
          => [Subset => \A k \in Keys : GetCache(k).seen = Contents(k)]_listVars
    BY <2>1
  <2>3. ListSpec => FreshHeaders
    BY <2>2, ListKept, PTL DEF ListSpec, FreshHeaders
  <2> QED BY <2>3
<1>2. CASE ~Disciplined
  BY <1>2
<1> QED BY <1>1, <1>2
=============================================================================
