--------------------------- MODULE MCNearestSort ---------------------------
(***************************************************************************)
(* Instances of NearestSort for TLC.  The entries have the ords 1..Total   *)
(* and are dealt to the processes in groups of Width neighbours, in every  *)
(* way that fills the local lengths; a process holds its entries in        *)
(* descending order, and gtn numbers the cells as cachePrm does.           *)
(***************************************************************************)
EXTENDS NearestSort

CONSTANT Width

Total == MapThenSumSet(LAMBDA r : Lnt[r], Rank)

GroupOf(x) == (x - 1) \div Width

Deals == {owner \in [{GroupOf(x) : x \in 1 .. Total} -> Rank] :
            \A r \in Rank : Cardinality({x \in 1 .. Total : owner[GroupOf(x)] = r}) = Lnt[r]}

FirstGtn(r) == MapThenSumSet(LAMBDA q : Lnt[q], 0 .. r - 1)

\* The ords dealt to r, in descending order.
Dealt(owner) ==
  [r \in Rank |->
     LET mine == {x \in 1 .. Total : owner[GroupOf(x)] = r}
     IN  [i \in 1 .. Lnt[r] |->
            [ord |-> CHOOSE x \in mine : Cardinality({y \in mine : y >= x}) = i,
             gtn |-> FirstGtn(r) + i - 1]]]

AllDeals == {Dealt(owner) : owner \in Deals}

\* Local lengths by rank.  The smallest one fixes RegionSz: 0 below 4
\* entries, 1 from 4 to 7, 2 from 8.
LntTwoWide   == [r \in 0 .. 1 |-> 8 + r]
LntThree     == [r \in 0 .. 2 |-> IF r = 1 THEN 6 ELSE 4]
=============================================================================
