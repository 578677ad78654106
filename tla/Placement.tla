----------------------------- MODULE Placement -----------------------------
(***************************************************************************)
(* How the headers of a SEG-Y data set are spread over the MPI processes,  *)
(* and what it means for that distributed vector to be sorted.             *)
(*                                                                         *)
(* Process r holds Lnt[r] entries: the rows of a Param structure, or the   *)
(* elements of a std::vector.  An entry is abstracted to the two things    *)
(* the sort looks at, its place in the order and its global trace number.  *)
(***************************************************************************)
EXTENDS Decompose, FiniteSets, FiniteSetsExt

CONSTANT Lnt           \* prm->size() on each process

ASSUME LntAssumption == Lnt \in [Rank -> Nat]

(***************************************************************************)
(* ord stands for the tuple of header values a comparator of src/sort.cc   *)
(* looks at, its last component included (PIOL_META_ltn, or the position   *)
(* in the pairs of the FileOrder sort); gtn is PIOL_META_gtn, which the    *)
(* change test compares.                                                   *)
(***************************************************************************)
Row == [ord : Nat, gtn : Nat]

Comp(a, b) == a.ord < b.ord

\* regionSz: a quarter of the smallest local length, rounded down.
RegionSz == Min({Lnt[r] : r \in Rank}) \div 4

\* v is a distributed vector with the local lengths of this data set.
IsVector(v) == /\ DOMAIN v = Rank
               /\ \A r \in Rank : v[r] \in [1 .. Lnt[r] -> Row]

\* The entries of a distributed vector, whoever holds them.
RowsOf(v) == UNION {{v[r][i] : i \in 1 .. Lnt[r]} : r \in Rank}

\* The global order of the cells of a distributed vector.
Precedes(r, i, s, j) == r < s \/ (r = s /\ i < j)

\* No two cells hold entries that the comparator cannot tell apart, and no
\* two hold the same global trace number.
Distinct(v) ==
  \A r, s \in Rank : \A i \in 1 .. Lnt[r], j \in 1 .. Lnt[s] :
    Precedes(r, i, s, j) => /\ v[r][i].ord # v[s][j].ord
                            /\ v[r][i].gtn # v[s][j].gtn

\* The entries are in order, along each process and from one to the next.
GloballySorted(v) ==
  \A r, s \in Rank : \A i \in 1 .. Lnt[r], j \in 1 .. Lnt[s] :
    Precedes(r, i, s, j) => Comp(v[r][i], v[s][j])
=============================================================================
