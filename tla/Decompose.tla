----------------------------- MODULE Decompose ------------------------------
(***************************************************************************)
(* The processes of a run, the ranks of MPI_COMM_WORLD, and decompose of   *)
(* src/decomp.cc: how sz items (the traces of a file, the elements of a    *)
(* global array) are dealt to them in blocks; and MPI::offset and MPI::sum *)
(* of src/cmpi.cc: what the processes below one, or all of them, have      *)
(* together.  The same running sums give where a file begins among files.  *)
(***************************************************************************)
EXTENDS Integers

CONSTANT NumRank       \* comm->getNumRank()

ASSUME NumRankAssumption == NumRank \in Nat \ {0}

Rank     == 0 .. NumRank - 1
LastRank == NumRank - 1

Least(a, b) == IF a < b THEN a ELSE b

\* The first item of process r, and how many it has.
First(sz, r) == (sz \div NumRank) * r + Least(r, sz % NumRank)

Share(sz, r) == Least(sz - First(sz, r),
                      (sz \div NumRank) + (IF r < sz % NumRank THEN 1 ELSE 0))

\* The sum of the v[k] with k below n.
SumBelow(v, n) ==
  LET sum[k \in Nat] ==
        IF k = 0 THEN 0
        ELSE sum[k - 1] + (IF k - 1 \in DOMAIN v THEN v[k - 1] ELSE 0)
  IN  sum[n]
=============================================================================
