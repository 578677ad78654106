------------------------------- MODULE Uniray -------------------------------
(***************************************************************************)
(* The global array of src/include/share/uniray.hh.  Its sz elements are   *)
(* dealt to the processes by decompose; a process reaches the elements of  *)
(* others by one-sided access, without the help of their owner.  The       *)
(* window is taken to cover the whole of a block.                          *)
(***************************************************************************)
EXTENDS Decompose, FiniteSetsExt

\* The value-initialised tuple: no traces, and no gather.
Empty == [n |-> 0, id |-> 0]

\* szall[r], and the number of elements below the block of r.
SzAll(sz, r)   == Share(sz, r)
LOffset(sz, r) == SumBelow([q \in Rank |-> SzAll(sz, q)], r)

\* The first rank whose block ends behind i.
LRank(sz, i) == Min({r \in Rank : i < LOffset(sz, r) + SzAll(sz, r)})

Cell(sz, i) == LET r == LRank(sz, i) IN [rank |-> r, at |-> i - LOffset(sz, r) + 1]

NewUniray(sz) == [r \in Rank |-> [j \in 1 .. SzAll(sz, r) |-> Empty]]

\* set and get, which let the index sz through.
Put(vec, sz, i, val) ==
  IF i > sz THEN vec
  ELSE LET c == Cell(sz, i) IN [vec EXCEPT ![c.rank][c.at] = val]

Get(vec, sz, i) ==
  IF i > sz THEN Empty ELSE LET c == Cell(sz, i) IN vec[c.rank][c.at]
=============================================================================
