--------------------------- MODULE MCCollectiveIO ---------------------------
(***************************************************************************)
(* Instances of CollectiveIO for TLC: all pairs of requests of the kinds   *)
(* in Kinds, with every combination of sizes.  A process asks for up to    *)
(* MaxUnits units: blocks of 2 bytes, 3 bytes apart, as a header is        *)
(* followed by samples, or 4 bytes of a contiguous request.                *)
(***************************************************************************)
EXTENDS CollectiveIO

CONSTANTS Kinds, MaxUnits, Length

Units == [Rank -> 0 .. MaxUnits]

\* Process r works behind the parts of the lower ones.
Start(sz, r) == MapThenSumSet(LAMBDA q : sz[q], 0 .. r - 1)

\* In a list the places need not be neighbours; here every other block.
Places(sz, r) == [k \in 1 .. sz[r] |-> 3 * (2 * k + r)]

Request(kind, units) ==
  LET sz == [r \in Rank |-> IF kind = "contig" THEN 4 * units[r] ELSE units[r]] IN
  [kind |-> kind, sz |-> sz,
   bsz |-> IF kind = "contig" THEN 1 ELSE 2,
   osz |-> IF kind = "contig" THEN 1 ELSE 3,
   off |-> [r \in Rank |-> CASE kind = "contig"  -> Start(sz, r)
                             [] kind = "strided" -> 3 * Start(sz, r)
                             [] kind = "list"    -> Places(sz, r)]]

AllRequests  == {Request(k, units) : k \in Kinds, units \in Units}
AllWorkloads == [1 .. Length -> AllRequests]
=============================================================================
