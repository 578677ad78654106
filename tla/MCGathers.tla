----------------------------- MODULE MCGathers ------------------------------
(***************************************************************************)
(* Instances of Gathers for TLC: all files of Lengths traces, cut into     *)
(* gathers in every way.                                                   *)
(***************************************************************************)
EXTENDS Gathers

CONSTANT Lengths

\* The file whose gathers end at the traces in ends.
Cut(nt, ends) == [k \in 1 .. nt |-> Cardinality({e \in ends : e < k}) + 1]

AllLines == UNION {{Cut(nt, ends) : ends \in SUBSET (1 .. nt - 1)} : nt \in Lengths}
=============================================================================
