------------------------------- MODULE Orders -------------------------------
(***************************************************************************)
(* What std::sort makes of a set, and the order a std::map goes through    *)
(* its keys in: at each place stands the member that has as many others    *)
(* below it.                                                               *)
(***************************************************************************)
EXTENDS Naturals, FiniteSets

InOrder(S, below(_, _)) ==
  [k \in 1 .. Cardinality(S) |-> CHOOSE e \in S : Cardinality({d \in S : below(d, e)}) = k - 1]
=============================================================================
