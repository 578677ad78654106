--------------------------- MODULE MCFunctionList ---------------------------
(* Two files of one group and one of another; what toAngle makes is in the
   group of the first two, or in none of these. *)
EXTENDS FunctionList

MCKey == [a |-> 1, b |-> 1, c |-> 2]
MCSortTypes == {"by source", "by offset"}
MCGatherKeys == {1, 3}
MCOutNames == {"out"}
=============================================================================
