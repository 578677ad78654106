------------------------------- MODULE MCParams -----------------------------
(***************************************************************************)
(* Instances of Params for TLC: rules with the x coordinates of source and *)
(* receiver, which share a scale, the inline, a trace number, and in one   *)
(* of them the copy, in different columns; the inline is a short in one.   *)
(***************************************************************************)
EXTENDS Params, TLC

Alike == Permutations(Prm)

E(t, n, l, s) == [type |-> t, num |-> n, loc |-> l, scal |-> s]

MCRules == {
  [translate |-> [gtn  |-> E("Index", 0, 0, 0),   xSrc |-> E("Float", 0, 73, 71),
                  xRcv |-> E("Float", 1, 81, 71), il   |-> E("Long", 0, 189, 0)],
   width |-> [Float |-> 2, Long |-> 1, Short |-> 0, Index |-> 1]],
  [translate |-> [copy |-> E("Copy", 0, 0, 0),    xl   |-> E("Long", 0, 193, 0),
                  xRcv |-> E("Float", 0, 81, 71), il   |-> E("Long", 1, 189, 0),
                  gtn  |-> E("Index", 0, 0, 0)],
   width |-> [Float |-> 1, Long |-> 2, Short |-> 0, Index |-> 1]],
  [translate |-> [il   |-> E("Short", 0, 189, 0), xRcv |-> E("Float", 0, 81, 71),
                  xSrc |-> E("Float", 1, 73, 71)],
   width |-> [Float |-> 2, Long |-> 0, Short |-> 1, Index |-> 0]] }

MCValues == [Float |-> {1, 150, 30000}, Long |-> {300}, Short |-> {7}, Index |-> {2}]

MCForeign == {[l \in {71, 81, 189, 193} |-> CASE l = 71 -> -10 [] l = 81 -> 15
                                               [] l = 189 -> 5 [] l = 193 -> 6]}
=============================================================================
