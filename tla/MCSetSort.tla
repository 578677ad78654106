----------------------------- MODULE MCSetSort ------------------------------
(***************************************************************************)
(* Instances of SetSort and HeaderOrder for TLC.  A trace gets one of a    *)
(* few headers: that of trace number n of the set is number step * n +     *)
(* shift, modulo a prime above the number of traces, for every step and    *)
(* half the prime as the shift, so that neighbours are taken apart.  Each  *)
(* step has a sort type of its own.                                        *)
(***************************************************************************)
EXTENDS HeaderOrder

CONSTANTS Shapes,      \* the trace counts of the files, in sequences
          Prime,       \* a prime above every total
          Pool,        \* the headers
          MCTypes      \* sort types, in a sequence

CountBefore(nts, f) == MapThenSumSet(LAMBDA g : nts[g], 1 .. f - 1)

HeadSet(nts, step) ==
  LET type == MCTypes[(step % Len(MCTypes)) + 1]
      head == [h \in TracesOf(nts) |->
                 LET n == step * (CountBefore(nts, h[1]) + h[2]) + Prime \div 2
                 IN  Pool[((n % Prime) % Len(Pool)) + 1]]
  IN  [nts |-> nts, type |-> type, head |-> head, key |-> KeyOf(nts, type, head)]

AllSets == {HeadSet(nts, step) : nts \in Shapes, step \in 1 .. Prime - 1}

Head7(sx, sy, rx, ry, il, xl, offset) ==
  [xSrc |-> sx, ySrc |-> sy, xRcv |-> rx, yRcv |-> ry, il |-> il, xl |-> xl, offset |-> offset]

\* Headers that differ in one field or another, and lie behind each other
\* differently in each order; two are equal.
Forward == <<Head7(0, 0, 1, 0, 1, 1, 2), Head7(1, 0, -2, 0, 0, 1, 2), Head7(0, 1, 1, 0, 0, 1, 1),
             Head7(0, 0, 1, 2, 1, 0, 3), Head7(1, 0, 0, 0, 0, 0, 2), Head7(0, 0, 1, 0, 1, 1, 2),
             Head7(0, 0, 1, 2, 1, 1, 1)>>
EveryType == <<"SrcRcv", "SrcOff", "SrcROff", "RcvOff", "RcvROff", "LineOff", "LineROff",
               "OffLine", "ROffLine", "unknown">>

\* The source on either side of the receiver: the recorded offset has a sign.
BothSides == <<Head7(0, 0, -2, 0, 1, 1, -2), Head7(0, 0, 1, 0, 1, 1, 1),
               Head7(0, 0, -1, 0, 1, 1, -1), Head7(0, 0, 2, 0, 1, 1, 2)>>
RecordedType == <<"SrcROff", "ROffLine">>

\* One file; two of equal size; the smaller files first; a file without traces;
\* no traces at all, whose sort is refused.
GoodShapes == {<<9>>, <<4, 4>>, <<4, 7>>, <<2, 3, 4>>, <<0, 8>>, <<0, 0>>}
\* The larger file first.
LargeFirst == {<<6, 4>>}
\* A process has three headers.
Three == {<<7>>, <<3, 3>>}
\* A process has two headers, or three.
Small == {<<5>>, <<3, 2>>} \cup Three
=============================================================================
