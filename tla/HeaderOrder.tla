----------------------------- MODULE HeaderOrder ----------------------------
(***************************************************************************)
(* The orders of the sort types: the comparators of src/sort.cc, which     *)
(* give the traces of SetSort their keys, and checkOrder, by which every   *)
(* process of exseis-versort (src/util/verifysort.cc) looks at its part of *)
(* the output.                                                             *)
(*                                                                         *)
(* A set of SetSort has two fields more: the sort type, and the header of  *)
(* every trace.  A definition Bug... is not part of the model.  It is the  *)
(* definition after it with a plausible mistake, which the properties are  *)
(* to notice.                                                              *)
(***************************************************************************)
EXTENDS SetSort

CONSTANTS WordBits,    \* the bits of a size_t (64)
          MantBits     \* the significant bits of a geom_t (53)

ASSUME BitsAssumption == MantBits \in Nat \ {0} /\ WordBits \in Nat /\ MantBits < WordBits

\* The fields of a header that an order looks at.
Header == [xSrc : Int, ySrc : Int, xRcv : Int, yRcv : Int, il : Int, xl : Int, offset : Int]

Types == {"SrcRcv", "SrcOff", "SrcROff", "RcvOff", "RcvROff", "LineOff", "LineROff",
          "OffLine", "ROffLine", "unknown"}

(***************************************************************************)
(* The comparators.  CalcOff of the templates is calc.                     *)
(***************************************************************************)
\* off, the square of the distance.
Off(h) == (h.xSrc - h.xRcv) * (h.xSrc - h.xRcv) + (h.ySrc - h.yRcv) * (h.ySrc - h.yRcv)

\* The nearest geom_t of a natural number, the even one of two.
Double(n) ==
  LET unit == 2^(CHOOSE e \in 0 .. WordBits :
                   n < 2^(MantBits + e) /\ (e = 0 \/ n >= 2^(MantBits + e - 1)))
      q    == n \div unit
      rest == 2 * (n % unit)
  IN  unit * (IF rest > unit \/ (rest = unit /\ q % 2 = 1) THEN q + 1 ELSE q)

\* The recorded offset is read as a size_t, and becomes a geom_t because the
\* other branch of the conditional is one.
Recorded(h) == Double(h.offset % 2^WordBits)

OffsetOf(calc, h) == IF calc THEN Off(h) ELSE Recorded(h)

\* One step of a comparator: the next field decides where this one is equal.
Then(a, b, rest) == a < b \/ (a = b /\ rest)

LessSrcRcv(i, j) ==
  Then(i.xSrc, j.xSrc, Then(i.ySrc, j.ySrc, Then(i.xRcv, j.xRcv, Then(i.yRcv, j.yRcv,
    i.ltn < j.ltn))))

LessSrcOff(calc, i, j) ==
  Then(i.xSrc, j.xSrc, Then(i.ySrc, j.ySrc, Then(OffsetOf(calc, i), OffsetOf(calc, j),
    i.ltn < j.ltn)))

LessRcvOff(calc, i, j) ==
  Then(i.xRcv, j.xRcv, Then(i.yRcv, j.yRcv, Then(OffsetOf(calc, i), OffsetOf(calc, j),
    i.ltn < j.ltn)))

BugLessLineOff(calc, i, j) ==          \* the crossline first
  Then(i.xl, j.xl, Then(i.il, j.il, Then(OffsetOf(calc, i), OffsetOf(calc, j),
    i.ltn < j.ltn)))
LessLineOff(calc, i, j) ==
  Then(i.il, j.il, Then(i.xl, j.xl, Then(OffsetOf(calc, i), OffsetOf(calc, j),
    i.ltn < j.ltn)))

LessOffLine(calc, i, j) ==
  Then(OffsetOf(calc, i), OffsetOf(calc, j), Then(i.il, j.il, Then(i.xl, j.xl,
    i.ltn < j.ltn)))

\* getComp: a type that is none of the nine is SrcRcv.
Comp(type, i, j) ==
  CASE type = "SrcOff"   -> LessSrcOff(TRUE, i, j)
    [] type = "SrcROff"  -> LessSrcOff(FALSE, i, j)
    [] type = "RcvOff"   -> LessRcvOff(TRUE, i, j)
    [] type = "RcvROff"  -> LessRcvOff(FALSE, i, j)
    [] type = "LineOff"  -> LessLineOff(TRUE, i, j)
    [] type = "LineROff" -> LessLineOff(FALSE, i, j)
    [] type = "OffLine"  -> LessOffLine(TRUE, i, j)
    [] type = "ROffLine" -> LessOffLine(FALSE, i, j)
    [] OTHER             -> LessSrcRcv(i, j)

\* A header in memory, with its local trace number.
Numbered(h, n) == [xSrc |-> h.xSrc, ySrc |-> h.ySrc, xRcv |-> h.xRcv, yRcv |-> h.yRcv,
                   il |-> h.il, xl |-> h.xl, offset |-> h.offset, ltn |-> n]

\* The ltn cachePrm gives to a header: the files take turns.
Cached(nts, head, g) == Numbered(head[g], g[2] * Len(nts) + g[1] - 1)

\* The keys of SetSort, which stand for the order of a type.
KeyOf(nts, type, head) ==
  [h \in TracesOf(nts) |->
     Cardinality({g \in TracesOf(nts) : Comp(type, Cached(nts, head, g), Cached(nts, head, h))})]

ASSUME HeadsAssumption ==
  \A s \in Sets : /\ s.type \in Types
                  /\ s.head \in [TracesOf(s.nts) -> Header]
                  /\ s.key = KeyOf(s.nts, s.type, s.head)

\* The headers in the finished output, and the part of them that decompose
\* gives to a process.
Output == [n \in 0 .. Total - 1 |-> set.head[(CHOOSE w \in out : w[1] = n)[2]]]
Places(r) == First(Total, r) .. First(Total, r) + Share(Total, r) - 1

\* checkOrder: readParam gives each header its place as the ltn.
BugReadParam(n) == Numbered(Output[n], 0)
ReadParam(n)    == Numbered(Output[n], n)

CheckOrder(r) == \A n \in Places(r) :
                   n - 1 \in Places(r) => Comp(set.type, ReadParam(n - 1), ReadParam(n))
-----------------------------------------------------------------------------
\* The fields an order is said to go by (src/include/share/api.hh), offsets
\* as the distance they are or as the file has them.
Key(h) ==
  CASE set.type = "SrcOff"   -> <<h.xSrc, h.ySrc, Off(h)>>
    [] set.type = "SrcROff"  -> <<h.xSrc, h.ySrc, h.offset>>
    [] set.type = "RcvOff"   -> <<h.xRcv, h.yRcv, Off(h)>>
    [] set.type = "RcvROff"  -> <<h.xRcv, h.yRcv, h.offset>>
    [] set.type = "LineOff"  -> <<h.il, h.xl, Off(h)>>
    [] set.type = "LineROff" -> <<h.il, h.xl, h.offset>>
    [] set.type = "OffLine"  -> <<Off(h), h.il, h.xl>>
    [] set.type = "ROffLine" -> <<h.offset, h.il, h.xl>>
    [] OTHER                 -> <<h.xSrc, h.ySrc, h.xRcv, h.yRcv>>

\* The first field in which two headers differ is smaller in the second.
Descends(g, h) == \E n \in DOMAIN Key(g) : /\ \A k \in 1 .. n - 1 : Key(g)[k] = Key(h)[k]
                                           /\ Key(g)[n] > Key(h)[n]

\* A stretch of the output is in the order the sort type is said to mean.
AsSaid(places) == \A n \in places : n - 1 \in places => ~Descends(Output[n - 1], Output[n])

(***************************************************************************)
(* Safety: the sorted output, which several processes write in the order   *)
(* of the comparators, is in the order the sort type is said to mean, from *)
(* the first trace to the last.                                            *)
(***************************************************************************)
SortedAsSaid == sorting /\ (\A r \in Rank : pc[r] = "done") => AsSaid(0 .. Total - 1)

(***************************************************************************)
(* Safety: a process that checks the output by checkOrder says Success if  *)
(* and only if its part of it is in the order the sort type is said to     *)
(* mean.  Headers with equal fields are in order however they lie, and     *)
(* whether the output was sorted or not.                                   *)
(***************************************************************************)
VerdictsRight ==
  (\A r \in Rank : pc[r] = "done") => \A r \in Rank : CheckOrder(r) <=> AsSaid(Places(r))
=============================================================================
