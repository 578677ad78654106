----------------------------- MODULE TraceHeader ----------------------------
(***************************************************************************)
(* The SEG-Y trace header: deScale and scaleConv of src/segymd.cc, and     *)
(* what insertParam and extractParam of src/dynsegymd.cc do for a trace.   *)
(*                                                                         *)
(* A coordinate is kept as an integer; a scale, which several coordinates  *)
(* share, tells what to multiply it by (a positive scale) or divide it by  *)
(* (a negative one).  Coordinates are given here as multiples of 1 / Tenk, *)
(* what the smallest scale can still hold.                                 *)
(*                                                                         *)
(* A header is a function from places to what lies there: an integer of    *)
(* four or two bytes, whose order is the matter of getHost and             *)
(* getBigEndian.  Entries are the rule: [type, loc, scal] by meta.         *)
(*                                                                         *)
(* A definition Bug... is not part of the model.  It is the definition     *)
(* after it with a plausible mistake, which the properties are to notice.  *)
(***************************************************************************)
EXTENDS Integers, FiniteSetsExt

CONSTANTS Tens,        \* the scales above 1: {10, 100, 1000, 10000}
          IntMax       \* the greatest int32_t

ASSUME TensAssumption   == Tens \subseteq Nat /\ Tens # {} /\ \A s \in Tens : s > 1
ASSUME IntMaxAssumption == IntMax \in Nat

Tenk == Max(Tens)

\* Conversion to int32_t, division of integers, and lround(a / b).
Wrap(a)     == ((a + IntMax + 1) % (2 * (IntMax + 1))) - IntMax - 1
Quo(a, b)   == IF a < 0 THEN -((-a) \div b) ELSE a \div b
Round(a, b) == IF a < 0 THEN -((2 * (-a) + b) \div (2 * b)) ELSE (2 * a + b) \div (2 * b)

\* What is stored for val under a scale, and read back.  A scale 0 is a 1.
Times(scale)   == IF scale > 0 THEN scale ELSE 1
Divide(scale)  == IF scale < 0 THEN -scale ELSE 1
Stored(val, scale) == Round(val * Divide(scale), Tenk * Times(scale))
Encode(val, scale) == Wrap(Stored(val, scale))
Decode(int, scale) == Quo(int * Times(scale) * Tenk, Divide(scale))

\* A value whose integer part is too large is given the least scale at which
\* it fits; another the one that keeps all its digits or, if that does not
\* fit, fewer of them.
Large(intpart) ==
  LET fit == {s \in Tens : Wrap(Quo(intpart, s)) = Quo(intpart, s)}
  IN  IF fit = {} THEN 0 ELSE Min(fit)

Fraction(val, intpart) ==
  LET digits == val - intpart * Tenk
      keeps(s) == /\ digits % ((Tenk \div s) * 10) # 0
                  /\ Quo(Encode(val, -s), s) = intpart
      kept   == {s \in Tens : keeps(s)}
  IN  IF kept = {} THEN 1 ELSE -Max(kept)

DeScale(val) ==
  LET intpart == Quo(val, Tenk)
  IN  IF Wrap(intpart) # intpart THEN Large(intpart) ELSE Fraction(val, intpart)

\* The scale for the coordinates vals, which share it.
BugCommon(vals) == IF vals = {} THEN 1 ELSE Max({DeScale(v) : v \in vals})
Common(vals) ==
  LET scales == {1} \cup {DeScale(v) : v \in vals}
  IN  IF \E s \in scales : s > 1 THEN Max(scales) ELSE Min(scales)

\* All of vals can be stored at one scale without loss.
Storable(vals) ==
  \E s \in {1} \cup Tens \cup {-t : t \in Tens} :
    \A v \in vals : Decode(Encode(v, s), s) = v /\ Stored(v, s) = Encode(v, s)
-----------------------------------------------------------------------------
Zero == 0
At(h, l) == IF l \in DOMAIN h THEN h[l] ELSE Zero

Kind(entries, types) == {m \in DOMAIN entries : entries[m].type \in types}
Locs(entries, ms)    == {entries[m].loc : m \in ms}

\* The coordinates that share the scale at place l.
Sharing(entries, l) == {m \in Kind(entries, {"Float"}) : entries[m].scal = l}

\* insertParam: the header with the values v, on top of the header h that is
\* kept under a rule with the copy.
Inserted(entries, v, h) ==
  LET floats   == Kind(entries, {"Float"})
      ints     == Kind(entries, {"Long", "Short"})
      scals    == {entries[m].scal : m \in floats}
      scale(l) == Common({v[m] : m \in Sharing(entries, l)})
      at(ms, l) == CHOOSE m \in ms : entries[m].loc = l
      under    == IF Kind(entries, {"Copy"}) # {} THEN h ELSE <<>>
  IN  [l \in DOMAIN under \cup scals \cup Locs(entries, floats \cup ints) |->
         IF l \in scals THEN scale(l)
         ELSE IF l \in Locs(entries, floats)
              THEN LET m == at(floats, l) IN Encode(v[m], scale(entries[m].scal))
         ELSE IF l \in Locs(entries, ints) THEN Wrap(v[at(ints, l)])
         ELSE under[l]]

\* extractParam: what h says of an entry.  Nothing is said of an index.
Said(e, h) == IF e.type = "Float" THEN Decode(At(h, e.loc), At(h, e.scal)) ELSE At(h, e.loc)
=============================================================================
