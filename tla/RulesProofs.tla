---------------------------- MODULE RulesProofs -----------------------------
(***************************************************************************)
(* What holds of Rules for every set of metas and every header size, and   *)
(* of the Param objects that are made with such rules.                     *)
(*                                                                         *)
(* Params implements ParamSpec, whatever the rules, the number of traces   *)
(* and the values: the arrays of Param objects are a table, and setting,   *)
(* extracting or copying a trace disturbs no other entry of it.  The       *)
(* argument: an index of an array is width * trace + column with a column  *)
(* below the width, so it determines both; and two entries of a type never *)
(* share a column.  The latter is an assumption of Params (RulesAssumption)*)
(* and a theorem of Rules (RulesMakeApart).                                *)
(*                                                                         *)
(* The last part is about the digits: the scale that insertParam puts      *)
(* together for coordinates that share one keeps all of them if any scale  *)
(* does.                                                                   *)
(***************************************************************************)
EXTENDS Rules, Params, SharedFacts

\* A rule whose columns are in order, with the copy at its meta only.
RuleOK(q) == /\ Rule(q)
             /\ Dense(q)
             /\ \A m \in DOMAIN q.map : q.map[m].type = "Copy" <=> m = COPY

\* f may be put at m.
Fits(m, f) == m \in Meta /\ f \in Field /\ (f.type = "Copy" <=> m = COPY)

LEMMA WithIs ==
  ASSUME NEW q, Rule(q), NEW m, NEW f, Fits(m, f)
  PROVE  LET w == With(q, m, f)
         IN  /\ Rule(w)
             /\ DOMAIN w.map = DOMAIN q.map \cup {m}
             /\ w.map[m] = [type |-> f.type, num |-> q.num[f.type], lo |-> f.lo, hi |-> f.hi]
             /\ \A k \in DOMAIN q.map \ {m} : w.map[k] = q.map[k]
             /\ \A t \in Type : w.num[t] = IF t = f.type THEN q.num[t] + 1 ELSE q.num[t]
<1> USE DEF Entries
<1> DEFINE w == With(q, m, f)
<1>1. f.type \in Type /\ f.lo \in 0 .. MDSz /\ f.hi \in 0 .. MDSz /\ q.num[f.type] \in Nat
  BY DEF Fits, Field, Rule
<1>2. /\ DOMAIN w = {"map", "num"}
      /\ w.map = [k \in DOMAIN q.map \cup {m} |->
                    IF k = m THEN Entry(f, q.num[f.type]) ELSE q.map[k]]
      /\ w.num = [q.num EXCEPT ![f.type] = @ + 1]
  BY DEF With
<1>3. w.num \in [Type -> Nat] /\ \A t \in Type : w.num[t] = IF t = f.type THEN q.num[t] + 1 ELSE q.num[t]
  BY <1>1, <1>2 DEF Rule
<1>4. /\ DOMAIN w.map = DOMAIN q.map \cup {m}
      /\ w.map[m] = Entry(f, q.num[f.type])
      /\ \A k \in DOMAIN q.map \ {m} : w.map[k] = q.map[k]
  BY <1>2
<1>5. Entry(f, q.num[f.type]) \in Entries
  BY <1>1 DEF Entry
<1>6. Rule(w)
  <2>1. w = [map |-> w.map, num |-> w.num]
    BY DEF With
  <2>2. \A k \in DOMAIN w.map : w.map[k] \in Entries
    BY <1>4, <1>5 DEF Rule
  <2>3. w.map \in [DOMAIN w.map -> Entries]
    BY <1>2, <2>2
  <2>4. DOMAIN w.map \subseteq Meta
    BY <1>4 DEF Fits, Rule
  <2> HIDE DEF w
  <2> QED BY <1>3, <2>1, <2>3, <2>4 DEF Rule
<1> QED BY <1>3, <1>4, <1>6 DEF Entry

LEMMA WithOK ==
  ASSUME NEW q, RuleOK(q), NEW m, NEW f, Fits(m, f), m \notin DOMAIN q.map
  PROVE  RuleOK(With(q, m, f))
<1> USE DEF Entries
<1> DEFINE w == With(q, m, f)
<1>1. /\ Rule(q) /\ Dense(q) /\ f.type \in Type
      /\ \A k \in DOMAIN q.map : q.map[k].type = "Copy" <=> k = COPY
  BY DEF RuleOK, Fits, Field
<1>2. /\ Rule(w)
      /\ DOMAIN w.map = DOMAIN q.map \cup {m}
      /\ w.map[m] = [type |-> f.type, num |-> q.num[f.type], lo |-> f.lo, hi |-> f.hi]
      /\ \A k \in DOMAIN q.map : w.map[k] = q.map[k]
      /\ \A t \in Type : w.num[t] = IF t = f.type THEN q.num[t] + 1 ELSE q.num[t]
  BY <1>1, WithIs
<1> HIDE DEF w
<1>3. /\ w.map[m].type = f.type /\ w.map[m].num = q.num[f.type]
      /\ q.num \in [Type -> Nat]
      /\ \A k \in DOMAIN q.map : q.map[k].type \in Type /\ q.map[k].num \in Nat
  BY <1>1, <1>2 DEF Rule
<1>4. \A k \in DOMAIN w.map : w.map[k].num < w.num[w.map[k].type]
  BY <1>1, <1>2, <1>3 DEF Dense
<1>5. \A j, k \in DOMAIN w.map :
        w.map[j].type = w.map[k].type /\ w.map[j].num = w.map[k].num => j = k
  <2>1. \A k \in DOMAIN q.map : q.map[k].type = f.type => q.map[k].num < q.num[f.type]
    BY <1>1, <1>3 DEF Dense
  <2>2. \A j, k \in DOMAIN q.map :
          q.map[j].type = q.map[k].type /\ q.map[j].num = q.map[k].num => j = k
    BY <1>1 DEF Dense
  <2>3. \A k \in DOMAIN q.map : q.map[k].type = f.type => q.map[k].num # q.num[f.type]
    BY <2>1, <1>1, <1>3
  <2> QED BY <1>2, <1>3, <2>2, <2>3
<1>6. \A t \in Type : \A n \in 0 .. w.num[t] - 1 :
        \E k \in DOMAIN w.map : w.map[k].type = t /\ w.map[k].num = n
  <2> SUFFICES ASSUME NEW t \in Type, NEW n \in 0 .. w.num[t] - 1
               PROVE  \E k \in DOMAIN w.map : w.map[k].type = t /\ w.map[k].num = n
    OBVIOUS
  <2>1. CASE t = f.type /\ n = q.num[t]
    BY <1>2, <1>3, <2>1
  <2>2. CASE ~(t = f.type /\ n = q.num[t])
    <3>1. n \in 0 .. q.num[t] - 1
      BY <1>2, <1>3, <2>2
    <3>2. \E k \in DOMAIN q.map : q.map[k].type = t /\ q.map[k].num = n
      BY <1>1, <3>1 DEF Dense
    <3> QED BY <1>2, <3>2
  <2> QED BY <2>1, <2>2
<1>7. \A k \in DOMAIN w.map : w.map[k].type = "Copy" <=> k = COPY
  BY <1>1, <1>2, <1>3 DEF Fits
<1> QED BY <1>2, <1>4, <1>5, <1>6, <1>7 DEF RuleOK, Dense, w

\* What Without leaves: the columns behind the one of m move up by one.
LEMMA WithoutIs ==
  ASSUME NEW q, RuleOK(q), NEW m \in DOMAIN q.map
  PROVE  LET v == Without(q, m) e == q.map[m]
         IN  /\ Rule(v)
             /\ DOMAIN v.map = DOMAIN q.map \ {m}
             /\ \A k \in DOMAIN v.map :
                  v.map[k] = [q.map[k] EXCEPT !.num =
                                IF q.map[k].type = e.type /\ q.map[k].num > e.num
                                THEN q.map[k].num - 1 ELSE q.map[k].num]
             /\ \A t \in Type : v.num[t] = IF t = e.type THEN q.num[t] - 1 ELSE q.num[t]
<1> USE DEF Entries
<1> DEFINE v == Without(q, m)
           e == q.map[m]
<1>1. /\ Rule(q) /\ q.num \in [Type -> Nat]
      /\ \A k \in DOMAIN q.map : q.map[k] \in Entries
      /\ \A k \in DOMAIN q.map : q.map[k].num < q.num[q.map[k].type]
  BY DEF RuleOK, Rule, Dense
<1>2. e.type \in Type /\ e.num \in Nat /\ q.num[e.type] \in Nat /\ q.num[e.type] > 0
  BY <1>1
<1>3. /\ DOMAIN v = {"map", "num"}
      /\ v.map = [k \in DOMAIN q.map \ {m} |->
                    IF q.map[k].type = e.type /\ q.map[k].num > e.num
                    THEN [q.map[k] EXCEPT !.num = @ - 1] ELSE q.map[k]]
      /\ v.num = [q.num EXCEPT ![e.type] = @ - 1]
  BY DEF Without
<1>4. v.num \in [Type -> Nat] /\ \A t \in Type : v.num[t] = IF t = e.type THEN q.num[t] - 1 ELSE q.num[t]
  BY <1>1, <1>2, <1>3
<1>5. DOMAIN v.map = DOMAIN q.map \ {m}
  BY <1>3
<1>6. ASSUME NEW k \in DOMAIN v.map
      PROVE  /\ v.map[k] = [q.map[k] EXCEPT !.num =
                              IF q.map[k].type = e.type /\ q.map[k].num > e.num
                              THEN q.map[k].num - 1 ELSE q.map[k].num]
             /\ v.map[k] \in Entries
  <2>1. q.map[k] \in Entries
    BY <1>1, <1>5, <1>6
  <2>2. v.map[k] = IF q.map[k].type = e.type /\ q.map[k].num > e.num
                   THEN [q.map[k] EXCEPT !.num = q.map[k].num - 1] ELSE q.map[k]
    BY <1>3, <1>5, <1>6
  <2>3. [q.map[k] EXCEPT !.num = q.map[k].num] = q.map[k]
    BY <2>1
  <2>4. q.map[k].type = e.type /\ q.map[k].num > e.num => q.map[k].num - 1 \in Nat
    BY <1>2, <2>1
  <2>5. v.map[k] \in Entries
    BY <2>1, <2>2, <2>4
  <2> QED BY <2>2, <2>3, <2>5
<1>7. Rule(v)
  <2>1. v = [map |-> v.map, num |-> v.num]
    BY DEF Without
  <2>2. v.map \in [DOMAIN v.map -> Entries]
    BY <1>3, <1>6
  <2>3. DOMAIN v.map \subseteq Meta
    BY <1>5 DEF RuleOK, Rule
  <2> HIDE DEF v
  <2> QED BY <1>4, <2>1, <2>2, <2>3 DEF Rule
<1> QED BY <1>4, <1>5, <1>6, <1>7

LEMMA WithoutOK ==
  ASSUME NEW q, RuleOK(q), NEW m \in DOMAIN q.map
  PROVE  RuleOK(Without(q, m))
<1> USE DEF Entries
<1> DEFINE v == Without(q, m)
           T == q.map[m].type
           p == q.map[m].num
<1>1. /\ Rule(q) /\ Dense(q)
      /\ \A k \in DOMAIN q.map : q.map[k].type = "Copy" <=> k = COPY
  BY DEF RuleOK
<1>2. /\ q.num \in [Type -> Nat] /\ T \in Type /\ p \in Nat
      /\ \A k \in DOMAIN q.map : q.map[k] \in Entries
  BY <1>1 DEF Rule
<1>3. /\ Rule(v)
      /\ DOMAIN v.map = DOMAIN q.map \ {m}
      /\ \A t \in Type : v.num[t] = IF t = T THEN q.num[t] - 1 ELSE q.num[t]
  BY WithoutIs
<1>4. ASSUME NEW k \in DOMAIN v.map
      PROVE  /\ v.map[k].type = q.map[k].type
             /\ v.map[k].num = IF q.map[k].type = T /\ q.map[k].num > p
                               THEN q.map[k].num - 1 ELSE q.map[k].num
             /\ q.map[k].type \in Type /\ q.map[k].num \in Nat
             /\ q.map[k].num < q.num[q.map[k].type]
             /\ q.map[k].type = T => q.map[k].num # p
  <2>1. k \in DOMAIN q.map /\ k # m
    BY <1>3, <1>4
  <2>2. q.map[k] \in Entries
    BY <1>2, <2>1
  <2>3. v.map[k] = [q.map[k] EXCEPT !.num = IF q.map[k].type = T /\ q.map[k].num > p
                                            THEN q.map[k].num - 1 ELSE q.map[k].num]
    BY <1>4, WithoutIs
  <2>4. q.map[k].num < q.num[q.map[k].type] /\ (q.map[k].type = T => q.map[k].num # p)
    BY <1>1, <2>1 DEF Dense
  <2> QED BY <2>2, <2>3, <2>4
<1> HIDE DEF v
<1>5. \A k \in DOMAIN v.map : v.map[k].num < v.num[v.map[k].type]
  <2> SUFFICES ASSUME NEW k \in DOMAIN v.map
               PROVE  v.map[k].num < v.num[v.map[k].type]
    OBVIOUS
  <2>1. p < q.num[T]
    BY <1>1 DEF Dense
  <2> QED BY <1>2, <1>3, <1>4, <2>1
<1>6. ASSUME NEW j \in DOMAIN v.map, NEW k \in DOMAIN v.map,
             v.map[j].type = v.map[k].type, v.map[j].num = v.map[k].num
      PROVE  j = k
  <2>1. q.map[j].type = q.map[k].type
    BY <1>4, <1>6
  <2>2. q.map[j].num = q.map[k].num
    BY <1>2, <1>4, <1>6, <2>1
  <2> QED BY <1>1, <1>3, <2>1, <2>2 DEF Dense
<1>7. ASSUME NEW t \in Type, NEW n \in 0 .. v.num[t] - 1
      PROVE  \E k \in DOMAIN v.map : v.map[k].type = t /\ v.map[k].num = n
  <2> DEFINE old == IF t = T /\ n >= p THEN n + 1 ELSE n
  <2>1. old \in 0 .. q.num[t] - 1 /\ n \in Nat /\ (t = T => old # p)
    BY <1>2, <1>3
  <2>2. PICK k \in DOMAIN q.map : q.map[k].type = t /\ q.map[k].num = old
    BY <1>1, <2>1 DEF Dense
  <2>3. k \in DOMAIN v.map
    BY <1>3, <2>1, <2>2
  <2>4. v.map[k].type = t
    BY <1>4, <2>2, <2>3
  <2>5. v.map[k].num = n
    BY <1>2, <1>4, <2>1, <2>2, <2>3
  <2> QED BY <2>3, <2>4, <2>5
<1>8. \A k \in DOMAIN v.map : v.map[k].type = "Copy" <=> k = COPY
  BY <1>1, <1>3, <1>4
<1> QED BY <1>3, <1>5, <1>6, <1>7, <1>8 DEF RuleOK, Dense, v

(***************************************************************************)
(* Taking back the latest of the entries gives the rule there was.         *)
(***************************************************************************)
LEMMA TakeBack ==
  ASSUME NEW q, RuleOK(q), NEW m, NEW f, Fits(m, f), m \notin DOMAIN q.map
  PROVE  Without(With(q, m, f), m) = q
<1> USE DEF Entries
<1> DEFINE w == With(q, m, f)
           v == Without(w, m)
<1>1. RuleOK(w)
  BY WithOK
<1>2. /\ Rule(q) /\ Dense(q) /\ f.type \in Type /\ q.num[f.type] \in Nat
      /\ q.num \in [Type -> Nat]
  BY DEF RuleOK, Rule, Fits, Field
<1>3. /\ DOMAIN w.map = DOMAIN q.map \cup {m}
      /\ w.map[m] = [type |-> f.type, num |-> q.num[f.type], lo |-> f.lo, hi |-> f.hi]
      /\ \A k \in DOMAIN q.map \ {m} : w.map[k] = q.map[k]
      /\ \A t \in Type : w.num[t] = IF t = f.type THEN q.num[t] + 1 ELSE q.num[t]
  BY <1>2, WithIs
<1>4. m \in DOMAIN w.map /\ w.map[m].type = f.type /\ w.map[m].num = q.num[f.type]
  BY <1>3
<1>5. /\ v.map = [k \in DOMAIN w.map \ {m} |->
                    IF w.map[k].type = w.map[m].type /\ w.map[k].num > w.map[m].num
                    THEN [w.map[k] EXCEPT !.num = @ - 1] ELSE w.map[k]]
      /\ v.num = [w.num EXCEPT ![w.map[m].type] = @ - 1]
  BY <1>4 DEF Without
<1>6. w.num \in [Type -> Nat] /\ DOMAIN v.map = DOMAIN q.map
  BY <1>1, <1>3, <1>5 DEF RuleOK, Rule
<1> HIDE DEF w
<1>7. ASSUME NEW k \in DOMAIN q.map
      PROVE  v.map[k] = q.map[k]
  <2>1. w.map[k] = q.map[k] /\ k \in DOMAIN w.map \ {m}
    BY <1>3, <1>7
  <2>2. q.map[k].type = f.type => q.map[k].num < q.num[f.type]
    BY <1>2, <1>7 DEF Dense
  <2>3. q.map[k].num \in Nat
    BY <1>2, <1>7 DEF Rule
  <2> QED BY <1>2, <1>4, <1>5, <2>1, <2>2, <2>3
<1>8. v.map = q.map
  <2>1. v.map = [k \in DOMAIN v.map |-> v.map[k]]
    BY <1>5
  <2>2. q.map = [k \in DOMAIN q.map |-> q.map[k]]
    BY <1>2 DEF Rule
  <2> QED BY <1>6, <1>7, <2>1, <2>2
<1>9. v.num = q.num
  <2>1. v.num[f.type] = q.num[f.type]
    BY <1>2, <1>3, <1>4, <1>5, <1>6
  <2>2. \A t \in Type : t # f.type => v.num[t] = q.num[t]
    BY <1>2, <1>3, <1>4, <1>5, <1>6
  <2>3. v.num = [t \in Type |-> v.num[t]]
    BY <1>5, <1>6
  <2>4. q.num = [t \in Type |-> q.num[t]]
    BY <1>2
  <2> QED BY <2>1, <2>2, <2>3, <2>4
<1>10. v = [map |-> v.map, num |-> v.num]
  BY <1>4 DEF Without
<1>11. q = [map |-> q.map, num |-> q.num]
  BY <1>2 DEF Rule
<1> HIDE DEF v
<1> QED BY <1>8, <1>9, <1>10, <1>11 DEF v, w

(***************************************************************************)
(* Taking back the entry before the latest gives what the latest alone     *)
(* would have given.                                                       *)
(***************************************************************************)
LEMMA TakeBackFirst ==
  ASSUME NEW q, RuleOK(q), NEW m, NEW f, Fits(m, f), m \notin DOMAIN q.map,
         NEW k, NEW g, Fits(k, g), k \notin DOMAIN q.map, k # m
  PROVE  Without(With(With(q, m, f), k, g), m) = With(q, k, g)
<1> USE DEF Entries
<1> DEFINE w == With(q, m, f)
           u == With(w, k, g)
           v == Without(u, m)
           z == With(q, k, g)
<1>1. /\ Rule(q) /\ Dense(q) /\ q.num \in [Type -> Nat]
      /\ f.type \in Type /\ g.type \in Type
  BY DEF RuleOK, Rule, Fits, Field
<1>2. /\ Rule(w) /\ DOMAIN w.map = DOMAIN q.map \cup {m}
      /\ w.map[m] = [type |-> f.type, num |-> q.num[f.type], lo |-> f.lo, hi |-> f.hi]
      /\ \A x \in DOMAIN q.map \ {m} : w.map[x] = q.map[x]
      /\ \A t \in Type : w.num[t] = IF t = f.type THEN q.num[t] + 1 ELSE q.num[t]
  BY <1>1, WithIs
<1>3. RuleOK(w) /\ RuleOK(z)
  BY WithOK
<1>4. RuleOK(u)
  <2> HIDE DEF w
  <2>1. k \notin DOMAIN w.map
    BY <1>2
  <2> QED BY <1>3, <2>1, WithOK
<1>5. /\ DOMAIN u.map = DOMAIN w.map \cup {k}
      /\ u.map[k] = [type |-> g.type, num |-> w.num[g.type], lo |-> g.lo, hi |-> g.hi]
      /\ \A x \in DOMAIN w.map \ {k} : u.map[x] = w.map[x]
      /\ \A t \in Type : u.num[t] = IF t = g.type THEN w.num[t] + 1 ELSE w.num[t]
  BY <1>2, WithIs
<1>6. /\ DOMAIN z.map = DOMAIN q.map \cup {k}
      /\ z.map[k] = [type |-> g.type, num |-> q.num[g.type], lo |-> g.lo, hi |-> g.hi]
      /\ \A x \in DOMAIN q.map \ {k} : z.map[x] = q.map[x]
      /\ \A t \in Type : z.num[t] = IF t = g.type THEN q.num[t] + 1 ELSE q.num[t]
  BY <1>1, WithIs
<1>7. m \in DOMAIN u.map /\ u.map[m].type = f.type /\ u.map[m].num = q.num[f.type]
  BY <1>2, <1>5
<1>8. /\ v.map = [x \in DOMAIN u.map \ {m} |->
                    IF u.map[x].type = u.map[m].type /\ u.map[x].num > u.map[m].num
                    THEN [u.map[x] EXCEPT !.num = @ - 1] ELSE u.map[x]]
      /\ v.num = [u.num EXCEPT ![u.map[m].type] = @ - 1]
      /\ v = [map |-> v.map, num |-> v.num]
  BY <1>7 DEF Without
<1>9. /\ u.num \in [Type -> Nat] /\ z.num \in [Type -> Nat]
      /\ z.map = [x \in DOMAIN z.map |-> z.map[x]]
      /\ z = [map |-> z.map, num |-> z.num]
  BY <1>3, <1>4 DEF RuleOK, Rule
<1> HIDE DEF w, u, v, z
<1>10. DOMAIN v.map = DOMAIN z.map
  BY <1>2, <1>5, <1>6, <1>8
<1>11. ASSUME NEW x \in DOMAIN z.map
       PROVE  v.map[x] = z.map[x]
  <2>1. CASE x = k
    <3>1. x \in DOMAIN u.map \ {m} /\ u.map[x].type = g.type
          /\ u.map[x].num = IF g.type = f.type THEN q.num[g.type] + 1 ELSE q.num[g.type]
      BY <1>1, <1>2, <1>5, <2>1
    <3>2. q.num[f.type] \in Nat /\ q.num[g.type] \in Nat
      BY <1>1
    <3>3. u.map[x] = [type |-> g.type, num |-> u.map[x].num, lo |-> g.lo, hi |-> g.hi]
      BY <1>5, <2>1
    <3>4. CASE g.type = f.type
      <4>1. v.map[x] = [u.map[x] EXCEPT !.num = @ - 1]
        BY <1>7, <1>8, <3>1, <3>2, <3>4
      <4>2. u.map[x].num - 1 = q.num[g.type]
        BY <3>1, <3>2, <3>4
      <4>3. [u.map[x] EXCEPT !.num = @ - 1]
              = [type |-> g.type, num |-> u.map[x].num - 1, lo |-> g.lo, hi |-> g.hi]
        BY <3>3
      <4> QED BY <1>6, <2>1, <4>1, <4>2, <4>3
    <3>5. CASE g.type # f.type
      <4>1. v.map[x] = u.map[x]
        BY <1>7, <1>8, <3>1, <3>5
      <4> QED BY <1>6, <2>1, <3>1, <3>3, <3>5, <4>1
    <3> QED BY <3>4, <3>5
  <2>2. CASE x # k
    <3>1. x \in DOMAIN q.map /\ x # m
      BY <1>6, <2>2
    <3>2. u.map[x] = q.map[x] /\ x \in DOMAIN u.map \ {m} /\ z.map[x] = q.map[x]
      BY <1>2, <1>5, <1>6, <2>2, <3>1
    <3>3. q.map[x].type = f.type => q.map[x].num < q.num[f.type]
      BY <1>1, <3>1 DEF Dense
    <3>4. q.map[x].num \in Nat /\ q.num[f.type] \in Nat
      BY <1>1, <3>1 DEF Rule
    <3> QED BY <1>7, <1>8, <3>2, <3>3, <3>4
  <2> QED BY <2>1, <2>2
<1>12. v.map = z.map
  <2>1. v.map = [x \in DOMAIN v.map |-> v.map[x]]
    BY <1>8
  <2> QED BY <1>9, <1>10, <1>11, <2>1
<1>13. v.num = z.num
  <2>1. v.num = [t \in Type |-> IF t = f.type THEN u.num[t] - 1 ELSE u.num[t]]
    BY <1>1, <1>7, <1>8, <1>9
  <2>2. z.num = [t \in Type |-> z.num[t]]
    BY <1>9
  <2>3. \A t \in Type : (IF t = f.type THEN u.num[t] - 1 ELSE u.num[t]) = z.num[t]
    <3> SUFFICES ASSUME NEW t \in Type
                 PROVE  (IF t = f.type THEN u.num[t] - 1 ELSE u.num[t]) = z.num[t]
      OBVIOUS
    <3>1. q.num[t] \in Nat
      BY <1>1
    <3> QED BY <1>2, <1>5, <1>6, <3>1
  <2> QED BY <2>1, <2>2, <2>3
<1> QED BY <1>8, <1>9, <1>12, <1>13 DEF u, v, w, z
-----------------------------------------------------------------------------
LEMMA EnsuredOK ==
  ASSUME NEW q, RuleOK(q), NEW m \in Coordinate
  PROVE  RuleOK(Ensured(q, m)) /\ Fits(m, Default[m]) /\ DOMAIN Ensured(q, m).map = DOMAIN q.map \cup {m}
<1>1. Fits(m, Default[m])
  BY FieldsAssumption DEF Coordinate, FieldMap, Fits
<1>2. CASE m \in DOMAIN q.map
  BY <1>1, <1>2 DEF Ensured
<1>3. CASE m \notin DOMAIN q.map
  <2>1. Ensured(q, m) = With(q, m, Default[m])
    BY <1>3 DEF Ensured
  <2>2. RuleOK(With(q, m, Default[m]))
    BY <1>1, <1>3, WithOK
  <2>3. DOMAIN With(q, m, Default[m]).map = DOMAIN q.map \cup {m}
    BY DEF With
  <2> QED BY <1>1, <2>1, <2>2, <2>3
<1> QED BY <1>2, <1>3

(***************************************************************************)
(* What getMinMax adds it takes back, and nothing else.                    *)
(***************************************************************************)
LEMMA Restored ==
  ASSUME NEW q, RuleOK(q), NEW m1 \in Coordinate, NEW m2 \in Coordinate,
         NEW a1, a1 = (m1 \notin DOMAIN q.map),
         NEW a2, a2 = (m2 \notin DOMAIN Ensured(q, m1).map)
  PROVE  TakenBack(TakenBack(Ensured(Ensured(q, m1), m2), m1, a1), m2, a2) = q
<1>1. Fits(m1, Default[m1]) /\ Fits(m2, Default[m2])
  BY EnsuredOK
<1>2. DOMAIN Ensured(q, m1).map = DOMAIN q.map \cup {m1}
  BY EnsuredOK
<1>3. CASE a1 /\ a2
  <2>1. m1 \notin DOMAIN q.map /\ m2 \notin DOMAIN q.map /\ m1 # m2
    BY <1>2, <1>3
  <2>2. Ensured(Ensured(q, m1), m2) = With(With(q, m1, Default[m1]), m2, Default[m2])
    BY <1>2, <1>3, <2>1 DEF Ensured
  <2> QED BY <1>1, <1>3, <2>1, <2>2, TakeBackFirst, TakeBack DEF TakenBack
<1>4. CASE a1 /\ ~a2
  <2>1. m1 \notin DOMAIN q.map
    BY <1>4
  <2>2. Ensured(Ensured(q, m1), m2) = With(q, m1, Default[m1])
    BY <1>4, <2>1 DEF Ensured
  <2> QED BY <1>1, <1>4, <2>1, <2>2, TakeBack DEF TakenBack
<1>5. CASE ~a1 /\ a2
  <2>1. m2 \notin DOMAIN q.map /\ Ensured(q, m1) = q
    BY <1>2, <1>5 DEF Ensured
  <2>2. Ensured(Ensured(q, m1), m2) = With(q, m2, Default[m2])
    BY <2>1 DEF Ensured
  <2> QED BY <1>1, <1>5, <2>1, <2>2, TakeBack DEF TakenBack
<1>6. CASE ~a1 /\ ~a2
  <2>1. Ensured(q, m1) = q /\ Ensured(q, m2) = q
    BY <1>6 DEF Ensured
  <2> QED BY <1>6, <2>1 DEF TakenBack
<1> QED BY <1>3, <1>4, <1>5, <1>6
-----------------------------------------------------------------------------
(***************************************************************************)
(* The inductive invariant.  While getMinMax is under way the rule is the  *)
(* one before it with the two entries ensured, because nothing else        *)
(* changes the rule in the meantime.                                       *)
(***************************************************************************)
Bracket == \/ minmax = [in |-> FALSE]
           \/ /\ minmax.in = TRUE
              /\ DOMAIN rest = {}
              /\ RuleOK(minmax.before)
              /\ minmax.m1 \in Coordinate /\ minmax.m2 \in Coordinate
              /\ minmax.add1 = (minmax.m1 \notin DOMAIN minmax.before.map)
              /\ minmax.add2 = (minmax.m2 \notin DOMAIN Ensured(minmax.before, minmax.m1).map)
              /\ rule = Ensured(Ensured(minmax.before, minmax.m1), minmax.m2)

IInv == RuleOK(rule) /\ FieldMap(rest) /\ Bracket

LEMMA InitInv == Init => IInv
<1> SUFFICES ASSUME Init PROVE IInv
  OBVIOUS
<1> USE MetaAssumption
<1>1. RuleOK(Empty)
  <2>1. Empty.map = [k \in {} |-> Entry(IndexField, 0)] /\ Empty.num = [t \in Type |-> 0]
        /\ Empty = [map |-> Empty.map, num |-> Empty.num]
    BY DEF Empty
  <2>2. DOMAIN Empty.map = {} /\ Empty.map \in [{} -> Entries] /\ Empty.num \in [Type -> Nat]
    BY <2>1
  <2> HIDE DEF Empty
  <2>3. Rule(Empty)
    BY <2>1, <2>2 DEF Rule
  <2>4. Dense(Empty)
    BY <2>1, <2>2 DEF Dense
  <2> QED BY <2>2, <2>3, <2>4 DEF RuleOK
<1>2. Fits(gtn, IndexField) /\ Fits(ltn, IndexField)
  <2>1. 0 \in 0 .. MDSz
    BY MDSzAssumption
  <2> QED BY <2>1 DEF Fits, Field, IndexField, Type
<1>3. DOMAIN Empty.map = {}
  BY DEF Empty
<1>4. RuleOK(With(Empty, gtn, IndexField))
  BY <1>1, <1>2, <1>3, WithOK
<1>5. DOMAIN With(Empty, gtn, IndexField).map = {gtn}
  BY <1>3 DEF With
<1>6. RuleOK(rule)
  BY <1>2, <1>4, <1>5, WithOK DEF Init
<1>7. FieldMap(rest) /\ Bracket
  BY DEF Init, NoRest, FieldMap, Bracket
<1> QED BY <1>6, <1>7 DEF IInv

LEMMA NextInv == IInv /\ [Next]_vars => IInv'
<1> SUFFICES ASSUME IInv, [Next]_vars PROVE IInv'
  OBVIOUS
<1> USE FieldsAssumption
<1>1. RuleOK(rule) /\ FieldMap(rest) /\ Bracket
  BY DEF IInv
\* While no getMinMax is under way, a sound rule is all there is to show.
<1>2. ASSUME RuleOK(rule'), FieldMap(rest'), minmax' = [in |-> FALSE]
      PROVE  IInv'
  BY <1>2 DEF IInv, Bracket
<1>3. Idle => minmax = [in |-> FALSE]
  BY <1>1 DEF Idle, Bracket
<1>4. ASSUME UNCHANGED <<rule, rest, minmax>>
      PROVE  IInv'
  BY <1>4 DEF IInv, Bracket, FieldMap
<1>5. ASSUME NEW m \in Meta, AddRule(m)
      PROVE  IInv'
  <2>1. Fits(m, Default[m]) /\ m \notin DOMAIN rule.map
    BY <1>5 DEF AddRule, Addable, Present, FieldMap, Fits
  <2>2. RuleOK(rule')
    BY <1>1, <1>5, <2>1, WithOK DEF AddRule
  <2> QED BY <1>1, <1>2, <1>3, <1>5, <2>2 DEF AddRule
<1>6. ASSUME NEW m \in Meta, NEW f \in Fields, AddField(m, f)
      PROVE  IInv'
  <2>1. CASE Crash
    BY <1>4, <2>1 DEF Crash
  <2>2. CASE ~Crash
    <3>1. rule' = Replace(m, f) /\ UNCHANGED <<rest, minmax>> /\ m # COPY /\ Idle
      BY <1>6, <2>2 DEF AddField
    <3>2. Fits(m, f)
      BY <3>1 DEF Fits
    <3>3. RuleOK(Without(rule, m)) /\ m \notin DOMAIN Without(rule, m).map
      <4>1. CASE m \in DOMAIN rule.map
        <5>1. DOMAIN Without(rule, m).map = DOMAIN rule.map \ {m}
          BY <4>1 DEF Without
        <5> QED BY <1>1, <4>1, <5>1, WithoutOK
      <4>2. CASE m \notin DOMAIN rule.map
        BY <1>1, <4>2 DEF Without
      <4> QED BY <4>1, <4>2
    <3>4. RuleOK(rule')
      BY <3>1, <3>2, <3>3, WithOK DEF Replace
    <3> QED BY <1>1, <1>2, <1>3, <3>1, <3>4
  <2> QED BY <2>1, <2>2
<1>7. ASSUME AddCopy
      PROVE  IInv'
  <2>1. Fits(COPY, CopyField)
    BY MetaAssumption, MDSzAssumption DEF Fits, Field, CopyField, Type
  <2>2. COPY \notin DOMAIN rule.map
    <3>1. ASSUME COPY \in DOMAIN rule.map
          PROVE  FALSE
      <4>1. rule.map[COPY].type = "Copy" /\ rule.map[COPY].num \in Nat
        BY <1>1, <3>1 DEF RuleOK, Rule, Entries
      <4>2. rule.map[COPY].num < 0
        BY <1>1, <1>7, <3>1, <4>1 DEF RuleOK, Dense, AddCopy
      <4> QED BY <4>1, <4>2
    <3> QED BY <3>1
  <2>3. RuleOK(rule')
    BY <1>1, <1>7, <2>1, <2>2, WithOK DEF AddCopy
  <2> QED BY <1>1, <1>2, <1>3, <1>7, <2>3 DEF AddCopy
<1>8. ASSUME NEW m \in Meta, RmRule(m)
      PROVE  IInv'
  <2>1. CASE Crash
    BY <1>4, <2>1 DEF Crash
  <2>2. CASE ~Crash
    <3>1. rule' = Without(rule, m) /\ UNCHANGED <<rest, minmax>> /\ Idle /\ m \in DOMAIN rule.map
      BY <1>8, <2>2 DEF RmRule, Present
    <3>2. RuleOK(rule')
      BY <1>1, <3>1, WithoutOK
    <3> QED BY <1>1, <1>2, <1>3, <3>1, <3>2
  <2> QED BY <2>1, <2>2
<1>9. ASSUME NEW o \in Others, AddRules(o)
      PROVE  IInv'
  BY <1>1, <1>2, <1>3, <1>9 DEF AddRules
<1>10. ASSUME NEW m \in Meta, NextRule(m)
       PROVE  IInv'
  <2>1. minmax = [in |-> FALSE] /\ UNCHANGED minmax
    BY <1>1, <1>10 DEF NextRule, Bracket
  <2>2. FieldMap(rest')
    <3>1. /\ DOMAIN rest' = DOMAIN rest \ {m}
          /\ \A k \in DOMAIN rest' : rest'[k] = rest[k]
      BY <1>10 DEF NextRule
    <3> QED BY <1>1, <3>1 DEF FieldMap
  <2>3. RuleOK(rule')
    <3>1. CASE Present(m)
      BY <1>1, <1>10, <3>1 DEF NextRule
    <3>2. CASE ~Present(m)
      <4>1. Fits(m, rest[m]) /\ m \notin DOMAIN rule.map
        BY <1>1, <1>10, <3>2 DEF NextRule, FieldMap, Fits, Present
      <4>2. rule' = With(rule, m, rest[m])
        BY <1>10, <3>2 DEF NextRule
      <4> QED BY <1>1, <4>1, <4>2, WithOK
    <3> QED BY <3>1, <3>2
  <2> QED BY <1>2, <2>1, <2>2, <2>3
<1>11. ASSUME Extent
       PROVE  IInv'
  BY <1>4, <1>11 DEF Extent, Crash
<1>12. ASSUME NEW m \in Asked, GetEntry(m)
       PROVE  IInv'
  BY <1>4, <1>12 DEF GetEntry
<1>13. ASSUME NEW m1 \in Coordinate, NEW m2 \in Coordinate, MinMax(m1, m2)
       PROVE  IInv'
  <2>1. CASE Crash
    BY <1>4, <2>1 DEF Crash
  <2>2. CASE ~Crash
    <3>1. /\ rule' = Ensured(Ensured(rule, m1), m2)
          /\ minmax' = [in |-> TRUE, m1 |-> m1, m2 |-> m2, before |-> rule,
                        add1 |-> ~Present(m1),
                        add2 |-> m2 \notin DOMAIN Ensured(rule, m1).map]
          /\ UNCHANGED rest /\ Idle /\ m1 \notin null
      BY <1>13, <2>2 DEF MinMax
    <3>2. RuleOK(rule')
      <4>1. RuleOK(Ensured(rule, m1))
        BY <1>1, EnsuredOK
      <4> QED BY <3>1, <4>1, EnsuredOK
    <3>3. FieldMap(rest')
      BY <1>1, <3>1 DEF FieldMap
    <3>4. /\ minmax'.in = TRUE /\ minmax'.m1 = m1 /\ minmax'.m2 = m2 /\ minmax'.before = rule
          /\ minmax'.add1 = (m1 \notin DOMAIN rule.map)
          /\ minmax'.add2 = (m2 \notin DOMAIN Ensured(rule, m1).map)
      BY <3>1 DEF Present
    <3>5. DOMAIN rest' = {}
      BY <3>1 DEF Idle
    <3>6. Bracket'
      BY <1>1, <3>1, <3>4, <3>5 DEF Bracket
    <3> QED BY <3>2, <3>3, <3>6 DEF IInv
  <2> QED BY <2>1, <2>2
<1>14. ASSUME MinMaxEnd
       PROVE  IInv'
  <2>1. CASE Crash
    BY <1>4, <2>1 DEF Crash
  <2>2. CASE ~Crash
    <3>1. /\ rule' = TakenBack(TakenBack(rule, minmax.m1, minmax.add1), minmax.m2, minmax.add2)
          /\ minmax' = [in |-> FALSE] /\ UNCHANGED rest /\ minmax.in
      BY <1>14, <2>2 DEF MinMaxEnd
    <3>2. rule' = minmax.before /\ RuleOK(minmax.before)
      BY <1>1, <3>1, Restored DEF Bracket
    <3> QED BY <1>1, <1>2, <3>1, <3>2
  <2> QED BY <2>1, <2>2
<1>15. CASE UNCHANGED vars
  BY <1>4, <1>15 DEF vars
<1> QED BY <1>5, <1>6, <1>7, <1>8, <1>9, <1>10, <1>11, <1>12, <1>13, <1>14, <1>15
        DEF Next, Crashed

LEMMA RulesInductive == Spec => []IInv
BY InitInv, NextInv, PTL DEF Spec

(***************************************************************************)
(* The extent is found among the places of the entries.                    *)
(***************************************************************************)
LEMMA ExtentTyped ==
  ASSUME RuleOK(rule), ext \in [full : BOOLEAN, bad : BOOLEAN, start : 0 .. MDSz, end : 0 .. MDSz + 1],
         Extent
  PROVE  ext' \in [full : BOOLEAN, bad : BOOLEAN, start : 0 .. MDSz, end : 0 .. MDSz + 1]
<1> USE DEF Entries
<1> DEFINE span == {m \in DOMAIN rule.map : rule.map[m].type # "Index"}
           lows == {MinPlace(rule.map[m]) : m \in span} \cup {MDSz}
           tops == {MaxPlace(rule.map[m]) : m \in span} \cup {0}
           low  == CHOOSE x \in lows : \A y \in lows : x <= y
           top  == CHOOSE x \in tops : \A y \in tops : y <= x
<1>1. CASE null # {}
  BY <1>1 DEF Extent, Crash
<1>2. CASE null = {}
  <2>1. \A m \in DOMAIN rule.map : /\ MinPlace(rule.map[m]) \in 0 .. MDSz + 1
                                   /\ MaxPlace(rule.map[m]) \in 0 .. MDSz + 1
    BY MDSzAssumption DEF RuleOK, Rule, MinPlace, MaxPlace
  <2>2. /\ lows \subseteq 0 .. MDSz + 1 /\ MDSz \in lows
        /\ tops \subseteq 0 .. MDSz + 1 /\ tops # {}
    BY <2>1, MDSzAssumption
  <2>3. ext' = [ext EXCEPT !.bad = FALSE, !.start = low, !.end = top]
    BY <1>2 DEF Extent
  <2> HIDE DEF lows, tops
  <2>4. low \in 0 .. MDSz
    <3>1. lows \in SUBSET Nat
      BY <2>2, MDSzAssumption
    <3>2. \E x \in lows : \A y \in lows : x <= y
      BY <2>2, <3>1, LeastNat
    <3>3. low \in lows /\ low <= MDSz
      BY <2>2, <3>2
    <3>4. low \in 0 .. MDSz + 1
      BY <2>2, <3>3
    <3> HIDE DEF low
    <3> QED BY <3>3, <3>4, MDSzAssumption
  <2>5. top \in 0 .. MDSz + 1
    <3>1. tops \in SUBSET Nat /\ MDSz + 1 \in Nat /\ \A x \in tops : x <= MDSz + 1
      BY <2>2, MDSzAssumption
    <3>2. \E x \in tops : \A y \in tops : y <= x
      BY <2>2, <3>1, GreatestNat
    <3> QED BY <2>2, <3>2
  <2> HIDE DEF low, top
  <2> QED BY <2>3, <2>4, <2>5
<1> QED BY <1>1, <1>2

\* The flags beside the rule, which play no part in the columns.
Flags == /\ null \subseteq Meta
         /\ ext \in [full : BOOLEAN, bad : BOOLEAN, start : 0 .. MDSz, end : 0 .. MDSz + 1]
         /\ alive \in BOOLEAN

LEMMA FlagsKept == IInv /\ Flags /\ [Next]_vars => Flags'
<1> SUFFICES ASSUME IInv, Flags, [Next]_vars PROVE Flags'
  OBVIOUS
<1> USE DEF Flags
<1>1. Stale \in [full : BOOLEAN, bad : BOOLEAN, start : 0 .. MDSz, end : 0 .. MDSz + 1]
  BY DEF Stale
<1>2. \A f : StaleWith(f) \in [full : BOOLEAN, bad : BOOLEAN, start : 0 .. MDSz, end : 0 .. MDSz + 1]
  BY <1>1 DEF StaleWith
<1>3. Crash => Flags'
  BY DEF Crash
<1>4. ASSUME NEW m \in Meta, AddRule(m) PROVE Flags'
  BY <1>2, <1>4 DEF AddRule
<1>5. ASSUME NEW m \in Meta, NEW f \in Fields, AddField(m, f) PROVE Flags'
  BY <1>1, <1>2, <1>3, <1>5 DEF AddField
<1>6. ASSUME AddCopy PROVE Flags'
  BY <1>6 DEF AddCopy
<1>7. ASSUME NEW m \in Meta, RmRule(m) PROVE Flags'
  BY <1>1, <1>3, <1>7 DEF RmRule
<1>8. ASSUME NEW o \in Others, AddRules(o) PROVE Flags'
  BY <1>8 DEF AddRules
<1>9. ASSUME NEW m \in Meta, NextRule(m) PROVE Flags'
  BY <1>2, <1>9 DEF NextRule
<1>10. ASSUME Extent PROVE Flags'
  <2>1. null' = null /\ alive' \in BOOLEAN
    BY <1>10 DEF Extent, Crash
  <2> QED BY <1>10, <2>1, ExtentTyped DEF IInv
<1>11. ASSUME NEW m \in Asked, GetEntry(m) PROVE Flags'
  BY <1>11, AskedAssumption DEF GetEntry
<1>12. ASSUME NEW m1 \in Coordinate, NEW m2 \in Coordinate, MinMax(m1, m2) PROVE Flags'
  BY <1>1, <1>3, <1>12 DEF MinMax
<1>13. ASSUME MinMaxEnd PROVE Flags'
  BY <1>1, <1>3, <1>13 DEF MinMaxEnd
<1>14. CASE UNCHANGED vars
  BY <1>14 DEF vars
<1> QED BY <1>4, <1>5, <1>6, <1>7, <1>8, <1>9, <1>10, <1>11, <1>12, <1>13, <1>14
        DEF Next, Crashed

(***************************************************************************)
(* The rule, the flags and the extent keep their types under every         *)
(* sequence of operations.                                                 *)
(***************************************************************************)
THEOREM RulesTyped == Spec => []TypeOK
<1>1. Init => Flags
  <2> DEFINE B == 0 .. MDSz
             C == 0 .. MDSz + 1
  <2>1. 0 \in B /\ MDSz \in B /\ 0 \in C /\ MDSz \in C
    BY MDSzAssumption
  <2>2. ASSUME Init PROVE ext \in [full : BOOLEAN, bad : BOOLEAN, start : 0 .. MDSz, end : 0 .. MDSz + 1]
    <3>1. \/ ext = [full |-> TRUE,  bad |-> FALSE, start |-> 0, end |-> MDSz]
          \/ ext = [full |-> FALSE, bad |-> FALSE, start |-> MDSz, end |-> 0]
      BY <2>2 DEF Init
    <3>3. CASE ext = [full |-> TRUE,  bad |-> FALSE, start |-> 0, end |-> MDSz]
      <4> HIDE DEF B, C
      <4>1. ext \in [full : BOOLEAN, bad : BOOLEAN, start : B, end : C]
        BY <2>1, <3>3
      <4> QED BY <4>1 DEF B, C
    <3>4. CASE ext = [full |-> FALSE, bad |-> FALSE, start |-> MDSz, end |-> 0]
      <4> HIDE DEF B, C
      <4>1. ext \in [full : BOOLEAN, bad : BOOLEAN, start : B, end : C]
        BY <2>1, <3>4
      <4> QED BY <4>1 DEF B, C
    <3> QED BY <3>1, <3>3, <3>4
  <2>3. ASSUME Init PROVE null \subseteq Meta /\ alive \in BOOLEAN
    BY <2>3 DEF Init
  <2> QED BY <2>2, <2>3 DEF Flags
<1>2. IInv /\ Flags => TypeOK
  BY DEF IInv, RuleOK, Flags, TypeOK
<1> QED BY <1>1, <1>2, InitInv, NextInv, FlagsKept, PTL DEF Spec
-----------------------------------------------------------------------------
\* An extent that spans the whole header is never stale.
FullExtent == ext.full => ~ext.bad /\ ext.start = 0 /\ ext.end = MDSz

ExtentSound == Flags /\ FullExtent /\ ExtentReaches

\* A change that marks the extent leaves it sound: only the one that spans the
\* header is still good, and no field lies outside the header.
LEMMA MarkedSound ==
  ASSUME Flags, FullExtent, Rule(rule'), ext' = Stale
  PROVE  FullExtent' /\ ExtentReaches'
<1>1. ext \in [full : BOOLEAN, bad : BOOLEAN, start : 0 .. MDSz, end : 0 .. MDSz + 1]
  BY DEF Flags
<1>2. /\ ext'.full = ext.full /\ ext'.bad = ~ext.full
      /\ ext'.start = ext.start /\ ext'.end = ext.end
  BY <1>1 DEF Stale
<1>3. CASE ext.full
  <2>1. ext'.start = 0 /\ ext'.end = MDSz /\ ~ext'.bad
    BY <1>2, <1>3 DEF FullExtent
  <2>2. \A m \in DOMAIN rule'.map : 0 <= rule'.map[m].lo /\ rule'.map[m].hi <= MDSz
    BY MDSzAssumption DEF Rule, Entries
  <2>3. \A m \in DOMAIN rule'.map : rule'.map[m].lo + 0 = rule'.map[m].lo
    BY MDSzAssumption DEF Rule, Entries
  <2>4. FullExtent'
    BY <2>1 DEF FullExtent
  <2>5. ExtentReaches'
    BY <1>2, <1>3, <2>1, <2>2, <2>3 DEF ExtentReaches
  <2> QED BY <2>4, <2>5
<1>4. CASE ~ext.full
  BY <1>2, <1>4 DEF FullExtent, ExtentReaches
<1> QED BY <1>3, <1>4

\* A change that does not mark it may add indices and the copy only.
LEMMA UnmarkedSound ==
  ASSUME FullExtent, ExtentReaches, ext' = ext,
         \A m \in DOMAIN rule'.map : Sized(rule'.map[m]) =>
           m \in DOMAIN rule.map /\ rule'.map[m] = rule.map[m]
  PROVE  FullExtent' /\ ExtentReaches'
<1>1. FullExtent'
  BY DEF FullExtent
<1>2. ExtentReaches'
  BY DEF ExtentReaches, Sized
<1> QED BY <1>1, <1>2

LEMMA AddedSound ==
  ASSUME Flags, FullExtent, ExtentReaches, Rule(rule), Rule(rule'), NEW m, NEW f, Fits(m, f),
         rule' = With(rule, m, f), ext' = StaleWith(f)
  PROVE  FullExtent' /\ ExtentReaches'
<1>1. CASE f.type \in {"Index", "Copy"}
  <2>1. ext' = ext
    BY <1>1 DEF StaleWith
  <2>2. /\ DOMAIN rule'.map = DOMAIN rule.map \cup {m}
        /\ rule'.map[m].type = f.type
        /\ \A k \in DOMAIN rule.map \ {m} : rule'.map[k] = rule.map[k]
    <3> DEFINE w == With(rule, m, f)
    <3>1. /\ DOMAIN w.map = DOMAIN rule.map \cup {m}
          /\ w.map[m] = [type |-> f.type, num |-> rule.num[f.type], lo |-> f.lo, hi |-> f.hi]
          /\ \A k \in DOMAIN rule.map \ {m} : w.map[k] = rule.map[k]
      BY WithIs
    <3> HIDE DEF w
    <3>2. rule' = w
      BY DEF w
    <3> QED BY <3>1, <3>2
  <2>3. ~Sized(rule'.map[m])
    BY <1>1, <2>2 DEF Sized
  <2> QED BY <2>1, <2>2, <2>3, UnmarkedSound
<1>2. CASE f.type \notin {"Index", "Copy"}
  <2>1. ext' = Stale
    BY <1>2 DEF StaleWith
  <2> QED BY <2>1, MarkedSound
<1> QED BY <1>1, <1>2

\* The extent that is computed spans every field but those of indices.
LEMMA ComputedSound ==
  ASSUME RuleOK(rule), Flags, FullExtent, Extent
  PROVE  FullExtent' /\ ExtentReaches'
<1> USE DEF Entries
<1> DEFINE span == {m \in DOMAIN rule.map : rule.map[m].type # "Index"}
           lows == {MinPlace(rule.map[m]) : m \in span} \cup {MDSz}
           tops == {MaxPlace(rule.map[m]) : m \in span} \cup {0}
           low  == CHOOSE x \in lows : \A y \in lows : x <= y
           top  == CHOOSE x \in tops : \A y \in tops : y <= x
<1>1. ext.bad /\ ~ext.full
  BY DEF Extent, FullExtent
<1>2. CASE null # {}
  BY <1>1, <1>2 DEF Extent, Crash, FullExtent, ExtentReaches
<1>3. CASE null = {}
  <2>1. \A m \in DOMAIN rule.map : /\ MinPlace(rule.map[m]) \in 0 .. MDSz + 1
                                   /\ MaxPlace(rule.map[m]) \in 0 .. MDSz + 1
    BY MDSzAssumption DEF RuleOK, Rule, MinPlace, MaxPlace
  <2>2. /\ lows \subseteq 0 .. MDSz + 1 /\ MDSz \in lows
        /\ tops \subseteq 0 .. MDSz + 1 /\ tops # {}
    BY <2>1, MDSzAssumption
  <2>3. ext' = [ext EXCEPT !.bad = FALSE, !.start = low, !.end = top] /\ rule' = rule
    BY <1>3 DEF Extent
  <2>4. \A m \in DOMAIN rule.map : Sized(rule.map[m]) =>
          rule.map[m].lo + 1 \in lows /\ rule.map[m].hi + 1 \in tops
    BY DEF Sized, MinPlace, MaxPlace
  <2> HIDE DEF lows, tops
  <2>5. low \in lows /\ \A y \in lows : low <= y
    <3>1. lows \in SUBSET Nat
      BY <2>2, MDSzAssumption
    <3>2. \E x \in lows : \A y \in lows : x <= y
      BY <2>2, <3>1, LeastNat
    <3> QED BY <3>2
  <2>6. top \in tops /\ \A y \in tops : y <= top
    <3>1. tops \in SUBSET Nat /\ MDSz + 1 \in Nat /\ \A x \in tops : x <= MDSz + 1
      BY <2>2, MDSzAssumption
    <3>2. \E x \in tops : \A y \in tops : y <= x
      BY <2>2, <3>1, GreatestNat
    <3> QED BY <3>2
  <2> HIDE DEF low, top
  <2>7. ext'.full = ext.full /\ ext'.start = low /\ ext'.end = top
    BY <2>3 DEF Flags
  <2>8. FullExtent'
    BY <1>1, <2>7 DEF FullExtent
  <2>9. ExtentReaches'
    <3> SUFFICES ASSUME NEW m \in DOMAIN rule.map, Sized(rule.map[m])
                 PROVE  low <= rule.map[m].lo + 1 /\ rule.map[m].hi <= top
      BY <1>1, <2>3, <2>7 DEF ExtentReaches
    <3>1. low <= rule.map[m].lo + 1 /\ rule.map[m].hi + 1 <= top
      BY <2>4, <2>5, <2>6
    <3>2. rule.map[m].hi \in Nat /\ top \in Nat
      BY <2>2, <2>6, MDSzAssumption DEF RuleOK, Rule
    <3> QED BY <3>1, <3>2
  <2> QED BY <2>8, <2>9
<1> QED BY <1>2, <1>3

LEMMA ExtentKept == IInv /\ ExtentSound /\ [Next]_vars => ExtentSound'
<1> SUFFICES ASSUME IInv, ExtentSound, [Next]_vars PROVE ExtentSound'
  OBVIOUS
<1> USE FieldsAssumption
<1>1. Flags /\ FullExtent /\ ExtentReaches /\ RuleOK(rule) /\ Rule(rule) /\ FieldMap(rest)
  BY DEF ExtentSound, IInv, RuleOK
<1>2. Rule(rule')
  BY NextInv DEF IInv, RuleOK
<1>3. Flags'
  BY FlagsKept DEF ExtentSound
<1> SUFFICES FullExtent' /\ ExtentReaches'
  BY <1>3 DEF ExtentSound
<1>4. ASSUME rule' = rule, ext' = ext
      PROVE  FullExtent' /\ ExtentReaches'
  BY <1>1, <1>4 DEF FullExtent, ExtentReaches
<1>5. ASSUME ext' = Stale
      PROVE  FullExtent' /\ ExtentReaches'
  BY <1>1, <1>2, <1>5, MarkedSound
<1>6. ASSUME NEW m \in Meta, AddRule(m)
      PROVE  FullExtent' /\ ExtentReaches'
  <2>1. Fits(m, Default[m])
    BY <1>6 DEF AddRule, Addable, FieldMap, Fits
  <2> QED BY <1>1, <1>2, <1>6, <2>1, AddedSound DEF AddRule
<1>7. ASSUME NEW m \in Meta, NEW f \in Fields, AddField(m, f)
      PROVE  FullExtent' /\ ExtentReaches'
  <2>1. CASE Crash
    BY <1>4, <2>1 DEF Crash
  <2>2. CASE ~Crash /\ m \in DOMAIN rule.map
    BY <1>5, <1>7, <2>2 DEF AddField
  <2>3. CASE ~Crash /\ m \notin DOMAIN rule.map
    <3>1. rule' = With(rule, m, f) /\ ext' = StaleWith(f) /\ Fits(m, f)
      BY <1>7, <2>3 DEF AddField, Replace, Without, Fits
    <3> QED BY <1>1, <1>2, <3>1, AddedSound
  <2> QED BY <2>1, <2>2, <2>3
<1>8. ASSUME AddCopy
      PROVE  FullExtent' /\ ExtentReaches'
  <2>1. Fits(COPY, CopyField)
    BY MetaAssumption, MDSzAssumption DEF Fits, Field, CopyField, Type
  <2>2. ext' = StaleWith(CopyField)
    BY <1>8 DEF AddCopy, StaleWith, CopyField
  <2> QED BY <1>1, <1>2, <1>8, <2>1, <2>2, AddedSound DEF AddCopy
<1>9. ASSUME NEW m \in Meta, RmRule(m)
      PROVE  FullExtent' /\ ExtentReaches'
  BY <1>4, <1>5, <1>9 DEF RmRule, Crash
<1>10. ASSUME NEW o \in Others, AddRules(o)
       PROVE  FullExtent' /\ ExtentReaches'
  BY <1>4, <1>10 DEF AddRules
<1>11. ASSUME NEW m \in Meta, NextRule(m)
       PROVE  FullExtent' /\ ExtentReaches'
  <2>1. CASE Present(m)
    BY <1>4, <1>11, <2>1 DEF NextRule
  <2>2. CASE ~Present(m)
    <3>1. Fits(m, rest[m]) /\ rule' = With(rule, m, rest[m]) /\ ext' = StaleWith(rest[m])
      BY <1>1, <1>11, <2>2 DEF NextRule, FieldMap, Fits
    <3> QED BY <1>1, <1>2, <3>1, AddedSound
  <2> QED BY <2>1, <2>2
<1>12. ASSUME Extent
       PROVE  FullExtent' /\ ExtentReaches'
  BY <1>1, <1>12, ComputedSound
<1>13. ASSUME NEW m \in Asked, GetEntry(m)
       PROVE  FullExtent' /\ ExtentReaches'
  BY <1>4, <1>13 DEF GetEntry
<1>14. ASSUME NEW m1 \in Coordinate, NEW m2 \in Coordinate, MinMax(m1, m2)
       PROVE  FullExtent' /\ ExtentReaches'
  <2>1. CASE rule' = rule
    BY <1>4, <1>14, <2>1 DEF MinMax, Crash
  <2>2. CASE rule' # rule
    BY <1>5, <1>14, <2>2 DEF MinMax, Crash
  <2> QED BY <2>1, <2>2
<1>15. ASSUME MinMaxEnd
       PROVE  FullExtent' /\ ExtentReaches'
  <2>1. CASE Crash
    BY <1>4, <2>1 DEF Crash
  <2>2. CASE ~Crash /\ (minmax.add1 \/ minmax.add2)
    BY <1>5, <1>15, <2>2 DEF MinMaxEnd
  <2>3. CASE ~Crash /\ ~(minmax.add1 \/ minmax.add2)
    BY <1>4, <1>15, <2>3 DEF MinMaxEnd, TakenBack
  <2> QED BY <2>1, <2>2, <2>3
<1>16. CASE UNCHANGED vars
  BY <1>4, <1>16 DEF vars
<1> QED BY <1>6, <1>7, <1>8, <1>9, <1>10, <1>11, <1>12, <1>13, <1>14, <1>15, <1>16
        DEF Next, Crashed

(***************************************************************************)
(* In whatever order entries are added, replaced, removed and the extent   *)
(* is asked for: a full extent has every byte of every field, and one that *)
(* was computed and is not marked as stale has all but perhaps the first   *)
(* byte of the lowest field.                                               *)
(***************************************************************************)
THEOREM ExtentAlwaysReaches == Spec => []ExtentReaches
<1>1. Init => FullExtent
  BY DEF Init, FullExtent
<1>2. Init => ExtentReaches
  <2>1. ASSUME Init, NEW m \in DOMAIN rule.map
        PROVE  ~Sized(rule.map[m])
    <3>1. /\ rule.map = With(With(Empty, gtn, IndexField), ltn, IndexField).map
          /\ DOMAIN rule.map \subseteq {gtn, ltn}
      BY <2>1 DEF Init, With, Empty
    <3>2. rule.map[m].type = "Index"
      BY <2>1, <3>1, MetaAssumption DEF With, Empty, Entry, IndexField
    <3> QED BY <3>2 DEF Sized
  <2> QED BY <2>1 DEF ExtentReaches, Sized
<1>3. ExtentSound => ExtentReaches
  BY DEF ExtentSound
<1>4. Spec => []Flags
  <2>1. TypeOK => Flags
    BY DEF TypeOK, Flags
  <2> QED BY <2>1, RulesTyped, PTL
<1>5. Spec => [](ExtentSound)
  <2>1. Init /\ Flags => ExtentSound
    BY <1>1, <1>2 DEF ExtentSound
  <2> QED BY <1>4, <2>1, RulesInductive, ExtentKept, PTL DEF Spec
<1> QED BY <1>3, <1>5, PTL
-----------------------------------------------------------------------------
(***************************************************************************)
(* In a Param of any number of traces every parameter of every trace has   *)
(* an element of its own inside the array of its type.                     *)
(***************************************************************************)
LEMMA DenseCells ==
  ASSUME RuleOK(rule), NEW sz \in Nat
  PROVE  OwnCells(sz)
<1> USE DEF Entries
<1>1. /\ Rule(rule) /\ Dense(rule) /\ rule.num \in [Type -> Nat]
      /\ \A m \in DOMAIN rule.map : /\ rule.map[m].type \in Type
                                     /\ rule.map[m].num \in Nat
                                     /\ rule.num[rule.map[m].type] \in Nat \ {0}
                                     /\ rule.map[m].num < rule.num[rule.map[m].type]
  BY DEF RuleOK, Rule, Dense
<1>2. ASSUME NEW m \in DOMAIN rule.map, NEW i \in 0 .. sz - 1
      PROVE  Cell(rule, i, m) < rule.num[rule.map[m].type] * sz
  <2> DEFINE b == rule.num[rule.map[m].type]
             n == rule.map[m].num
  <2>1. b \in Nat /\ n \in Nat /\ n < b /\ i \in Nat /\ i + 1 <= sz
    BY <1>1
  <2> HIDE DEF b, n
  <2>2. b * (i + 1) <= b * sz /\ b * (i + 1) = b * i + b /\ b * i \in Nat /\ b * sz \in Nat
    BY <2>1, TimesMonotone
  <2>3. b * i + n < b * sz
    BY <2>1, <2>2
  <2> QED BY <2>3 DEF Cell, b, n
<1>3. ASSUME NEW m \in DOMAIN rule.map, NEW k \in DOMAIN rule.map,
             NEW i \in 0 .. sz - 1, NEW j \in 0 .. sz - 1,
             rule.map[m].type = rule.map[k].type, Cell(rule, i, m) = Cell(rule, j, k)
      PROVE  m = k /\ i = j
  <2> DEFINE b == rule.num[rule.map[m].type]
             n == rule.map[m].num
             p == rule.map[k].num
  <2>1. /\ b \in Nat \ {0} /\ n \in Nat /\ p \in Nat /\ n < b /\ p < b
        /\ i \in Nat /\ j \in Nat /\ b * i + n = b * j + p
    BY <1>1, <1>3 DEF Cell
  <2> HIDE DEF b, n, p
  <2>2. b * i + n \in Nat
    BY <2>1
  <2>3. (b * i + n) \div b = i /\ (b * i + n) % b = n
    BY <2>1, <2>2, DivUnique
  <2>4. (b * i + n) \div b = j /\ (b * i + n) % b = p
    BY <2>1, <2>2, DivUnique
  <2>5. i = j /\ n = p
    BY <2>3, <2>4
  <2> QED BY <1>1, <1>3, <2>5 DEF Dense, n, p
<1> QED BY <1>2, <1>3 DEF OwnCells

(***************************************************************************)
(* Whatever is added, replaced and removed, the columns of a type are      *)
(* numbered without holes and doubles, so that the parameters of any       *)
(* number of traces never share an element or leave the array.             *)
(***************************************************************************)
THEOREM OwnCellsAlways == Spec => [](Dense(rule) /\ \A sz \in Nat : OwnCells(sz))
<1>1. IInv => Dense(rule) /\ \A sz \in Nat : OwnCells(sz)
  BY DenseCells DEF IInv, RuleOK
<1> QED BY <1>1, RulesInductive, PTL

THEOREM CellsAlwaysApart == Spec => []CellsApart
<1>1. IInv => CellsApart
  BY DenseCells DEF IInv, RuleOK, CellsApart
<1> QED BY <1>1, RulesInductive, PTL

(***************************************************************************)
(* getMinMax leaves the rule as it was, whichever of its two entries were  *)
(* there before and whether or not they are the same.                      *)
(***************************************************************************)
THEOREM MinMaxLeavesRule == Spec => LeavesRule
<1>1. IInv /\ [Next]_vars => [MinMaxEnd /\ alive' => rule' = minmax.before]_vars
  <2> SUFFICES ASSUME IInv, MinMaxEnd, alive' PROVE rule' = minmax.before
    OBVIOUS
  <2>1. ~Crash
    BY DEF Crash
  <2>2. /\ rule' = TakenBack(TakenBack(rule, minmax.m1, minmax.add1), minmax.m2, minmax.add2)
        /\ minmax.in
    BY <2>1 DEF MinMaxEnd
  <2> QED BY <2>2, Restored DEF IInv, Bracket
<1> QED BY <1>1, RulesInductive, PTL DEF Spec, LeavesRule
-----------------------------------------------------------------------------
(***************************************************************************)
(* The rule, whatever operations made it, as a Rule object of Params: its  *)
(* entries of a type have columns of their own, which is what Params       *)
(* assumes of the rules of its objects.                                    *)
(***************************************************************************)
RuleObj == [translate |-> rule.map, width |-> [t \in Types |-> rule.num[t]]]

THEOREM RulesMakeApart == Spec => [](RuleObj.width \in [Types -> Nat] /\ Apart(RuleObj))
<1>1. IInv => RuleObj.width \in [Types -> Nat] /\ Apart(RuleObj)
  <2> SUFFICES ASSUME IInv
               PROVE  RuleObj.width \in [Types -> Nat] /\ Apart(RuleObj)
    OBVIOUS
  <2>1. Rule(rule) /\ Dense(rule)
    BY DEF IInv, RuleOK
  <2>2. \A t \in Types : t \in Type /\ rule.num[t] \in Nat
    BY <2>1 DEF Rule, Types, Type
  <2>3. ASSUME NEW m \in DOMAIN rule.map, rule.map[m].type \in Types
        PROVE  rule.map[m].num \in 0 .. rule.num[rule.map[m].type] - 1
    <3>1. rule.map[m].num \in Nat /\ rule.num[rule.map[m].type] \in Nat
      BY <2>1, <2>2, <2>3 DEF Rule, Entries
    <3>2. rule.map[m].num < rule.num[rule.map[m].type]
      BY <2>1 DEF Dense
    <3> QED BY <3>1, <3>2
  <2>4. \A m, n \in DOMAIN rule.map :
          rule.map[m].type = rule.map[n].type /\ rule.map[m].num = rule.map[n].num => m = n
    BY <2>1 DEF Dense
  <2> QED BY <2>2, <2>3, <2>4 DEF RuleObj, Apart
<1> QED BY <1>1, RulesInductive, PTL

-----------------------------------------------------------------------------
(***************************************************************************)
(* What holds of the state throughout: the arrays keep their length.       *)
(***************************************************************************)
ArraysOK ==
  /\ r \in [Prm -> RuleObjs]
  /\ cell = [p \in Prm |-> [x \in Cells(p) |-> cell[p][x]]]
  /\ c = [p \in Prm |-> [j \in Trace |-> c[p][j]]]

\* Row j of the arrays cells of p.
RowOf(p, cells, j) == [m \in Metas(p) |-> cells[Index(p, m, j)]]

-----------------------------------------------------------------------------
(***************************************************************************)
(* An index tells the trace and the column.                                *)
(***************************************************************************)
LEMMA IndexUnique ==
  ASSUME NEW w \in Nat, NEW a \in 0 .. w - 1, NEW b \in 0 .. w - 1,
         NEW j \in Nat, NEW k \in Nat, w * j + a = w * k + b
  PROVE  j = k /\ a = b
<1>1. w \in Nat \ {0} /\ a \in Nat /\ b \in Nat /\ a < w /\ b < w
  OBVIOUS
<1> DEFINE n == w * j + a
<1>2. n \in Nat
  BY <1>1
<1>3. n = w * j + a /\ n = w * k + b
  OBVIOUS
<1> HIDE DEF n
<1>4. n \div w = j /\ n % w = a
  BY <1>1, <1>2, <1>3, DivUnique
<1>5. n \div w = k /\ n % w = b
  BY <1>1, <1>2, <1>3, DivUnique
<1> QED BY <1>4, <1>5

LEMMA IndexBound ==
  ASSUME NEW w \in Nat, NEW a \in 0 .. w - 1, NEW n \in Nat, NEW j \in 0 .. n - 1
  PROVE  w * j + a \in 0 .. w * n - 1
<1>1. w * (j + 1) <= w * n
  BY TimesMonotone
<1>2. w * (j + 1) = w * j + w /\ w * j \in Nat /\ w * n \in Nat
  BY SMT
<1> QED BY <1>1, <1>2

(***************************************************************************)
(* What the rule of an object gives an entry.                              *)
(***************************************************************************)
LEMMA EntryIs ==
  ASSUME ArraysOK, NEW p \in Prm, NEW m \in Metas(p)
  PROVE  /\ Ent(p)[m].type \in Types
         /\ Width(p, Ent(p)[m].type) \in Nat
         /\ Ent(p)[m].num \in 0 .. Width(p, Ent(p)[m].type) - 1
         /\ \A n \in Metas(p) : n # m /\ Ent(p)[n].type = Ent(p)[m].type
                                  => Ent(p)[n].num # Ent(p)[m].num
<1>1. r[p] \in RuleObjs
  BY DEF ArraysOK
<1>2. /\ r[p].width \in [Types -> Nat] /\ Apart(r[p])
      /\ \A n \in DOMAIN r[p].translate : r[p].translate[n].type \in Types \cup {"Copy"}
  BY <1>1, RulesAssumption
<1>3. m \in DOMAIN r[p].translate /\ r[p].translate[m].type \in Types
  BY <1>2 DEF Metas, Ent
<1> QED BY <1>2, <1>3 DEF Apart, Ent, Width, Metas

LEMMA IndexIn ==
  ASSUME ArraysOK, NEW p \in Prm, NEW m \in Metas(p), NEW j \in Trace
  PROVE  Index(p, m, j) \in Cells(p)
<1> DEFINE t == Ent(p)[m].type
           w == Width(p, t)
<1>1. t \in Types /\ w \in Nat /\ Ent(p)[m].num \in 0 .. w - 1
  BY EntryIs
<1>2. Nt \in Nat /\ j \in 0 .. Nt - 1
  BY NtAssumption DEF Trace
<1>3. w * j + Ent(p)[m].num \in 0 .. w * Nt - 1
  BY <1>1, <1>2, IndexBound
<1>4. <<t, w * j + Ent(p)[m].num>> \in {t} \X (0 .. w * Nt - 1)
  BY <1>3
<1> QED BY <1>1, <1>4 DEF Index, Cells

LEMMA IndexApart ==
  ASSUME ArraysOK, NEW p \in Prm, NEW m \in Metas(p), NEW n \in Metas(p),
         NEW j \in Trace, NEW k \in Trace, Index(p, m, j) = Index(p, n, k)
  PROVE  m = n /\ j = k
<1> DEFINE t == Ent(p)[m].type
           w == Width(p, t)
<1>1. t = Ent(p)[n].type /\ w * j + Ent(p)[m].num = w * k + Ent(p)[n].num
  BY DEF Index
<1>2. /\ t \in Types /\ w \in Nat
      /\ Ent(p)[m].num \in 0 .. w - 1 /\ Ent(p)[n].num \in 0 .. w - 1
      /\ m # n => Ent(p)[n].num # Ent(p)[m].num
  BY <1>1, EntryIs
<1>3. j \in Nat /\ k \in Nat
  BY NtAssumption DEF Trace
<1> DEFINE a == Ent(p)[m].num
           b == Ent(p)[n].num
<1>4. /\ w \in Nat /\ a \in 0 .. w - 1 /\ b \in 0 .. w - 1
      /\ w * j + a = w * k + b
      /\ m # n => b # a
  BY <1>1, <1>2
<1> HIDE DEF a, b, w
<1>5. j = k /\ a = b
  BY <1>3, <1>4, IndexUnique
<1> QED BY <1>4, <1>5

-----------------------------------------------------------------------------
(***************************************************************************)
(* The rows after a step: only row k changes, and only at the metas of w.  *)
(***************************************************************************)
LEMMA WithRowIs ==
  ASSUME ArraysOK, NEW p \in Prm, NEW k \in Trace, NEW cells, NEW w,
         DOMAIN cells = Cells(p), DOMAIN w \subseteq Metas(p)
  PROVE  LET new == WithRow(p, k, cells, w)
         IN  /\ new = [x \in Cells(p) |-> new[x]]
             /\ \A j \in Trace :
                  RowOf(p, new, j) =
                    IF j = k
                    THEN [m \in Metas(p) |-> IF m \in DOMAIN w THEN w[m]
                                                               ELSE cells[Index(p, m, k)]]
                    ELSE RowOf(p, cells, j)
<1> DEFINE new == WithRow(p, k, cells, w)
           hit(x) == \E m \in DOMAIN w : Index(p, m, k) = x
<1>1. new = [x \in Cells(p) |-> IF hit(x) THEN w[CHOOSE m \in DOMAIN w : Index(p, m, k) = x]
                                          ELSE cells[x]]
  BY DEF WithRow
<1>2. ASSUME NEW m \in DOMAIN w
      PROVE  new[Index(p, m, k)] = w[m]
  <2>1. Index(p, m, k) \in Cells(p)
    BY IndexIn
  <2>2. \A n \in DOMAIN w : Index(p, n, k) = Index(p, m, k) => n = m
    BY IndexApart
  <2>3. (CHOOSE n \in DOMAIN w : Index(p, n, k) = Index(p, m, k)) = m
    BY <2>2
  <2> QED BY <1>1, <2>1, <2>3
<1>3. ASSUME NEW m \in Metas(p), NEW j \in Trace, j # k \/ m \notin DOMAIN w
      PROVE  new[Index(p, m, j)] = cells[Index(p, m, j)]
  <2>1. Index(p, m, j) \in Cells(p)
    BY IndexIn
  <2>2. ~hit(Index(p, m, j))
    BY <1>3, IndexApart
  <2> QED BY <1>1, <2>1, <2>2
<1> HIDE DEF new
<1>4. new = [x \in Cells(p) |-> new[x]]
  BY <1>1
<1>5. ASSUME NEW j \in Trace, j # k
      PROVE  RowOf(p, new, j) = RowOf(p, cells, j)
  BY <1>3, <1>5 DEF RowOf
<1>6. RowOf(p, new, k) = [m \in Metas(p) |-> IF m \in DOMAIN w THEN w[m]
                                                              ELSE cells[Index(p, m, k)]]
  <2>1. \A m \in Metas(p) :
          new[Index(p, m, k)] = IF m \in DOMAIN w THEN w[m] ELSE cells[Index(p, m, k)]
    BY <1>2, <1>3
  <2> QED BY <2>1 DEF RowOf
<1> QED BY <1>4, <1>5, <1>6 DEF new

LEMMA CopiedRowIs ==
  ASSUME ArraysOK, NEW p \in Prm, NEW q \in Prm, r[p] = r[q],
         NEW j \in Trace, NEW k \in Trace, NEW cells, DOMAIN cells = Cells(q)
  PROVE  LET new == CopiedRow(p, j, q, k, cells)
         IN  /\ new = [x \in Cells(q) |-> new[x]]
             /\ \A i \in Trace :
                  RowOf(q, new, i) = IF i = k THEN RowOf(p, cell[p], j) ELSE RowOf(q, cells, i)
<1> DEFINE new == CopiedRow(p, j, q, k, cells)
<1>1. new = [x \in Cells(q) |->
               IF x[2] \in Width(p, x[1]) * k .. Width(p, x[1]) * (k + 1) - 1
               THEN cell[p][<<x[1], x[2] + Width(p, x[1]) * (j - k)>>]
               ELSE cells[x]]
  BY DEF CopiedRow
<1>2. Metas(p) = Metas(q) /\ Ent(p) = Ent(q) /\ \A t : Width(p, t) = Width(q, t)
  BY DEF Metas, Ent, Width
<1>3. ASSUME NEW m \in Metas(q), NEW i \in Trace
      PROVE  new[Index(q, m, i)] = IF i = k THEN cell[p][Index(p, m, j)]
                                            ELSE cells[Index(q, m, i)]
  <2> DEFINE t == Ent(q)[m].type
             w == Width(q, t)
             a == Ent(q)[m].num
             x == Index(q, m, i)
  <2>1. x \in Cells(q) /\ x = <<t, w * i + a>>
    BY IndexIn DEF Index
  <2>2. w \in Nat /\ a \in 0 .. w - 1
    BY EntryIs
  <2>3. i \in Nat /\ j \in Nat /\ k \in Nat
    BY NtAssumption DEF Trace
  <2>4. Width(p, x[1]) = w /\ x[1] = t /\ x[2] = w * i + a
    BY <1>2, <2>1
  <2>5. Index(p, m, j) = <<t, w * j + a>>
    BY <1>2 DEF Index
  <2>6. new[x] = IF w * i + a \in w * k .. w * (k + 1) - 1
                 THEN cell[p][<<t, w * i + a + w * (j - k)>>] ELSE cells[x]
    BY <1>1, <2>1, <2>4
  <2> HIDE DEF a, w, t, x, new
  <2>7. w * i \in Nat /\ w * k \in Nat /\ w * j \in Nat /\ w * (k + 1) = w * k + w
        /\ w * (j - k) = w * j - w * k
    BY <2>2, <2>3
  <2>8. CASE i = k
    <3>1. w * i + a \in w * k .. w * (k + 1) - 1
      BY <2>2, <2>7, <2>8
    <3>2. w * i + a + w * (j - k) = w * j + a
      BY <2>2, <2>7, <2>8
    <3> QED BY <2>5, <2>6, <2>8, <3>1, <3>2 DEF x
  <2>9. CASE i < k
    <3>1. w * (i + 1) <= w * k /\ w * (i + 1) = w * i + w
      BY <2>2, <2>3, <2>9, TimesMonotone
    <3>2. w * i + a \notin w * k .. w * (k + 1) - 1
      BY <2>2, <2>7, <3>1
    <3> QED BY <2>3, <2>6, <2>9, <3>2 DEF x
  <2>10. CASE k < i
    <3>1. w * (k + 1) <= w * i
      BY <2>2, <2>3, <2>10, TimesMonotone
    <3>2. w * i + a \notin w * k .. w * (k + 1) - 1
      BY <2>2, <2>7, <3>1
    <3> QED BY <2>3, <2>6, <2>10, <3>2 DEF x
  <2> QED BY <2>3, <2>8, <2>9, <2>10
<1> HIDE DEF new
<1>4. new = [x \in Cells(q) |-> new[x]]
  BY <1>1
<1>5. ASSUME NEW i \in Trace
      PROVE  RowOf(q, new, i) = IF i = k THEN RowOf(p, cell[p], j) ELSE RowOf(q, cells, i)
  BY <1>2, <1>3 DEF RowOf
<1> QED BY <1>4, <1>5 DEF new

-----------------------------------------------------------------------------
(***************************************************************************)
(* The table the arrays stand for.                                         *)
(***************************************************************************)
FieldTable == [p \in Prm |-> Ent(p)]
Vals   == [p \in Prm |-> [j \in Trace |-> Row(p, j)]]

LEMMA RowIs ==
  ASSUME NEW p \in Prm, NEW j \in Trace
  PROVE  Vals[p][j] = RowOf(p, cell[p], j)
BY DEF Vals, Row, RowOf, GetPrm

LEMMA TableRule ==
  ASSUME NEW p \in Prm
  PROVE  /\ Table!Metas(p) = Metas(p)
         /\ Table!HasCopy(p) = HasCopy(p)
         /\ FieldTable[p] = Ent(p)
BY DEF Table!Metas, Table!HasCopy, Metas, HasCopy, FieldTable

LEMMA SameRules ==
  ASSUME r' = r
  PROVE  /\ FieldTable' = FieldTable
         /\ \A p : Ent(p)' = Ent(p) /\ Metas(p)' = Metas(p) /\ Cells(p)' = Cells(p)
         /\ \A p, m, j : Index(p, m, j)' = Index(p, m, j)
BY DEF FieldTable, Ent, Metas, Cells, Index, Width

(***************************************************************************)
(* When the arrays of p become D, the rows of p do, and no others.         *)
(***************************************************************************)
LEMMA RowsAfter ==
  ASSUME ArraysOK, r' = r, NEW p \in Prm, NEW D, D = [x \in Cells(p) |-> D[x]],
         cell' = [cell EXCEPT ![p] = D]
  PROVE  /\ Vals' = [Vals EXCEPT ![p] = [j \in Trace |-> RowOf(p, D, j)]]
         /\ cell' = [q \in Prm |-> [x \in Cells(q)' |-> cell'[q][x]]]
<1>1. /\ cell = [q \in Prm |-> [x \in Cells(q) |-> cell[q][x]]]
      /\ \A q : Cells(q)' = Cells(q) /\ Metas(q)' = Metas(q)
      /\ \A q, m, j : Index(q, m, j)' = Index(q, m, j)
  BY SameRules DEF ArraysOK
<1>2. \A q \in Prm : cell'[q] = IF q = p THEN D ELSE cell[q]
  BY <1>1
<1>3. cell' = [q \in Prm |-> cell'[q]]
  BY <1>1
<1>4. \A q \in Prm : cell'[q] = [x \in Cells(q) |-> cell'[q][x]]
  BY <1>1, <1>2
<1>5. \A q \in Prm, j \in Trace : Row(q, j)' = IF q = p THEN RowOf(p, D, j) ELSE Row(q, j)
  BY <1>1, <1>2 DEF Row, RowOf, GetPrm
<1>6. Vals' = [q \in Prm |-> [j \in Trace |-> Row(q, j)']]
  BY DEF Vals
<1>7. Vals' = [Vals EXCEPT ![p] = [j \in Trace |-> RowOf(p, D, j)]]
  BY <1>5, <1>6 DEF Vals
<1> QED BY <1>1, <1>3, <1>4, <1>7

\* The copies kept, with that of a trace replaced.
LEMMA CopiesAfter ==
  ASSUME ArraysOK, NEW p \in Prm, NEW j \in Trace, NEW h
  PROVE  /\ ExtractedCopy(p, j, h) = IF HasCopy(p) THEN [c EXCEPT ![p][j] = h] ELSE c
         /\ ExtractedCopy(p, j, h) =
              [q \in Prm |-> [k \in Trace |-> ExtractedCopy(p, j, h)[q][k]]]
<1>1. c = [q \in Prm |-> [k \in Trace |-> c[q][k]]]
  BY DEF ArraysOK
<1> QED BY <1>1 DEF ExtractedCopy

(***************************************************************************)
(* extractParam to a row.                                                  *)
(***************************************************************************)
LEMMA ExtractedIs ==
  ASSUME ArraysOK, NEW p \in Prm, NEW k \in Trace, NEW h
  PROVE  LET D == ExtractedCells(p, k, h)
         IN  /\ D = [x \in Cells(p) |-> D[x]]
             /\ \A j \in Trace :
                  RowOf(p, D, j) = IF j = k THEN Table!Taken(p, Vals[p][k], h) ELSE Vals[p][j]
<1> DEFINE D == ExtractedCells(p, k, h)
           w == [m \in InHeader(p) |-> Said(Ent(p)[m], h)]
<1>1. D = WithRow(p, k, cell[p], w)
  BY DEF ExtractedCells
<1>2. DOMAIN cell[p] = Cells(p)
  BY DEF ArraysOK
<1>3. DOMAIN w \subseteq Metas(p) /\ DOMAIN w = InHeader(p)
  BY DEF InHeader
<1>4. \A m \in InHeader(p) : w[m] = Said(Ent(p)[m], h)
  OBVIOUS
<1> HIDE DEF w
<1>5. /\ D = [x \in Cells(p) |-> D[x]]
      /\ \A j \in Trace :
           RowOf(p, D, j) =
             IF j = k THEN [m \in Metas(p) |-> IF m \in DOMAIN w THEN w[m]
                                               ELSE cell[p][Index(p, m, k)]]
             ELSE RowOf(p, cell[p], j)
  BY <1>1, <1>2, <1>3, WithRowIs
<1>6. Table!Taken(p, Vals[p][k], h) =
        [m \in Metas(p) |-> IF Ent(p)[m].type # "Index" THEN Said(Ent(p)[m], h)
                                                      ELSE Vals[p][k][m]]
  BY TableRule DEF Table!Taken, Table!InHeader, FieldTable
<1>7. \A m \in Metas(p) : Vals[p][k][m] = cell[p][Index(p, m, k)]
  <2>1. Vals[p][k] = RowOf(p, cell[p], k)
    BY RowIs
  <2> QED BY <2>1 DEF RowOf
<1>8. Table!Taken(p, Vals[p][k], h) =
        [m \in Metas(p) |-> IF m \in DOMAIN w THEN w[m] ELSE cell[p][Index(p, m, k)]]
  BY <1>3, <1>4, <1>6, <1>7 DEF InHeader
<1> HIDE DEF D
<1>9. \A j \in Trace : RowOf(p, cell[p], j) = Vals[p][j]
  BY RowIs
<1> QED BY <1>5, <1>8, <1>9 DEF D

-----------------------------------------------------------------------------
(***************************************************************************)
(* Each operation does to the table what it should, and keeps ArraysOK.      *)
(***************************************************************************)
LEMMA SetStep ==
  ASSUME ArraysOK, NEW p \in Prm, NEW j \in Trace, NEW m \in Metas(p), NEW v,
         SetPrm(p, j, m, v)
  PROVE  ArraysOK' /\ Table!Set(p, j, m, v)
<1> DEFINE D == [cell[p] EXCEPT ![Index(p, m, j)] = v]
<1>1. r' = r /\ c' = c /\ header' = header
      /\ cell' = [cell EXCEPT ![p][Index(p, m, j)] = v]
  BY DEF SetPrm, Op
<1>2. cell[p] = [x \in Cells(p) |-> cell[p][x]] /\ cell' = [cell EXCEPT ![p] = D]
  BY <1>1 DEF ArraysOK
<1>3. D = [x \in Cells(p) |-> D[x]]
  BY <1>2
<1>4. \A n \in Metas(p), k \in Trace :
        D[Index(p, n, k)] = IF n = m /\ k = j THEN v ELSE cell[p][Index(p, n, k)]
  BY <1>2, IndexIn, IndexApart
<1> HIDE DEF D
<1>5. \A k \in Trace : RowOf(p, D, k) = IF k = j THEN [RowOf(p, cell[p], j) EXCEPT ![m] = v]
                                                ELSE RowOf(p, cell[p], k)
  BY <1>4 DEF RowOf
<1>6. /\ Vals' = [Vals EXCEPT ![p] = [k \in Trace |-> RowOf(p, D, k)]]
      /\ cell' = [q \in Prm |-> [x \in Cells(q)' |-> cell'[q][x]]]
  BY <1>1, <1>2, <1>3, RowsAfter
<1>7. \A k \in Trace : RowOf(p, cell[p], k) = Vals[p][k]
  BY RowIs
<1>8. Vals[p] = [k \in Trace |-> Vals[p][k]] /\ p \in DOMAIN Vals
  BY DEF Vals
<1>9. [k \in Trace |-> RowOf(p, D, k)] = [Vals[p] EXCEPT ![j] = [Vals[p][j] EXCEPT ![m] = v]]
  BY <1>5, <1>7, <1>8
<1>10. Vals' = [Vals EXCEPT ![p][j][m] = v]
  BY <1>6, <1>8, <1>9
<1>11. ArraysOK'
  BY <1>1, <1>6 DEF ArraysOK
<1>12. FieldTable' = FieldTable
  BY <1>1, SameRules
<1> QED BY <1>1, <1>10, <1>11, <1>12 DEF Table!Set, FieldTable, Vals

LEMMA InsertStep ==
  ASSUME ArraysOK, NEW p \in Prm, NEW j \in Trace, InsertParam(p, j)
  PROVE  ArraysOK' /\ Table!Insert(p, j)
<1>1. /\ r' = r /\ c' = c /\ cell' = cell
      /\ header' = Inserted(Ent(p), Row(p, j), c[p][j])
  BY DEF InsertParam, Op
<1>2. FieldTable' = FieldTable
  BY <1>1, SameRules
<1>3. Vals' = Vals
  BY <1>1 DEF Vals, Row, GetPrm, Metas, Index, Ent, Width
<1>4. ArraysOK'
  BY <1>1 DEF ArraysOK, Cells, Width
<1>5. FieldTable[p] = Ent(p) /\ Vals[p][j] = Row(p, j)
  BY DEF FieldTable, Vals
<1>6. header' = Inserted(FieldTable[p], Vals[p][j], c[p][j])
  BY <1>1, <1>5
<1> QED BY <1>1, <1>2, <1>3, <1>4, <1>6 DEF Table!Insert, FieldTable, Vals

LEMMA ExtractStep ==
  ASSUME ArraysOK, NEW p \in Prm, NEW j \in Trace, ExtractParam(p, j)
  PROVE  ArraysOK' /\ Table!Extract(p, j)
<1> DEFINE D == ExtractedCells(p, j, header)
<1>1. /\ r' = r /\ header' = header /\ cell' = [cell EXCEPT ![p] = D]
      /\ c' = ExtractedCopy(p, j, header)
  BY DEF ExtractParam, Op
<1>2. /\ D = [x \in Cells(p) |-> D[x]]
      /\ \A k \in Trace :
           RowOf(p, D, k) = IF k = j THEN Table!Taken(p, Vals[p][j], header) ELSE Vals[p][k]
  BY ExtractedIs
<1> HIDE DEF D
<1>3. /\ Vals' = [Vals EXCEPT ![p] = [k \in Trace |-> RowOf(p, D, k)]]
      /\ cell' = [q \in Prm |-> [x \in Cells(q)' |-> cell'[q][x]]]
  BY <1>1, <1>2, RowsAfter
<1>4. Vals[p] = [k \in Trace |-> Vals[p][k]] /\ p \in DOMAIN Vals
  BY DEF Vals
<1>5. [k \in Trace |-> RowOf(p, D, k)]
        = [Vals[p] EXCEPT ![j] = Table!Taken(p, Vals[p][j], header)]
  BY <1>2, <1>4
<1>6. Vals' = [Vals EXCEPT ![p][j] = Table!Taken(p, @, header)]
  BY <1>3, <1>4, <1>5
<1>7. /\ c' = IF HasCopy(p) THEN [c EXCEPT ![p][j] = header] ELSE c
      /\ c' = [q \in Prm |-> [k \in Trace |-> c'[q][k]]]
  BY <1>1, CopiesAfter
<1>8. c' = Table!Keep(p, j, header)
  BY <1>7, TableRule DEF Table!Keep
<1>9. ArraysOK'
  BY <1>1, <1>3, <1>7 DEF ArraysOK
<1>10. FieldTable' = FieldTable
  BY <1>1, SameRules
<1> QED BY <1>1, <1>6, <1>8, <1>9, <1>10 DEF Table!Extract, FieldTable, Vals

(***************************************************************************)
(* cpyPrm: what the source has is copied; the rest is told by its header.  *)
(***************************************************************************)
LEMMA CopyStep ==
  ASSUME ArraysOK, NEW p \in Prm, NEW j \in Trace, NEW q \in Prm, NEW k \in Trace,
         CpyPrm(p, j, q, k)
  PROVE  ArraysOK' /\ Table!Copy(p, j, q, k)
<1> DEFINE h    == c[p][j]
           told == IF HasCopy(p) THEN ExtractedCells(q, k, h) ELSE cell[q]
           says == IF HasCopy(p) THEN Table!Taken(q, Vals[q][k], h) ELSE Vals[q][k]
           same == {m \in Metas(p) \cap Metas(q) : Ent(p)[m].type = Ent(q)[m].type}
           D    == IF r[p] = r[q] THEN CopiedRow(p, j, q, k, told)
                                  ELSE CopiedEntries(p, j, q, k, told)
           row  == [m \in Metas(q) |-> IF m \in same THEN Vals[p][j][m] ELSE says[m]]
<1>1. /\ r' = r /\ header' = header /\ cell' = [cell EXCEPT ![q] = D]
      /\ c' = IF HasCopy(p) THEN ExtractedCopy(q, k, h) ELSE c
  BY DEF CpyPrm, Op
<1>2. cell[q] = [x \in Cells(q) |-> cell[q][x]]
  BY DEF ArraysOK
<1>3. /\ DOMAIN told = Cells(q)
      /\ \A i \in Trace : RowOf(q, told, i) = IF i = k THEN says ELSE Vals[q][i]
  <2>1. CASE HasCopy(p)
    BY <2>1, ExtractedIs
  <2>2. CASE ~HasCopy(p)
    BY <1>2, <2>2, RowIs
  <2> QED BY <2>1, <2>2
<1>4. RowOf(p, cell[p], j) = Vals[p][j]
  BY RowIs
<1> HIDE DEF told, says
<1>5. says = [m \in Metas(q) |-> told[Index(q, m, k)]]
  BY <1>3 DEF RowOf
<1>6. /\ D = [x \in Cells(q) |-> D[x]]
      /\ \A i \in Trace : RowOf(q, D, i) = IF i = k THEN row ELSE Vals[q][i]
  <2>1. CASE r[p] = r[q]
    <3>1. D = CopiedRow(p, j, q, k, told)
      BY <2>1
    <3>2. same = Metas(q) /\ Metas(p) = Metas(q)
      BY <2>1 DEF Metas, Ent
    <3>3. Vals[p][j] = [m \in Metas(p) |-> Vals[p][j][m]]
      BY <1>4 DEF RowOf
    <3>4. row = Vals[p][j]
      BY <3>2, <3>3
    <3> HIDE DEF D, row
    <3> QED BY <1>3, <1>4, <2>1, <3>1, <3>4, CopiedRowIs
  <2>2. CASE r[p] # r[q]
    <3> DEFINE w == [m \in same |-> GetPrm(p, j, m)]
    <3>1. D = WithRow(q, k, told, w)
      BY <2>2 DEF CopiedEntries
    <3>2. DOMAIN w = same /\ same \subseteq Metas(q)
      OBVIOUS
    <3>3. \A m \in same : w[m] = Vals[p][j][m]
      BY <1>4 DEF RowOf, GetPrm
    <3> HIDE DEF w, D
    <3>4. /\ D = [x \in Cells(q) |-> D[x]]
          /\ \A i \in Trace :
               RowOf(q, D, i) =
                 IF i = k THEN [m \in Metas(q) |-> IF m \in DOMAIN w THEN w[m]
                                                   ELSE told[Index(q, m, k)]]
                 ELSE RowOf(q, told, i)
      BY <1>3, <3>1, <3>2, WithRowIs
    <3>5. row = [m \in Metas(q) |-> IF m \in DOMAIN w THEN w[m] ELSE told[Index(q, m, k)]]
      BY <1>5, <3>2, <3>3
    <3> HIDE DEF row
    <3> QED BY <1>3, <3>4, <3>5
  <2> QED BY <2>1, <2>2
<1> HIDE DEF D
<1>7. /\ Vals' = [Vals EXCEPT ![q] = [i \in Trace |-> RowOf(q, D, i)]]
      /\ cell' = [s \in Prm |-> [x \in Cells(s)' |-> cell'[s][x]]]
  BY <1>1, <1>6, RowsAfter
<1>8. Vals[q] = [i \in Trace |-> Vals[q][i]] /\ q \in DOMAIN Vals
  BY DEF Vals
<1>9. Vals' = [Vals EXCEPT ![q][k] = row]
  <2> HIDE DEF row
  <2>1. [i \in Trace |-> RowOf(q, D, i)] = [Vals[q] EXCEPT ![k] = row]
    BY <1>6, <1>8
  <2> QED BY <1>7, <1>8, <2>1
<1>10. row = [m \in Table!Metas(q) |->
                IF m \in {n \in Table!Metas(p) \cap Table!Metas(q) :
                            FieldTable[p][n].type = FieldTable[q][n].type}
                THEN Vals[p][j][m]
                ELSE (IF Table!HasCopy(p) THEN Table!Taken(q, Vals[q][k], h)
                                          ELSE Vals[q][k])[m]]
  BY TableRule DEF says
<1>11. c' = IF Table!HasCopy(p) THEN Table!Keep(q, k, h) ELSE c
  <2> HIDE DEF h, D, row, same
  <2>1. ExtractedCopy(q, k, h) = IF HasCopy(q) THEN [c EXCEPT ![q][k] = h] ELSE c
    BY DEF ExtractedCopy
  <2>2. Table!Keep(q, k, h) = IF HasCopy(q) THEN [c EXCEPT ![q][k] = h] ELSE c
    BY TableRule DEF Table!Keep
  <2>3. Table!HasCopy(p) <=> HasCopy(p)
    BY TableRule
  <2> QED BY <1>1, <2>1, <2>2, <2>3
<1>12. c' = [s \in Prm |-> [i \in Trace |-> c'[s][i]]]
  <2>1. CASE HasCopy(p)
    BY <1>1, <2>1, CopiesAfter
  <2>2. CASE ~HasCopy(p)
    BY <1>1, <2>2 DEF ArraysOK
  <2> QED BY <2>1, <2>2
<1>13. ArraysOK'
  BY <1>1, <1>7, <1>12 DEF ArraysOK
<1>14. FieldTable' = FieldTable
  BY <1>1, SameRules
<1> HIDE DEF row
<1> QED BY <1>1, <1>9, <1>10, <1>11, <1>13, <1>14 DEF Table!Copy, FieldTable, Vals

(***************************************************************************)
(* Arrays start as a table of zeros.                                       *)
(***************************************************************************)
LEMMA InitIs ==
  PrmInit => ArraysOK /\ Table!Init
<1> SUFFICES ASSUME PrmInit PROVE ArraysOK /\ Table!Init
  OBVIOUS
<1>1. ArraysOK
  BY DEF PrmInit, ArraysOK
<1>2. ASSUME NEW p \in Prm, NEW j \in Trace
      PROVE  Vals[p][j] = [m \in Table!Metas(p) |-> Zero]
  <2>1. \A m \in Metas(p) : cell[p][Index(p, m, j)] = Zero
    BY <1>1, IndexIn DEF PrmInit
  <2> QED BY <2>1, RowIs, TableRule DEF RowOf
<1>3. Vals = [p \in Prm |-> [j \in Trace |-> Vals[p][j]]]
  BY DEF Vals
<1>4. Vals = [p \in Prm |-> [j \in Trace |-> [m \in Table!Metas(p) |-> Zero]]]
  BY <1>2, <1>3
<1>5. c = [p \in Prm |-> [j \in Trace |-> <<>>]]
  BY DEF PrmInit
<1> QED BY <1>1, <1>4, <1>5 DEF Table!Init, Vals, Table!Trace, Trace

(***************************************************************************)
(* Each operation on arrays is one on the table, and keeps their length.   *)
(***************************************************************************)
LEMMA NextStep ==
  ArraysOK /\ [PrmNext]_prmVars => ArraysOK' /\ [Table!Next]_(Table!vars)
<1> SUFFICES ASSUME ArraysOK, [PrmNext]_prmVars
             PROVE  ArraysOK' /\ [Table!Next]_(Table!vars)
  OBVIOUS
<1>1. ASSUME NEW p \in Prm, NEW j \in Trace, NEW m \in Metas(p),
             NEW v \in Values[Ent(p)[m].type], SetPrm(p, j, m, v)
      PROVE  ArraysOK' /\ Table!Next
  <2>1. ArraysOK' /\ Table!Set(p, j, m, v)
    BY <1>1, SetStep
  <2>2. j \in Table!Trace /\ m \in Table!Metas(p) /\ v \in Values[FieldTable[p][m].type]
    BY TableRule DEF Trace, Table!Trace
  <2> QED BY <2>1, <2>2 DEF Table!Next, FieldTable
<1>2. ASSUME NEW p \in Prm, NEW j \in Trace, InsertParam(p, j)
      PROVE  ArraysOK' /\ Table!Next
  <2>1. ArraysOK' /\ Table!Insert(p, j)
    BY <1>2, InsertStep
  <2> QED BY <2>1 DEF Table!Next, Trace, Table!Trace
<1>3. ASSUME NEW p \in Prm, NEW j \in Trace, ExtractParam(p, j)
      PROVE  ArraysOK' /\ Table!Next
  <2>1. ArraysOK' /\ Table!Extract(p, j)
    BY <1>3, ExtractStep
  <2> QED BY <2>1 DEF Table!Next, Trace, Table!Trace
<1>4. ASSUME NEW p \in Prm, NEW j \in Trace, NEW q \in Prm, NEW k \in Trace,
             CpyPrm(p, j, q, k)
      PROVE  ArraysOK' /\ Table!Next
  <2>1. ArraysOK' /\ Table!Copy(p, j, q, k)
    BY <1>4, CopyStep
  <2> QED BY <2>1 DEF Table!Next, Trace, Table!Trace
<1>5. ASSUME UNCHANGED prmVars
      PROVE  ArraysOK' /\ UNCHANGED Table!vars
  <2>1. r' = r /\ cell' = cell /\ c' = c /\ header' = header
    BY <1>5 DEF prmVars
  <2>2. /\ \A p : Ent(p)' = Ent(p) /\ Metas(p)' = Metas(p) /\ Cells(p)' = Cells(p)
        /\ \A p, m, j : Index(p, m, j)' = Index(p, m, j)
    BY <2>1, SameRules
  <2>3. ArraysOK'
    BY <2>1, <2>2 DEF ArraysOK
  <2>4. UNCHANGED Table!vars
    BY <2>1, <2>2 DEF Table!vars, Row, GetPrm
  <2> QED BY <2>3, <2>4
<1> QED BY <1>1, <1>2, <1>3, <1>4, <1>5 DEF PrmNext, Finished

(***************************************************************************)
(* The arrays of every Param keep the length that its rule asks for.       *)
(***************************************************************************)
THEOREM ArraysTyped == PrmSpec => []ArraysOK
<1>1. PrmInit => ArraysOK
  BY InitIs
<1>2. ArraysOK /\ [PrmNext]_prmVars => ArraysOK'
  BY NextStep
<1> QED BY <1>1, <1>2, PTL DEF PrmSpec

(***************************************************************************)
(* The arrays are the table: no setPrm, extractParam or cpyPrm disturbs    *)
(* another entry or another trace, for all rules whose entries have        *)
(* columns of their own.                                                   *)
(***************************************************************************)
THEOREM ArraysAreTable == PrmSpec => ImplementsTable
<1>1. PrmInit => ArraysOK /\ Table!Init
  BY InitIs
<1>2. ArraysOK /\ [PrmNext]_prmVars => ArraysOK' /\ [Table!Next]_(Table!vars)
  BY NextStep
<1> QED BY <1>1, <1>2, PTL DEF PrmSpec, ImplementsTable, Table!Spec

-----------------------------------------------------------------------------
(***************************************************************************)
(* The scales of the standard: powers of ten, none left out.               *)
(***************************************************************************)
PowersOfTen == /\ IsFiniteSet(Tens)
               /\ \A t \in Tens : t = 10 \/ \E s \in Tens : t = 10 * s

\* The factors a scale stands for, and what is below the smallest digit it keeps.
Factor == {1} \cup Tens
Below(t) == Tenk \div t

\* The value v is kept exactly at a scale.
Exact(v, s) == Decode(Encode(v, s), s) = v /\ Stored(v, s) = Encode(v, s)

\* a is an int32_t.
InInt(a) == Wrap(a) = a

LEMMA IntDivFacts ==
  ASSUME NEW n \in Int, NEW m \in Nat \ {0}
  PROVE  n % m \in 0 .. m - 1
  BY SMT

LEMMA InIntIs ==
  ASSUME NEW a \in Int
  PROVE  InInt(a) <=> -IntMax - 1 <= a /\ a <= IntMax
<1> DEFINE M == 2 * (IntMax + 1)
           n == a + IntMax + 1
<1>1. M \in Nat \ {0} /\ n \in Int /\ IntMax \in Nat
  BY IntMaxAssumption
<1>2. Wrap(a) = (n % M) - IntMax - 1
  BY DEF Wrap
<1>3. n % M \in 0 .. M - 1
  BY <1>1, IntDivFacts
<1>4. ASSUME -IntMax - 1 <= a, a <= IntMax
      PROVE  n % M = n
  <2>1. n \in Nat /\ n < M /\ n = M * 0 + n
    BY <1>1, <1>4
  <2> HIDE DEF n, M
  <2> QED BY <1>1, <2>1, DivUnique
<1> DEFINE k == n % M
<1>5. k \in Int /\ 0 <= k /\ k <= 2 * IntMax + 1 /\ Wrap(a) = k - IntMax - 1
  BY <1>1, <1>2, <1>3
<1>6. -IntMax - 1 <= a /\ a <= IntMax => k = a + IntMax + 1
  BY <1>4
<1> HIDE DEF k
<1> QED BY <1>1, <1>5, <1>6 DEF InInt

LEMMA TimesInt ==
  ASSUME NEW a \in Int, NEW b \in Int
  PROVE  a * b \in Int
  BY SMT

\* What is an int32_t is one when divided.
LEMMA InIntPart ==
  ASSUME NEW a \in Int, NEW g \in Nat \ {0}, InInt(g * a)
  PROVE  InInt(a)
<1>1. g * a \in Int
  BY TimesInt
<1>2. -IntMax - 1 <= g * a /\ g * a <= IntMax /\ IntMax \in Nat
  BY <1>1, InIntIs, IntMaxAssumption
<1>3. a >= 0 => a <= g * a
  BY SMT
<1>4. a < 0 => g * a <= a
  BY SMT
<1> QED BY <1>1, <1>2, <1>3, <1>4, InIntIs

LEMMA QuoIs ==
  ASSUME NEW n \in Int, NEW m \in Nat \ {0}
  PROVE  /\ Quo(n, m) \in Int
         /\ n >= 0 => Quo(n, m) \in Nat /\ Quo(n, m) <= n
         /\ n < 0 => n <= Quo(n, m) /\ Quo(n, m) <= 0
         /\ \A q, d \in Nat : d < m /\ n = m * q + d => Quo(n, m) = q
         /\ \A q, d \in Nat : d < m /\ n = -(m * q + d) => Quo(n, m) = -q
<1>1. ASSUME NEW x \in Nat
      PROVE  /\ x \div m \in Nat /\ x \div m <= x
             /\ \A q, d \in Nat : d < m /\ x = m * q + d => x \div m = q
  <2>1. x \div m \in Nat /\ x % m \in Nat /\ x = m * (x \div m) + (x % m)
    BY DivFacts
  <2> DEFINE q == x \div m
  <2>2. q \in Nat /\ m * q <= x /\ m * q \in Nat
    BY <2>1, TimesNat
  <2> HIDE DEF q
  <2>3. q <= m * q
    BY <2>2, SMT
  <2> QED BY <2>2, <2>3, DivUnique DEF q
<1>2. CASE n >= 0
  <2>1. n \in Nat /\ Quo(n, m) = n \div m
    BY <1>2 DEF Quo
  <2>2. \A q, d \in Nat : d < m /\ n = -(m * q + d) => Quo(n, m) = -q
    <3> SUFFICES ASSUME NEW q \in Nat, NEW d \in Nat, d < m, n = -(m * q + d)
                 PROVE  Quo(n, m) = -q
      OBVIOUS
    <3>1. m * q \in Nat /\ q <= m * q
      BY SMT
    <3>2. m * q = 0 /\ d = 0 /\ q = 0 /\ n = 0
      BY <1>2, <3>1
    <3>3. n = m * q + d
      BY <3>2
    <3>4. Quo(n, m) = q
      BY <1>1, <2>1, <3>3
    <3> QED BY <3>2, <3>4
  <2> QED BY <1>1, <1>2, <2>1, <2>2
<1>3. CASE n < 0
  <2> DEFINE x == -n
  <2>1. x \in Nat /\ Quo(n, m) = -(x \div m)
    BY <1>3 DEF Quo
  <2>2. \A q, d \in Nat : ~(d < m /\ n = m * q + d)
    <3> SUFFICES ASSUME NEW q \in Nat, NEW d \in Nat, n = m * q + d PROVE FALSE
      OBVIOUS
    <3>1. m * q \in Nat
      BY SMT
    <3> QED BY <1>3, <3>1
  <2>3. \A q, d \in Nat : d < m /\ n = -(m * q + d) => Quo(n, m) = -q
    <3> SUFFICES ASSUME NEW q \in Nat, NEW d \in Nat, d < m, n = -(m * q + d)
                 PROVE  Quo(n, m) = -q
      OBVIOUS
    <3>0. m * q \in Nat
      BY TimesNat
    <3>1. x = m * q + d
      BY <3>0
    <3> HIDE DEF x
    <3> QED BY <1>1, <2>1, <3>1
  <2>4. x \div m \in Nat /\ x \div m <= x
    BY <1>1, <2>1
  <2>5. x = -n
    OBVIOUS
  <2> HIDE DEF x
  <2>6. n <= Quo(n, m) /\ Quo(n, m) <= 0 /\ Quo(n, m) \in Int
    BY <2>1, <2>4, <2>5
  <2> QED BY <1>3, <2>2, <2>3, <2>6
<1> QED BY <1>2, <1>3

\* Quotients of what can be divided.
LEMMA QuoExact ==
  ASSUME NEW a \in Int, NEW m \in Nat \ {0}
  PROVE  Quo(m * a, m) = a /\ Quo(a * m, m) = a
<1>1. m * a \in Int /\ a * m = m * a
  BY SMT
<1>2. CASE a >= 0
  <2>1. a \in Nat /\ 0 < m /\ m * a = m * a + 0
    BY <1>1, <1>2
  <2> QED BY <1>1, <2>1, QuoIs
<1>3. CASE a < 0
  <2> DEFINE b == -a
  <2>1. b \in Nat /\ a = -b
    BY <1>3
  <2> HIDE DEF b
  <2>2. m * a = -(m * b + 0)
    BY <2>1, SMT
  <2>3. Quo(m * a, m) = -b
    BY <1>1, <2>1, <2>2, QuoIs
  <2> QED BY <1>1, <2>1, <2>3
<1> QED BY <1>2, <1>3

LEMMA QuoCancel ==
  ASSUME NEW a \in Int, NEW m \in Nat \ {0}, NEW f \in Nat \ {0}
  PROVE  Quo(f * a, m * f) = Quo(a, m) /\ m * f \in Nat \ {0}
<1>1. m * f \in Nat \ {0} /\ f * a \in Int
  BY SMT
<1>2. ASSUME NEW x \in Nat
      PROVE  \E q, d \in Nat : /\ d < m /\ x = m * q + d
                               /\ f * d \in Nat /\ f * d < m * f /\ f * x = (m * f) * q + f * d
  <2>1. x \div m \in Nat /\ x % m \in Nat /\ x = m * (x \div m) + (x % m) /\ x % m < m
    BY DivFacts
  <2>2. PICK q \in Nat, d \in Nat : d < m /\ x = m * q + d
    BY <2>1
  <2>3. f * d + f <= f * m
    BY <2>2, TimesStep
  <2>4. f * m = m * f /\ f * d \in Nat
    BY SMT
  <2>5. f * x = (m * f) * q + f * d
    <3>1. f * (m * q + d) = (m * f) * q + f * d
      BY SMT
    <3> QED BY <2>2, <3>1
  <2>6. f * d < m * f
    BY <1>1, <2>3, <2>4
  <2> QED BY <2>2, <2>4, <2>5, <2>6
<1>3. CASE a >= 0
  <2>1. a \in Nat
    BY <1>3
  <2>2. PICK q \in Nat, d \in Nat :
          d < m /\ a = m * q + d /\ f * d \in Nat /\ f * d < m * f /\ f * a = (m * f) * q + f * d
    BY <1>2, <2>1
  <2>3. Quo(a, m) = q
    BY <2>2, QuoIs
  <2>4. Quo(f * a, m * f) = q
    BY <1>1, <2>2, QuoIs
  <2> QED BY <1>1, <2>3, <2>4
<1>4. CASE a < 0
  <2> DEFINE b == -a
  <2>1. b \in Nat /\ a = -b
    BY <1>4
  <2> HIDE DEF b
  <2>2. PICK q \in Nat, d \in Nat :
          d < m /\ b = m * q + d /\ f * d \in Nat /\ f * d < m * f /\ f * b = (m * f) * q + f * d
    BY <1>2, <2>1
  <2>3. a = -(m * q + d) /\ f * a = -((m * f) * q + f * d)
    <3>1. f * a = -(f * b)
      BY <2>1, SMT
    <3> QED BY <2>1, <2>2, <3>1
  <2>4. Quo(a, m) = -q
    BY <2>2, <2>3, QuoIs
  <2>5. Quo(f * a, m * f) = -q
    BY <1>1, <2>2, <2>3, QuoIs
  <2> QED BY <1>1, <2>4, <2>5
<1> QED BY <1>3, <1>4

LEMMA RoundExact ==
  ASSUME NEW a \in Int, NEW m \in Nat \ {0}
  PROVE  Round(m * a, m) = a
<1> DEFINE n == m * a
<1>0. n \in Int /\ 2 * m \in Nat \ {0} /\ m < 2 * m
  BY SMT
<1>1. CASE a >= 0
  <2>1. n >= 0 /\ 2 * n + m = (2 * m) * a + m /\ 2 * n + m \in Nat /\ a \in Nat
    BY <1>1, SMT
  <2> HIDE DEF n
  <2>2. (2 * n + m) \div (2 * m) = a
    BY <1>0, <2>1, DivUnique
  <2>3. ~(n < 0)
    BY <1>0, <2>1
  <2> QED BY <2>2, <2>3 DEF Round, n
<1>2. CASE a < 0
  <2> DEFINE b == -a
  <2>1. n < 0 /\ 2 * (-n) + m = (2 * m) * b + m /\ 2 * (-n) + m \in Nat /\ b \in Nat /\ a = -b
    BY <1>2, SMT
  <2> HIDE DEF n, b
  <2>2. (2 * (-n) + m) \div (2 * m) = b
    BY <1>0, <2>1, DivUnique
  <2> QED BY <2>1, <2>2 DEF Round, n
<1> QED BY <1>1, <1>2

LEMMA RoundInt ==
  ASSUME NEW n \in Int, NEW m \in Nat \ {0}
  PROVE  Round(n, m) \in Int
<1>0. 2 * m \in Nat \ {0}
  OBVIOUS
<1>1. CASE n < 0
  <2>1. 2 * (-n) + m \in Nat
    BY <1>1
  <2>2. (2 * (-n) + m) \div (2 * m) \in Nat
    BY <1>0, <2>1, DivFacts
  <2> QED BY <1>1, <2>2 DEF Round
<1>2. CASE ~(n < 0)
  <2>1. 2 * n + m \in Nat
    BY <1>2
  <2>2. (2 * n + m) \div (2 * m) \in Nat
    BY <1>0, <2>1, DivFacts
  <2> QED BY <1>2, <2>2 DEF Round
<1> QED BY <1>1, <1>2

LEMMA TimesCancel ==
  ASSUME NEW a \in Nat \ {0}, NEW x \in Int, NEW y \in Int, a * x = a * y
  PROVE  x = y
<1>1. x < y => a * x < a * y
  BY SMT
<1>2. y < x => a * y < a * x
  BY SMT
<1>3. a * x \in Int /\ a * y \in Int
  BY TimesInt
<1> QED BY <1>1, <1>2, <1>3

\* The greatest scale, and the least.
LEMMA TensMax ==
  ASSUME PowersOfTen
  PROVE  /\ Tenk \in Tens /\ Tenk \in Nat /\ Tenk > 1
         /\ \A t \in Tens : t \in Nat /\ 10 <= t /\ t <= Tenk
<1>1. Tens \in SUBSET Nat /\ Tens # {} /\ \A t \in Tens : t > 1
  BY TensAssumption
<1>2. \E x \in Tens : \A y \in Tens : x >= y
  <2>1. PICK x \in Tens : \A y \in Tens : y <= x
    BY <1>1, FiniteMax DEF PowersOfTen
  <2> QED BY <1>1, <2>1
<1>3. Tenk \in Tens /\ \A y \in Tens : Tenk >= y
  BY <1>2 DEF Tenk, Max
<1>4. ASSUME NEW t \in Tens
      PROVE  10 <= t
  <2>1. t = 10 \/ \E s \in Tens : t = 10 * s
    BY DEF PowersOfTen
  <2> QED BY <1>1, <2>1
<1> QED BY <1>1, <1>3, <1>4

LEMMA FactorNat ==
  ASSUME PowersOfTen
  PROVE  Factor \in SUBSET (Nat \ {0}) /\ Tens \subseteq Factor /\ 1 \in Factor
         /\ \A t \in Factor : t <= Tenk /\ (t > 1 => t \in Tens)
BY TensMax DEF Factor

\* Each scale is a multiple of ten times the scales below it.
LEMMA TensStep ==
  ASSUME PowersOfTen, NEW s \in Factor, NEW t \in Factor, s < t
  PROVE  \E h \in Nat \ {0} : t = s * (10 * h)
<1> DEFINE R(x, y) == \E h \in Nat \ {0} : y = x * (10 * h)
           C == {y \in Factor : \E x \in Factor : x < y /\ ~R(x, y)}
<1>0. Factor \in SUBSET Nat
  BY FactorNat
<1>1. SUFFICES ASSUME C # {} PROVE FALSE
  BY <1>0
<1>2. PICK y \in C : \A z \in C : y <= z
  <2>1. C \in SUBSET Nat
    BY <1>0
  <2> HIDE DEF C
  <2> QED BY <1>1, <2>1, LeastNat
<1>3. PICK x \in Factor : x < y /\ ~R(x, y)
  OBVIOUS
<1>4. y \in Nat /\ x \in Nat \ {0} /\ y \in Factor /\ y \in Tens
  BY <1>0, <1>3, FactorNat
<1>5. y = 10 \/ \E u \in Tens : y = 10 * u
  BY <1>4 DEF PowersOfTen
<1>6. CASE y = 10
  <2>1. x = 1
    BY <1>3, <1>4, <1>6, TensMax, FactorNat
  <2>2. R(x, y)
    BY <1>6, <2>1
  <2> QED BY <1>3, <2>2
<1>7. ASSUME NEW u \in Tens, y = 10 * u
      PROVE  FALSE
  <2>1. u \in Nat /\ u < y /\ u \in Factor /\ 1 < u
    BY <1>4, <1>7, TensMax, FactorNat
  <2>2. u \notin C /\ x \notin C
    <3> HIDE DEF C
    <3> QED BY <1>2, <1>3, <1>4, <2>1
  <2>3. CASE x = u
    <3>1. y = x * (10 * 1)
      BY <1>4, <1>7, <2>3
    <3> QED BY <1>3, <3>1
  <2>4. CASE x < u
    <3>1. PICK h \in Nat \ {0} : u = x * (10 * h)
      BY <2>1, <2>2, <2>4
    <3>2. 10 * (x * (10 * h)) = x * (10 * (10 * h)) /\ 10 * h \in Nat \ {0}
      BY <1>4, SMT
    <3>3. y = x * (10 * (10 * h))
      BY <1>7, <3>1, <3>2
    <3> QED BY <1>3, <3>2, <3>3
  <2>5. CASE u < x
    <3>1. PICK h \in Nat \ {0} : x = u * (10 * h)
      BY <2>1, <2>2, <2>5
    <3>2. u * (10 * h) = (10 * u) * h /\ 10 * u <= (10 * u) * h
      BY <2>1, SMT
    <3> QED BY <1>3, <1>4, <1>7, <3>1, <3>2
  <2> QED BY <1>4, <2>1, <2>3, <2>4, <2>5
<1> QED BY <1>5, <1>6, <1>7

LEMMA BelowIs ==
  ASSUME PowersOfTen, NEW t \in Factor
  PROVE  Below(t) \in Nat \ {0} /\ Tenk = t * Below(t)
<1>1. t \in Nat \ {0} /\ t <= Tenk /\ Tenk \in Factor /\ Tenk \in Nat
  BY FactorNat, TensMax
<1>2. \E b \in Nat \ {0} : Tenk = t * b
  <2>1. CASE t = Tenk
    <3>1. Tenk = t * 1
      BY <1>1, <2>1
    <3> QED BY <3>1
  <2>2. CASE t < Tenk
    <3>1. PICK h \in Nat \ {0} : Tenk = t * (10 * h)
      BY <1>1, <2>2, TensStep
    <3> QED BY <3>1
  <2> QED BY <1>1, <2>1, <2>2
<1>3. PICK b \in Nat \ {0} : Tenk = t * b
  BY <1>2
<1>4. Tenk = t * b + 0
  BY <1>1, <1>3
<1>5. Below(t) = b
  BY <1>1, <1>4, DivUnique DEF Below
<1> QED BY <1>3, <1>5

LEMMA BelowStep ==
  ASSUME PowersOfTen, NEW s \in Factor, NEW t \in Factor, s < t
  PROVE  \E h \in Nat \ {0} : t = s * (10 * h) /\ Below(s) = (10 * h) * Below(t)
<1>1. PICK h \in Nat \ {0} : t = s * (10 * h)
  BY TensStep
<1>2. /\ Below(s) \in Nat \ {0} /\ Tenk = s * Below(s)
      /\ Below(t) \in Nat \ {0} /\ Tenk = t * Below(t)
      /\ s \in Nat \ {0}
  BY BelowIs, FactorNat
<1>3. (s * (10 * h)) * Below(t) = s * ((10 * h) * Below(t)) /\ (10 * h) * Below(t) \in Int
  BY <1>2, SMT
<1>4. Below(s) = (10 * h) * Below(t)
  BY <1>1, <1>2, <1>3, TimesCancel
<1> QED BY <1>1, <1>4

\* The scale below one.
LEMMA Tenth ==
  ASSUME PowersOfTen, NEW t \in Tens
  PROVE  \E u \in Factor : t = 10 * u /\ u < t /\ Below(u) = 10 * Below(t)
<1>1. PICK u \in Factor : t = 10 * u
  <2>1. t = 10 \/ \E s \in Tens : t = 10 * s
    BY DEF PowersOfTen
  <2>2. t = 10 => t = 10 * 1
    OBVIOUS
  <2> QED BY <2>1, <2>2 DEF Factor
<1>2. u < t /\ u \in Nat \ {0} /\ t \in Factor
  BY <1>1, FactorNat
<1>3. PICK h \in Nat \ {0} : t = u * (10 * h) /\ Below(u) = (10 * h) * Below(t)
  BY <1>2, BelowStep
<1>4. u * 10 = u * (10 * h)
  BY <1>1, <1>2, <1>3
<1>5. 10 = 10 * h
  BY <1>2, <1>4, TimesCancel
<1> QED BY <1>1, <1>2, <1>3, <1>5

-----------------------------------------------------------------------------
(***************************************************************************)
(* The arithmetic of a scale: what is stored and read back at each, and what *)
(* is exact at two of them is exact at those between.                      *)
(***************************************************************************)
LEMMA ModZero ==
  ASSUME NEW n \in Int, NEW d \in Nat \ {0}
  PROVE  n % d = 0 <=> \E k \in Int : n = d * k
<1>1. n \div d \in Int /\ n % d \in 0 .. d - 1 /\ n = d * (n \div d) + (n % d)
  BY SMT
<1>2. ASSUME n % d = 0
      PROVE  \E k \in Int : n = d * k
  <2> DEFINE q == n \div d
  <2>1. q \in Int /\ n = d * q + 0
    BY <1>1, <1>2
  <2> HIDE DEF q
  <2>2. d * q \in Int
    BY <2>1, TimesInt
  <2>3. n = d * q
    BY <2>1, <2>2
  <2> QED BY <2>1, <2>3
<1>3. ASSUME NEW k \in Int, n = d * k
      PROVE  n % d = 0
  <2> DEFINE q == n \div d
             e == n % d
  <2>1. q \in Int /\ e \in Int /\ 0 <= e /\ e < d /\ d * k = d * q + e
    BY <1>1, <1>3
  <2> HIDE DEF q, e
  <2>2. e = d * (k - q) /\ k - q \in Int
    BY <2>1, SMT
  <2>3. k - q >= 1 => d * (k - q) >= d
    BY <2>2, SMT
  <2>4. k - q <= -1 => d * (k - q) <= -d
    BY <2>2, SMT
  <2>5. k - q = 0 \/ k - q >= 1 \/ k - q <= -1
    BY <2>2
  <2>6. k - q = 0 => d * (k - q) = 0
    BY SMT
  <2>7. e = 0
    BY <2>1, <2>2, <2>3, <2>4, <2>5, <2>6
  <2> QED BY <2>7 DEF e
<1> QED BY <1>2, <1>3

\* The scale that divides by t.
Down(t) == IF t = 1 THEN 1 ELSE -t

\* A scale divides those above it.
LEMMA Divides ==
  ASSUME PowersOfTen, NEW s \in Factor, NEW t \in Factor, s <= t
  PROVE  \E h \in Nat \ {0} : t = s * h /\ Below(s) = h * Below(t)
<1>1. s \in Nat /\ t \in Nat /\ Below(s) \in Nat /\ Below(t) \in Nat
  BY FactorNat, BelowIs
<1>2. CASE s = t
  <2>1. t = s * 1 /\ Below(s) = 1 * Below(t)
    BY <1>1, <1>2
  <2> QED BY <2>1
<1>3. CASE s < t
  <2>1. PICK h \in Nat \ {0} : t = s * (10 * h) /\ Below(s) = (10 * h) * Below(t)
    BY <1>3, BelowStep
  <2>2. 10 * h \in Nat \ {0}
    OBVIOUS
  <2> QED BY <2>1, <2>2
<1> QED BY <1>1, <1>2, <1>3

LEMMA WrapInt ==
  ASSUME NEW a \in Int
  PROVE  Wrap(a) \in Int
<1> DEFINE M == 2 * (IntMax + 1)
<1>1. M \in Nat \ {0} /\ a + IntMax + 1 \in Int /\ IntMax \in Nat
  BY IntMaxAssumption
<1>2. (a + IntMax + 1) % M \in 0 .. M - 1
  BY <1>1, IntDivFacts
<1> QED BY <1>1, <1>2 DEF Wrap

LEMMA StoredInt ==
  ASSUME PowersOfTen, NEW v \in Int, NEW s \in Int
  PROVE  Stored(v, s) \in Int /\ Encode(v, s) \in Int
<1>1. Times(s) \in Nat \ {0} /\ Divide(s) \in Nat \ {0} /\ Tenk \in Nat \ {0}
  BY TensMax DEF Times, Divide
<1>2. v * Divide(s) \in Int /\ Tenk * Times(s) \in Nat \ {0}
  BY <1>1, TimesInt, SMT
<1>3. Stored(v, s) \in Int
  BY <1>2, RoundInt DEF Stored
<1> QED BY <1>3, WrapInt DEF Encode

LEMMA DecodeInt ==
  ASSUME PowersOfTen, NEW x \in Int, NEW s \in Int
  PROVE  Decode(x, s) \in Int
<1>1. Times(s) \in Nat \ {0} /\ Divide(s) \in Nat \ {0} /\ Tenk \in Nat \ {0}
  BY TensMax DEF Times, Divide
<1>2. x * Times(s) * Tenk \in Int
  BY <1>1, TimesInt
<1> QED BY <1>1, <1>2, QuoIs DEF Decode

\* What is stored and read back at the scale t.
LEMMA UpIs ==
  ASSUME PowersOfTen, NEW t \in Factor, NEW a \in Int
  PROVE  /\ t * Tenk \in Nat \ {0} /\ (t * Tenk) * a \in Int
         /\ Decode(a, t) = (t * Tenk) * a
         /\ Stored((t * Tenk) * a, t) = a
<1>1. t \in Nat \ {0} /\ Tenk \in Nat \ {0}
  BY FactorNat, TensMax
<1>2. Times(t) = t /\ Divide(t) = 1
  BY <1>1 DEF Times, Divide
<1>3. t * Tenk \in Nat \ {0} /\ t * Tenk = Tenk * t
  BY <1>1, SMT
<1>4. (t * Tenk) * a \in Int /\ (t * Tenk) * a * 1 = (t * Tenk) * a
  BY <1>3, TimesInt
<1>5. a * t * Tenk = (t * Tenk) * a
  BY <1>1, SMT
<1>6. Quo((t * Tenk) * a, 1) = (t * Tenk) * a
  <2> DEFINE n == (t * Tenk) * a
  <2>1. n \in Int /\ n * 1 = n
    BY <1>4
  <2> HIDE DEF n
  <2>2. Quo(n * 1, 1) = n
    BY <2>1, QuoExact
  <2> QED BY <2>1, <2>2 DEF n
<1>7. Decode(a, t) = (t * Tenk) * a
  BY <1>2, <1>5, <1>6 DEF Decode
<1>8. Stored((t * Tenk) * a, t) = Round((t * Tenk) * a, t * Tenk)
  BY <1>2, <1>3, <1>4 DEF Stored
<1>9. Round((t * Tenk) * a, t * Tenk) = a
  BY <1>3, RoundExact
<1> QED BY <1>3, <1>4, <1>7, <1>8, <1>9

LEMMA BelowOne ==
  ASSUME PowersOfTen
  PROVE  Below(1) = Tenk
<1>1. Tenk = 1 * Below(1) /\ Below(1) \in Nat
  BY BelowIs, FactorNat
<1> QED BY <1>1

LEMMA DownIs ==
  ASSUME PowersOfTen, NEW t \in Factor, NEW a \in Int
  PROVE  /\ Below(t) * a \in Int
         /\ Decode(a, Down(t)) = Below(t) * a
         /\ Stored(Below(t) * a, Down(t)) = a
<1>1. t \in Nat \ {0} /\ Tenk \in Nat \ {0} /\ Below(t) \in Nat \ {0} /\ Tenk = t * Below(t)
  BY FactorNat, TensMax, BelowIs
<1>2. CASE t = 1
  <2>1. Below(t) = t * Tenk /\ Down(t) = t
    BY <1>1, <1>2, BelowOne DEF Down
  <2> QED BY <2>1, UpIs
<1>3. CASE t # 1
  <2>1. Times(Down(t)) = 1 /\ Divide(Down(t)) = t
    BY <1>1, <1>3 DEF Down, Times, Divide
  <2>2. Below(t) * a \in Int
    BY <1>1, TimesInt
  <2>3. a * 1 * Tenk = t * (Below(t) * a) /\ (Below(t) * a) * t = Tenk * a
    BY <1>1, SMT
  <2>4. Decode(a, Down(t)) = Quo(t * (Below(t) * a), t)
    BY <2>1, <2>3 DEF Decode
  <2>5. Quo(t * (Below(t) * a), t) = Below(t) * a
    BY <1>1, <2>2, QuoExact
  <2>6. Stored(Below(t) * a, Down(t)) = Round(Tenk * a, Tenk)
    BY <1>1, <2>1, <2>3 DEF Stored
  <2>7. Round(Tenk * a, Tenk) = a
    BY <1>1, RoundExact
  <2> QED BY <2>2, <2>4, <2>5, <2>6, <2>7
<1> QED BY <1>2, <1>3

\* What is kept exactly at a scale.
LEMMA ExactUp ==
  ASSUME PowersOfTen, NEW v \in Int, NEW t \in Factor
  PROVE  Exact(v, t) <=> \E a \in Int : v = (t * Tenk) * a /\ InInt(a)
<1>1. t \in Int
  BY FactorNat
<1>2. ASSUME Exact(v, t)
      PROVE  \E a \in Int : v = (t * Tenk) * a /\ InInt(a)
  <2> DEFINE a == Encode(v, t)
  <2>1. a \in Int /\ Decode(a, t) = v /\ Stored(v, t) = a /\ a = Wrap(Stored(v, t))
    BY <1>1, <1>2, StoredInt DEF Exact, Encode
  <2> HIDE DEF a
  <2>2. v = (t * Tenk) * a /\ InInt(a)
    BY <2>1, UpIs DEF InInt
  <2> QED BY <2>1, <2>2
<1>3. ASSUME NEW a \in Int, v = (t * Tenk) * a, InInt(a)
      PROVE  Exact(v, t)
  <2>1. Stored(v, t) = a /\ Decode(a, t) = v
    BY <1>3, UpIs
  <2> QED BY <1>3, <2>1 DEF Exact, Encode, InInt
<1> QED BY <1>2, <1>3

LEMMA ExactDown ==
  ASSUME PowersOfTen, NEW v \in Int, NEW t \in Factor
  PROVE  Exact(v, Down(t)) <=> \E a \in Int : v = Below(t) * a /\ InInt(a)
<1>1. Down(t) \in Int
  BY FactorNat DEF Down
<1>2. ASSUME Exact(v, Down(t))
      PROVE  \E a \in Int : v = Below(t) * a /\ InInt(a)
  <2> DEFINE a == Encode(v, Down(t))
  <2>1. a \in Int /\ Decode(a, Down(t)) = v /\ Stored(v, Down(t)) = a
        /\ a = Wrap(Stored(v, Down(t)))
    BY <1>1, <1>2, StoredInt DEF Exact, Encode
  <2> HIDE DEF a
  <2>2. v = Below(t) * a /\ InInt(a)
    BY <2>1, DownIs DEF InInt
  <2> QED BY <2>1, <2>2
<1>3. ASSUME NEW a \in Int, v = Below(t) * a, InInt(a)
      PROVE  Exact(v, Down(t))
  <2>1. Stored(v, Down(t)) = a /\ Decode(a, Down(t)) = v
    BY <1>3, DownIs
  <2> QED BY <1>3, <2>1 DEF Exact, Encode, InInt
<1> QED BY <1>2, <1>3

\* What is exact at two scales is at those between them.
LEMMA UpBetween ==
  ASSUME PowersOfTen, NEW v \in Int, NEW s \in Factor, NEW u \in Factor, NEW t \in Factor,
         s <= u, u <= t, NEW b \in Int, v = (s * Tenk) * b, InInt(b),
         NEW a \in Int, v = (t * Tenk) * a
  PROVE  Exact(v, u)
<1>1. PICK g \in Nat \ {0} : t = u * g
  BY Divides
<1>2. PICK h \in Nat \ {0} : u = s * h
  BY Divides
<1>3. s \in Nat \ {0} /\ u \in Nat \ {0} /\ Tenk \in Nat \ {0}
  BY FactorNat, TensMax
<1> DEFINE e == g * a
<1>4. e \in Int /\ v = (u * Tenk) * e
  <2>1. ((u * g) * Tenk) * a = (u * Tenk) * (g * a)
    BY <1>3, SMT
  <2> QED BY <1>1, <2>1, TimesInt
<1> HIDE DEF e
<1>5. (s * Tenk) * (h * e) = ((s * h) * Tenk) * e /\ s * Tenk \in Nat \ {0} /\ h * e \in Int
  BY <1>3, <1>4, SMT
<1>6. b = h * e
  BY <1>2, <1>4, <1>5, TimesCancel
<1>7. InInt(e)
  BY <1>4, <1>6, InIntPart
<1> QED BY <1>4, <1>7, ExactUp

LEMMA DownBetween ==
  ASSUME PowersOfTen, NEW v \in Int, NEW s \in Factor, NEW u \in Factor, NEW t \in Factor,
         s <= u, u <= t, NEW b \in Int, v = Below(s) * b,
         NEW a \in Int, v = Below(t) * a, InInt(a)
  PROVE  \E e \in Int : v = Below(u) * e /\ InInt(e)
<1>1. PICK g \in Nat \ {0} : Below(u) = g * Below(t)
  BY Divides
<1>2. PICK h \in Nat \ {0} : Below(s) = h * Below(u)
  BY Divides
<1>3. Below(t) \in Nat \ {0} /\ Below(u) \in Nat \ {0}
  BY BelowIs
<1> DEFINE e == h * b
<1>4. e \in Int /\ v = Below(u) * e
  <2>1. (h * Below(u)) * b = Below(u) * (h * b)
    BY <1>3, SMT
  <2> QED BY <1>2, <2>1, TimesInt
<1> HIDE DEF e
<1>5. (g * Below(t)) * e = Below(t) * (g * e) /\ g * e \in Int
  BY <1>3, <1>4, SMT
<1>6. a = g * e
  BY <1>1, <1>3, <1>4, <1>5, TimesCancel
<1>7. InInt(e)
  BY <1>4, <1>6, InIntPart
<1> QED BY <1>4, <1>7

-----------------------------------------------------------------------------
(***************************************************************************)
(* What deScale gives a value that some scale keeps exactly.               *)
(***************************************************************************)
LEMMA QuoTenk ==
  ASSUME PowersOfTen, NEW t \in Factor, NEW a \in Int
  PROVE  /\ Quo(Below(t) * a, Tenk) = Quo(a, t)
         /\ Quo((t * Tenk) * a, Tenk) = t * a
<1>1. t \in Nat \ {0} /\ Tenk \in Nat \ {0} /\ Below(t) \in Nat \ {0} /\ Tenk = t * Below(t)
  BY FactorNat, TensMax, BelowIs
<1>2. Quo(Below(t) * a, t * Below(t)) = Quo(a, t)
  BY <1>1, QuoCancel
<1>3. (t * Tenk) * a = Tenk * (t * a) /\ t * a \in Int
  BY <1>1, SMT
<1>4. Quo(Tenk * (t * a), Tenk) = t * a
  BY <1>1, <1>3, QuoExact
<1> QED BY <1>1, <1>2, <1>3, <1>4

\* Without digits after the point the scale is 1.
LEMMA NoDigits ==
  ASSUME PowersOfTen, NEW i \in Int
  PROVE  Fraction(i * Tenk, i) = 1
<1>1. i * Tenk \in Int /\ i * Tenk - i * Tenk = 0
  BY TensMax, TimesInt
<1>2. ASSUME NEW s \in Tens
      PROVE  0 % (Below(s) * 10) = 0
  <2>1. Below(s) \in Nat \ {0}
    BY BelowIs, FactorNat
  <2>2. Below(s) * 10 \in Nat \ {0} /\ 0 = (Below(s) * 10) * 0
    BY <2>1
  <2> QED BY <2>2, ModZero
<1> DEFINE kept == {s \in Tens : /\ (i * Tenk - i * Tenk) % ((Tenk \div s) * 10) # 0
                                 /\ Quo(Encode(i * Tenk, -s), s) = i}
<1>3. kept = {}
  BY <1>1, <1>2 DEF Below
<1>4. Fraction(i * Tenk, i) = IF kept = {} THEN 1 ELSE -Max(kept)
  BY DEF Fraction
<1> HIDE DEF kept
<1> QED BY <1>3, <1>4

\* A value kept at t is given a scale up to t.
LEMMA UpScale ==
  ASSUME PowersOfTen, NEW t \in Factor, NEW a \in Int, InInt(a)
  PROVE  LET v == (t * Tenk) * a
         IN  \E s \in Factor : /\ s <= t /\ DeScale(v) = s
                               /\ \A u \in Factor : s <= u /\ u <= t => Exact(v, u)
<1> DEFINE v == (t * Tenk) * a
           i == t * a
<1>1. t \in Nat \ {0} /\ Tenk \in Nat \ {0}
  BY FactorNat, TensMax
<1>2. i \in Int /\ v \in Int /\ v = i * Tenk /\ Quo(v, Tenk) = i
  <2>1. v = i * Tenk /\ v \in Int /\ i \in Int
    BY <1>1, SMT
  <2> QED BY <2>1, QuoTenk
<1>3. DeScale(v) = IF Wrap(i) # i THEN Large(i) ELSE Fraction(v, i)
  BY <1>2 DEF DeScale
<1>4. v = (t * Tenk) * a /\ i = t * a
  OBVIOUS
<1> HIDE DEF v, i
<1>5. CASE InInt(i)
  <2>1. DeScale(v) = 1
    BY <1>2, <1>3, <1>5, NoDigits DEF InInt
  <2>2. 1 \in Factor /\ 1 <= t /\ v = (1 * Tenk) * i
    BY <1>1, <1>2, FactorNat
  <2>3. \A u \in Factor : 1 <= u /\ u <= t => Exact(v, u)
    BY <1>2, <1>4, <1>5, <2>2, UpBetween
  <2> QED BY <2>1, <2>2, <2>3 DEF v
<1>6. CASE ~InInt(i)
  <2> DEFINE fit == {s \in Tens : Wrap(Quo(i, s)) = Quo(i, s)}
  <2>1. DeScale(v) = IF fit = {} THEN 0 ELSE Min(fit)
    BY <1>3, <1>6 DEF Large, InInt
  <2>2. t # 1
    BY <1>2, <1>4, <1>6
  <2>3. t \in Tens /\ Quo(i, t) = a
    BY <1>1, <1>4, <2>2, FactorNat, QuoExact
  <2>4. t \in fit
    BY <2>3 DEF InInt
  <2>5. fit \in SUBSET Nat
    BY TensMax
  <2>6. \A s \in fit : s \in Tens /\ InInt(Quo(i, s))
    BY DEF InInt
  <2> HIDE DEF fit
  <2>7. \E s \in fit : \A x \in fit : s <= x
    BY <2>4, <2>5, LeastNat
  <2>8. Min(fit) \in fit /\ \A x \in fit : Min(fit) <= x
    BY <2>7 DEF Min
  <2> DEFINE s == Min(fit)
  <2>9. s \in Factor /\ s <= t /\ DeScale(v) = s /\ InInt(Quo(i, s))
    BY <2>1, <2>4, <2>6, <2>8, FactorNat
  <2> HIDE DEF s
  <2>10. PICK h \in Nat \ {0} : t = s * h
    BY <2>9, Divides
  <2> DEFINE b == h * a
  <2>11. s \in Nat \ {0} /\ b \in Int
    BY <2>9, FactorNat, TimesInt
  <2>12. i = s * b /\ v = (s * Tenk) * b
    <3>1. (s * h) * a = s * (h * a) /\ ((s * h) * Tenk) * a = (s * Tenk) * (h * a)
      BY <1>1, <2>11, SMT
    <3> QED BY <1>4, <2>10, <3>1
  <2> HIDE DEF b
  <2>13. InInt(b)
    BY <2>9, <2>11, <2>12, QuoExact
  <2>14. \A u \in Factor : s <= u /\ u <= t => Exact(v, u)
    BY <1>2, <1>4, <2>9, <2>11, <2>12, <2>13, UpBetween
  <2> QED BY <2>9, <2>14 DEF v
<1> QED BY <1>5, <1>6

\* A value kept when divided by t is given a scale that divides by t or less.
LEMMA DownScale ==
  ASSUME PowersOfTen, NEW t \in Factor, NEW a \in Int, InInt(a)
  PROVE  LET v == Below(t) * a
         IN  \E m \in Factor : /\ m <= t /\ DeScale(v) = Down(m)
                               /\ \A u \in Factor : m <= u /\ u <= t => Exact(v, Down(u))
<1> DEFINE v == Below(t) * a
           i == Quo(a, t)
<1>1. t \in Nat \ {0} /\ Tenk \in Nat \ {0} /\ Below(t) \in Nat \ {0} /\ Tenk = t * Below(t)
  BY FactorNat, TensMax, BelowIs
<1>2. i \in Int /\ v \in Int /\ Quo(v, Tenk) = i
  BY <1>1, QuoTenk, QuoIs, TimesInt
<1>3. InInt(i)
  <2>1. -IntMax - 1 <= a /\ a <= IntMax /\ IntMax \in Nat
    BY InIntIs, IntMaxAssumption
  <2>2. a >= 0 => i \in Nat /\ i <= a
    BY <1>1, QuoIs
  <2>3. a < 0 => a <= i /\ i <= 0
    BY <1>1, QuoIs
  <2> HIDE DEF i
  <2>4. -IntMax - 1 <= i /\ i <= IntMax
    BY <1>2, <2>1, <2>2, <2>3
  <2> QED BY <1>2, <2>4, InIntIs
<1>4. DeScale(v) = Fraction(v, i)
  BY <1>2, <1>3 DEF DeScale, InInt
<1>5. v = Below(t) * a
  OBVIOUS
<1> HIDE DEF v, i
<1> DEFINE M == {m \in Factor : \E k \in Int : v = Below(m) * k}
<1>6. M \in SUBSET Nat /\ M # {} /\ t \in M
  BY <1>5, FactorNat
<1>7. PICK n \in M : \A m \in M : n <= m
  <2> HIDE DEF M
  <2> QED BY <1>6, LeastNat
<1>8. n \in Factor /\ n <= t
  BY <1>6, <1>7
<1>9. PICK b \in Int : v = Below(n) * b
  BY <1>7
<1>10. \A u \in Factor : n <= u /\ u <= t => Exact(v, Down(u))
  BY <1>2, <1>5, <1>8, <1>9, DownBetween, ExactDown
<1>11. CASE n = 1
  <2>1. v = b * Tenk /\ Below(1) = Tenk
    BY <1>1, <1>9, <1>11, BelowOne
  <2>2. i = b
    <3>1. Quo(b * Tenk, Tenk) = b
      BY <1>1, QuoExact
    <3> QED BY <1>2, <2>1, <3>1
  <2>3. DeScale(v) = 1
    BY <1>4, <2>1, <2>2, NoDigits
  <2> QED BY <1>8, <1>10, <1>11, <2>3 DEF Down, v
<1>12. CASE n # 1
  <2> DEFINE D == v - i * Tenk
             keeps(s) == D % (Below(s) * 10) # 0 /\ Quo(Encode(v, -s), s) = i
             kept == {s \in Tens : keeps(s)}
  <2>1. D \in Int /\ i * Tenk \in Int
    BY <1>1, <1>2, TimesInt
  <2>2. DeScale(v) = IF kept = {} THEN 1 ELSE -Max(kept)
    BY <1>4 DEF Fraction, Below
  <2>3. n \in Tens
    BY <1>8, <1>12, FactorNat
  <2>4. keeps(n)
    <3>1. PICK u \in Factor : u < n /\ Below(u) = 10 * Below(n)
      BY <2>3, Tenth
    <3>2. Below(u) \in Nat \ {0} /\ Tenk = u * Below(u) /\ u \in Nat /\ n \in Nat
          /\ Below(n) \in Nat \ {0} /\ Below(n) * 10 = Below(u)
      BY <1>8, <3>1, BelowIs, FactorNat
    <3>3. ASSUME D % Below(u) = 0
          PROVE  FALSE
      <4>1. PICK k \in Int : D = Below(u) * k
        BY <2>1, <3>2, <3>3, ModZero
      <4>2. i * (u * Below(u)) = Below(u) * (i * u) /\ i * u \in Int
            /\ Below(u) * (k + i * u) = Below(u) * k + Below(u) * (i * u)
        BY <1>2, <3>2, SMT
      <4>3. v = D + i * Tenk
        BY <1>2, <2>1
      <4>4. v = Below(u) * (k + i * u) /\ k + i * u \in Int
        BY <3>2, <4>1, <4>2, <4>3
      <4>5. u \in M
        BY <4>4
      <4>6. n <= u
        BY <1>7, <4>5
      <4> QED BY <3>1, <3>2, <4>6
    <3>4. Quo(Encode(v, -n), n) = i
      <4>1. PICK e \in Int : v = Below(n) * e /\ InInt(e)
        BY <1>2, <1>5, <1>8, <1>9, DownBetween, FactorNat
      <4>2. Stored(v, Down(n)) = e /\ Down(n) = -n
        BY <1>8, <1>12, <4>1, DownIs DEF Down
      <4>3. Encode(v, -n) = e
        BY <4>1, <4>2 DEF Encode, InInt
      <4>4. Quo(v, Tenk) = Quo(e, n)
        BY <1>8, <4>1, QuoTenk
      <4> QED BY <1>2, <4>3, <4>4
    <3> QED BY <3>2, <3>3, <3>4
  <2>5. ASSUME NEW s \in Tens, keeps(s)
        PROVE  s <= t
    <3>1. SUFFICES ASSUME t < s PROVE FALSE
      BY <1>1, TensMax
    <3>2. PICK h \in Nat \ {0} : Below(t) = (10 * h) * Below(s)
      BY <3>1, FactorNat, BelowStep
    <3>3. Below(s) \in Nat \ {0} /\ Below(s) * 10 \in Nat \ {0}
      BY BelowIs, FactorNat
    <3>4. \E k \in Int : D = (Below(s) * 10) * k
      <4>1. D = ((10 * h) * Below(s)) * a - i * (t * ((10 * h) * Below(s)))
        BY <1>1, <1>5, <3>2
      <4>2. ((10 * h) * Below(s)) * a = (Below(s) * 10) * (h * a) /\ h * a \in Int
        BY <3>3, SMT
      <4>3. i * (t * ((10 * h) * Below(s))) = (Below(s) * 10) * (i * (t * h)) /\ i * (t * h) \in Int
        BY <1>1, <1>2, <3>3, SMT
      <4>4. \A d, x, y \in Int : d * x - d * y = d * (x - y) /\ x - y \in Int
        BY SMT
      <4> HIDE DEF D, keeps, kept
      <4> DEFINE x == h * a
                 y == i * (t * h)
                 d == Below(s) * 10
      <4>5. D = d * x - d * y /\ d \in Int /\ x \in Int /\ y \in Int
        BY <3>3, <4>1, <4>2, <4>3
      <4> HIDE DEF x, y, d
      <4>6. D = d * (x - y) /\ x - y \in Int
        BY <4>4, <4>5
      <4> QED BY <4>6 DEF d
    <3>5. D % (Below(s) * 10) = 0
      BY <2>1, <3>3, <3>4, ModZero
    <3> QED BY <2>5, <3>5
  <2>6. n \in kept /\ kept \in SUBSET Nat /\ \A s \in kept : s <= t /\ s \in Tens
    BY <2>3, <2>4, <2>5, TensMax
  <2> HIDE DEF D, keeps, kept
  <2>7. \E s \in kept : \A x \in kept : x <= s
    BY <1>1, <2>6, GreatestNat
  <2>8. \E s \in kept : \A x \in kept : s >= x
    BY <2>6, <2>7
  <2>9. Max(kept) \in kept /\ \A x \in kept : Max(kept) >= x
    BY <2>8 DEF Max
  <2> DEFINE m == Max(kept)
  <2>10. m \in Tens /\ m <= t /\ n <= m /\ DeScale(v) = -m
    BY <2>2, <2>6, <2>9
  <2> HIDE DEF m
  <2>11. m \in Factor /\ m # 1 /\ m \in Nat /\ n \in Nat
    BY <1>8, <2>10, TensMax, FactorNat
  <2>12. \A u \in Factor : m <= u /\ u <= t => Exact(v, Down(u))
    BY <1>10, <2>10, <2>11, FactorNat
  <2> QED BY <2>10, <2>11, <2>12 DEF Down, v
<1> QED BY <1>11, <1>12

-----------------------------------------------------------------------------
(***************************************************************************)
(* The scale put together from those of the coordinates that share it.     *)
(***************************************************************************)
LEMMA MaxMin ==
  ASSUME NEW S, S \subseteq Int, S # {}, NEW b \in Nat, \A x \in S : -b <= x /\ x <= b
  PROVE  /\ Max(S) \in S /\ \A x \in S : x <= Max(S)
         /\ Min(S) \in S /\ \A x \in S : Min(S) <= x
<1> DEFINE T == {x + b : x \in S}
<1>2. \A x \in S : x + b \in T
  OBVIOUS
<1>3. \A y \in T : \E x \in S : y = x + b
  OBVIOUS
<1> HIDE DEF T
<1>1. T \in SUBSET Nat /\ T # {} /\ \A y \in T : y <= 2 * b
  <2>1. \A x \in S : x + b \in Nat /\ x + b <= 2 * b
    OBVIOUS
  <2>2. T # {}
    BY <1>2
  <2>3. \A y \in T : y \in Nat /\ y <= 2 * b
    BY <1>3, <2>1
  <2> QED BY <2>2, <2>3
<1>4. \E x \in S : \A y \in S : x >= y
  <2>1. 2 * b \in Nat
    OBVIOUS
  <2>2. PICK m \in T : \A y \in T : y <= m
    BY <1>1, <2>1, GreatestNat
  <2>3. PICK x \in S : m = x + b
    BY <1>3
  <2>4. \A y \in S : y + b <= x + b
    BY <1>2, <2>2, <2>3
  <2> QED BY <2>4
<1>5. \E x \in S : \A y \in S : x <= y
  <2>1. PICK m \in T : \A y \in T : m <= y
    BY <1>1, LeastNat
  <2>2. PICK x \in S : m = x + b
    BY <1>3
  <2>3. \A y \in S : x + b <= y + b
    BY <1>2, <2>1, <2>2
  <2> QED BY <2>3
<1>6. Max(S) \in S /\ \A y \in S : Max(S) >= y
  BY <1>4 DEF Max
<1>7. Min(S) \in S /\ \A y \in S : Min(S) <= y
  BY <1>5 DEF Min
<1>8. \A x \in S : x \in Int
  OBVIOUS
<1> QED BY <1>6, <1>7, <1>8

LEMMA DeScaleInt ==
  ASSUME PowersOfTen, NEW v \in Int
  PROVE  DeScale(v) \in Int /\ -Tenk <= DeScale(v) /\ DeScale(v) <= Tenk
<1>1. Tenk \in Nat /\ Tenk > 1 /\ \A s \in Tens : s \in Nat /\ s <= Tenk
  BY TensMax
<1>2. ASSUME NEW S \in SUBSET Tens, S # {}
      PROVE  Max(S) \in Tens /\ Min(S) \in Tens
  <2>1. S \subseteq Int /\ \A x \in S : -Tenk <= x /\ x <= Tenk
    BY <1>1
  <2>2. Max(S) \in S /\ Min(S) \in S
    BY <1>1, <1>2, <2>1, MaxMin
  <2> QED BY <2>2
<1>3. \A n : Large(n) = 0 \/ Large(n) \in Tens
  <2> TAKE n
  <2> DEFINE fit == {s \in Tens : Wrap(Quo(n, s)) = Quo(n, s)}
  <2>1. Large(n) = IF fit = {} THEN 0 ELSE Min(fit)
    BY DEF Large
  <2>2. fit \in SUBSET Tens
    OBVIOUS
  <2> HIDE DEF fit
  <2> QED BY <1>2, <2>1, <2>2
<1>4. \A n : Fraction(v, n) = 1 \/ \E s \in Tens : Fraction(v, n) = -s
  <2> TAKE n
  <2> DEFINE kept == {s \in Tens : /\ (v - n * Tenk) % ((Tenk \div s) * 10) # 0
                                   /\ Quo(Encode(v, -s), s) = n}
  <2>1. Fraction(v, n) = IF kept = {} THEN 1 ELSE -Max(kept)
    BY DEF Fraction
  <2>2. kept \in SUBSET Tens
    OBVIOUS
  <2> HIDE DEF kept
  <2> QED BY <1>2, <2>1, <2>2
<1>5. \/ DeScale(v) \in {0, 1} \cup Tens
      \/ \E s \in Tens : DeScale(v) = -s
  BY <1>3, <1>4 DEF DeScale
<1> QED BY <1>1, <1>5

LEMMA CommonIs ==
  ASSUME PowersOfTen, NEW V, V \subseteq Int
  PROVE  LET scales == {1} \cup {DeScale(v) : v \in V}
         IN  /\ scales \subseteq Int /\ Common(V) \in scales
             /\ \A s \in scales : s > 1 => \A x \in scales : x <= Common(V)
             /\ (\A s \in scales : s <= 1) => \A x \in scales : Common(V) <= x
<1> DEFINE scales == {1} \cup {DeScale(v) : v \in V}
<1>1. Tenk \in Nat /\ Tenk > 1
  BY TensMax
<1>2. scales \subseteq Int /\ scales # {} /\ \A x \in scales : -Tenk <= x /\ x <= Tenk
  BY <1>1, DeScaleInt
<1>3. Common(V) = IF \E s \in scales : s > 1 THEN Max(scales) ELSE Min(scales)
  BY DEF Common
<1> HIDE DEF scales
<1>4. /\ Max(scales) \in scales /\ \A x \in scales : x <= Max(scales)
      /\ Min(scales) \in scales /\ \A x \in scales : Min(scales) <= x
  BY <1>1, <1>2, MaxMin
<1>5. (\A s \in scales : s <= 1) => ~\E s \in scales : s > 1
  BY <1>2
<1> QED BY <1>2, <1>3, <1>4, <1>5 DEF scales

\* If one scale keeps all of the values exactly, the scale put together from
\* what each is given alone does.
LEMMA CommonExact ==
  ASSUME PowersOfTen, NEW V, V \subseteq Int, Storable(V)
  PROVE  \A v \in V : Exact(v, Common(V))
<1> DEFINE scales == {1} \cup {DeScale(v) : v \in V}
<1>1. /\ scales \subseteq Int /\ Common(V) \in scales
      /\ \A s \in scales : s > 1 => \A x \in scales : x <= Common(V)
      /\ (\A s \in scales : s <= 1) => \A x \in scales : Common(V) <= x
  BY CommonIs
<1>2. 1 \in scales /\ \A v \in V : DeScale(v) \in scales
  OBVIOUS
<1>3. \A s \in scales : s = 1 \/ \E v \in V : s = DeScale(v)
  OBVIOUS
<1>4. Factor \subseteq Nat \ {0} /\ 1 \in Factor
  BY FactorNat
<1> HIDE DEF scales
<1>5. PICK s \in {1} \cup Tens \cup {-t : t \in Tens} : \A v \in V : Exact(v, s)
  BY DEF Storable, Exact
<1>6. s \in Factor \/ \E t \in Tens : s = -t
  BY <1>5 DEF Factor
<1>7. CASE s \in Factor
  <2>1. ASSUME NEW v \in V
        PROVE  \E d \in Factor : /\ d <= s /\ DeScale(v) = d
                                 /\ \A u \in Factor : d <= u /\ u <= s => Exact(v, u)
    <3>1. v \in Int /\ Exact(v, s)
      BY <1>5
    <3>2. PICK a \in Int : v = (s * Tenk) * a /\ InInt(a)
      BY <1>7, <3>1, ExactUp
    <3> QED BY <1>7, <3>2, UpScale
  <2>2. \A d \in scales : d \in Factor /\ d <= s
    BY <1>3, <1>4, <1>7, <2>1
  <2>3. Common(V) \in Factor /\ Common(V) <= s
    BY <1>1, <2>2
  <2>4. \A d \in scales : d <= Common(V)
    <3>1. CASE \E d \in scales : d > 1
      BY <1>1, <3>1
    <3>2. CASE ~\E d \in scales : d > 1
      <4>1. ASSUME NEW d \in scales
            PROVE  d = 1
        <5>1. d \in Nat \ {0} /\ ~(d > 1)
          BY <1>4, <2>2, <3>2
        <5> QED BY <5>1
      <4>2. Common(V) = 1
        BY <1>1, <4>1
      <4> QED BY <4>1, <4>2
    <3> QED BY <3>1, <3>2
  <2> QED BY <1>2, <2>1, <2>3, <2>4
<1>8. ASSUME NEW t \in Tens, s = -t
      PROVE  \A v \in V : Exact(v, Common(V))
  <2>0. t \in Factor /\ t # 1 /\ s = Down(t)
    BY <1>8, TensMax, FactorNat DEF Down
  <2>1. ASSUME NEW v \in V
        PROVE  \E m \in Factor : /\ m <= t /\ DeScale(v) = Down(m)
                                 /\ \A u \in Factor : m <= u /\ u <= t => Exact(v, Down(u))
    <3>1. v \in Int /\ Exact(v, Down(t))
      BY <1>5, <2>0
    <3>2. PICK a \in Int : v = Below(t) * a /\ InInt(a)
      BY <2>0, <3>1, ExactDown
    <3> QED BY <2>0, <3>2, DownScale
  <2>2. \A d \in scales : \E m \in Factor : m <= t /\ d = Down(m)
    <3>1. 1 = Down(1) /\ 1 <= t
      BY <1>4, <2>0 DEF Down
    <3> QED BY <1>3, <1>4, <2>1, <3>1
  <2>3. \A m \in Factor : Down(m) <= 1
    BY <1>4 DEF Down
  <2>4. \A d \in scales : Common(V) <= d
    BY <1>1, <2>2, <2>3
  <2>5. PICK u \in Factor : u <= t /\ Common(V) = Down(u)
    BY <1>1, <2>2
  <2>6. \A m \in Factor : Down(u) <= Down(m) => m <= u
    BY <1>4 DEF Down
  <2> QED BY <1>2, <2>1, <2>4, <2>5, <2>6
<1> QED BY <1>6, <1>7, <1>8

LEMMA CommonInt ==
  ASSUME PowersOfTen, NEW V, V \subseteq Int
  PROVE  Common(V) \in Int
BY CommonIs

-----------------------------------------------------------------------------
(***************************************************************************)
(* What insertParam writes and extractParam reads.                         *)
(***************************************************************************)
IntHeader(h) == \A l \in DOMAIN h : h[l] \in Int

(***************************************************************************)
(* What callers give: integers, and coordinates that have places of their  *)
(* own in the header, apart from those of the scales.                      *)
(***************************************************************************)
IntsGiven == /\ \A t \in Types : Values[t] \subseteq Int
             /\ \A h \in Foreign : IntHeader(h)

Placed(e) == \A m, n \in Kind(e, {"Float"}) : /\ e[m].loc # e[n].scal
                                              /\ m # n => e[m].loc # e[n].loc

PlacesApart == \A q \in RuleObjs : Placed(q.translate)

LEMMA SaidInt ==
  ASSUME PowersOfTen, NEW e, NEW h, IntHeader(h)
  PROVE  Said(e, h) \in Int
<1>1. \A l : At(h, l) \in Int
  BY DEF At, Zero, IntHeader
<1>2. Decode(At(h, e.loc), At(h, e.scal)) \in Int
  BY <1>1, DecodeInt
<1> QED BY <1>1, <1>2 DEF Said

\* The scale at place l of the header, and what insertParam writes.
ScaleAt(e, v, l) == Common({v[m] : m \in Sharing(e, l)})

LEMMA InsertedIs ==
  ASSUME NEW e, NEW v, NEW h, NEW new, new = Inserted(e, v, h)
  PROVE  /\ \A l \in DOMAIN new :
              \/ \E m \in Kind(e, {"Float"}) : l = e[m].scal /\ new[l] = ScaleAt(e, v, l)
              \/ \E m \in Kind(e, {"Float"}) : /\ l = e[m].loc
                                               /\ new[l] = Encode(v[m], ScaleAt(e, v, e[m].scal))
              \/ \E m \in Kind(e, {"Long", "Short"}) : new[l] = Wrap(v[m])
              \/ l \in DOMAIN h /\ new[l] = h[l]
         /\ Placed(e) => \A m \in Kind(e, {"Float"}) :
              /\ At(new, e[m].scal) = ScaleAt(e, v, e[m].scal)
              /\ At(new, e[m].loc) = Encode(v[m], ScaleAt(e, v, e[m].scal))
<1> DEFINE S(l)   == ScaleAt(e, v, l)
           floats == Kind(e, {"Float"})
           ints   == Kind(e, {"Long", "Short"})
           scals  == {e[m].scal : m \in floats}
           at(ms, l) == CHOOSE m \in ms : e[m].loc = l
           under  == IF Kind(e, {"Copy"}) # {} THEN h ELSE <<>>
           D == DOMAIN under \cup scals \cup Locs(e, floats \cup ints)
<1>1. new = [l \in D |->
               IF l \in scals THEN S(l)
               ELSE IF l \in Locs(e, floats) THEN Encode(v[at(floats, l)], S(e[at(floats, l)].scal))
               ELSE IF l \in Locs(e, ints) THEN Wrap(v[at(ints, l)]) ELSE under[l]]
  BY DEF Inserted, ScaleAt
<1>2. \A ms, l : l \in Locs(e, ms) => at(ms, l) \in ms /\ e[at(ms, l)].loc = l
  BY DEF Locs
<1>3. \A l \in scals : \E m \in floats : l = e[m].scal
  OBVIOUS
<1>4. \A l \in DOMAIN under : l \in DOMAIN h /\ under[l] = h[l]
  OBVIOUS
<1>5. \A m \in floats : e[m].scal \in scals /\ e[m].loc \in Locs(e, floats)
  BY DEF Locs
<1>6. /\ \A l \in D : l \in DOMAIN under \/ l \in scals \/ l \in Locs(e, floats) \/ l \in Locs(e, ints)
      /\ \A m \in floats : e[m].scal \in D /\ e[m].loc \in D
  BY DEF Locs
<1> HIDE DEF S, scals, at, under, D
<1>7. ASSUME NEW l \in DOMAIN new
      PROVE  \/ \E m \in floats : l = e[m].scal /\ new[l] = S(l)
             \/ \E m \in floats : l = e[m].loc /\ new[l] = Encode(v[m], S(e[m].scal))
             \/ \E m \in ints : new[l] = Wrap(v[m])
             \/ l \in DOMAIN h /\ new[l] = h[l]
  <2>1. l \in D
    BY <1>1
  <2>2. CASE l \in scals
    BY <1>1, <1>3, <2>1, <2>2
  <2>3. CASE l \notin scals /\ l \in Locs(e, floats)
    BY <1>1, <1>2, <2>1, <2>3
  <2>4. CASE l \notin scals /\ l \notin Locs(e, floats) /\ l \in Locs(e, ints)
    BY <1>1, <1>2, <2>1, <2>4
  <2>5. CASE l \notin scals /\ l \notin Locs(e, floats) /\ l \notin Locs(e, ints)
    BY <1>1, <1>4, <1>6, <2>1, <2>5
  <2> QED BY <2>2, <2>3, <2>4, <2>5
<1>8. ASSUME Placed(e), NEW m \in floats
      PROVE  /\ At(new, e[m].scal) = S(e[m].scal)
             /\ At(new, e[m].loc) = Encode(v[m], S(e[m].scal))
  <2>1. e[m].loc \notin scals
    BY <1>3, <1>8 DEF Placed
  <2>2. at(floats, e[m].loc) = m
    BY <1>2, <1>5, <1>8 DEF Placed
  <2>3. DOMAIN new = D
    BY <1>1
  <2>4. At(new, e[m].scal) = S(e[m].scal)
    BY <1>1, <1>5, <1>6, <2>3 DEF At
  <2>5. At(new, e[m].loc) = Encode(v[m], S(e[m].scal))
    BY <1>1, <1>5, <1>6, <2>1, <2>2, <2>3 DEF At
  <2> QED BY <2>4, <2>5
<1> QED BY <1>7, <1>8 DEF S

LEMMA InsertedInt ==
  ASSUME PowersOfTen, NEW e, NEW v, NEW h, IntHeader(h),
         \A m \in Kind(e, {"Float", "Long", "Short"}) : v[m] \in Int
  PROVE  IntHeader(Inserted(e, v, h))
<1>1. \A m : m \in Kind(e, {"Float"}) \/ m \in Kind(e, {"Long", "Short"}) => v[m] \in Int
  BY DEF Kind
<1>2. \A l : ScaleAt(e, v, l) \in Int
  <2> TAKE l
  <2>1. {v[m] : m \in Sharing(e, l)} \subseteq Int
    BY <1>1 DEF Sharing
  <2> QED BY <2>1, CommonInt DEF ScaleAt
<1>3. PICK new : new = Inserted(e, v, h)
  OBVIOUS
<1>4. ASSUME NEW l \in DOMAIN new
      PROVE  new[l] \in Int
  <2>1. \/ new[l] = ScaleAt(e, v, l)
        \/ \E m \in Kind(e, {"Float"}) : new[l] = Encode(v[m], ScaleAt(e, v, e[m].scal))
        \/ \E m \in Kind(e, {"Long", "Short"}) : new[l] = Wrap(v[m])
        \/ l \in DOMAIN h /\ new[l] = h[l]
    BY <1>3, InsertedIs
  <2> QED BY <1>1, <1>2, <2>1, StoredInt, WrapInt DEF IntHeader
<1> QED BY <1>3, <1>4 DEF IntHeader

-----------------------------------------------------------------------------
(***************************************************************************)
(* All values are integers, in the table, the headers kept and the file.   *)
(***************************************************************************)
IntInv == /\ \A p \in Prm, j \in Trace : /\ \A m \in Metas(p) : Vals[p][j][m] \in Int
                                         /\ IntHeader(c[p][j])
          /\ IntHeader(header)

LEMMA IntInit ==
  ASSUME IntsGiven
  PROVE  PrmInit => IntInv
<1> SUFFICES ASSUME PrmInit PROVE IntInv
  OBVIOUS
<1>1. ArraysOK /\ Table!Init
  BY InitIs
<1>2. ASSUME NEW p \in Prm, NEW j \in Trace, NEW m \in Metas(p)
      PROVE  Vals[p][j][m] = Zero
  BY <1>1, TableRule DEF Table!Init, Vals, Table!Trace, Trace
<1>3. \A p \in Prm, j \in Trace : IntHeader(c[p][j])
  BY DEF PrmInit, IntHeader
<1> QED BY <1>2, <1>3 DEF IntInv, Zero, PrmInit, IntsGiven

LEMMA TakenInt ==
  ASSUME PowersOfTen, NEW p \in Prm, NEW old, NEW h, IntHeader(h),
         \A m \in Metas(p) : old[m] \in Int
  PROVE  \A m \in Metas(p) : Table!Taken(p, old, h)[m] \in Int
BY SaidInt, TableRule DEF Table!Taken

LEMMA IntNext ==
  ASSUME PowersOfTen, IntsGiven
  PROVE  ArraysOK /\ IntInv /\ [PrmNext]_prmVars => IntInv'
<1> SUFFICES ASSUME ArraysOK, IntInv, [PrmNext]_prmVars
             PROVE  IntInv'
  OBVIOUS
<1>0. /\ r' = r /\ \A p : Metas(p)' = Metas(p)
      /\ Vals = [p \in Prm |-> [j \in Trace |-> Vals[p][j]]]
      /\ c = [p \in Prm |-> [j \in Trace |-> c[p][j]]]
  <2>1. r' = r
    BY DEF PrmNext, SetPrm, InsertParam, ExtractParam, CpyPrm, Op, Finished, prmVars
  <2> QED BY <2>1, SameRules DEF Vals, ArraysOK
<1>1. ASSUME NEW p \in Prm, NEW j \in Trace, NEW m \in Metas(p),
             NEW v \in Values[Ent(p)[m].type], SetPrm(p, j, m, v)
      PROVE  IntInv'
  <2>1. Vals' = [Vals EXCEPT ![p][j][m] = v] /\ c' = c /\ header' = header
    BY <1>1, SetStep DEF Table!Set, Vals
  <2>2. v \in Int
    BY <1>1, EntryIs DEF IntsGiven
  <2>3. \A q \in Prm, k \in Trace :
          Vals'[q][k] = IF q = p /\ k = j THEN [Vals[p][j] EXCEPT ![m] = v] ELSE Vals[q][k]
    BY <1>0, <2>1
  <2>4. \A n \in Metas(p) : [Vals[p][j] EXCEPT ![m] = v][n] \in {v, Vals[p][j][n]}
    <3>1. Vals[p][j] = [n \in Metas(p) |-> Vals[p][j][n]]
      BY DEF Vals, Row
    <3> QED BY <3>1
  <2> QED BY <1>0, <2>1, <2>2, <2>3, <2>4 DEF IntInv
<1>2. ASSUME NEW p \in Prm, NEW j \in Trace, InsertParam(p, j)
      PROVE  IntInv'
  <2>1. Vals' = Vals /\ c' = c /\ header' = Inserted(Ent(p), Row(p, j), c[p][j])
    BY <1>2, InsertStep DEF Table!Insert, Vals, InsertParam
  <2>2. \A m \in Kind(Ent(p), {"Float", "Long", "Short"}) : Row(p, j)[m] \in Int
    BY DEF IntInv, Vals, Kind, Metas
  <2>3. IntHeader(header')
    BY <2>1, <2>2, InsertedInt DEF IntInv
  <2> QED BY <1>0, <2>1, <2>3 DEF IntInv
<1>3. ASSUME NEW p \in Prm, NEW j \in Trace, ExtractParam(p, j)
      PROVE  IntInv'
  <2> DEFINE T == Table!Taken(p, Vals[p][j], header)
  <2>1. /\ Vals' = [Vals EXCEPT ![p][j] = T]
        /\ c' = Table!Keep(p, j, header) /\ header' = header
    BY <1>0, <1>3, ExtractStep DEF Table!Extract, Vals
  <2>2. \A m \in Metas(p) : T[m] \in Int
    BY TakenInt DEF IntInv
  <2> HIDE DEF T
  <2>3. \A q \in Prm, k \in Trace : Vals'[q][k] = IF q = p /\ k = j THEN T ELSE Vals[q][k]
    BY <1>0, <2>1
  <2>4. \A q \in Prm, k \in Trace : c'[q][k] \in {header, c[q][k]}
    BY <1>0, <2>1 DEF Table!Keep
  <2> QED BY <1>0, <2>1, <2>2, <2>3, <2>4 DEF IntInv
<1>4. ASSUME NEW p \in Prm, NEW j \in Trace, NEW q \in Prm, NEW k \in Trace, CpyPrm(p, j, q, k)
      PROVE  IntInv'
  <2> DEFINE told == IF Table!HasCopy(p) THEN Table!Taken(q, Vals[q][k], c[p][j]) ELSE Vals[q][k]
             same == {m \in Table!Metas(p) \cap Table!Metas(q) :
                        FieldTable[p][m].type = FieldTable[q][m].type}
             T    == [m \in Table!Metas(q) |-> IF m \in same THEN Vals[p][j][m] ELSE told[m]]
  <2>1. /\ Vals' = [Vals EXCEPT ![q][k] = T]
        /\ c' = (IF Table!HasCopy(p) THEN Table!Keep(q, k, c[p][j]) ELSE c) /\ header' = header
    BY <1>4, CopyStep DEF Table!Copy, Vals, FieldTable
  <2>2. \A m \in Metas(q) : told[m] \in Int
    BY TakenInt DEF IntInv
  <2> HIDE DEF told
  <2>3. \A m \in Metas(q) : T[m] \in Int
    BY <2>2, TableRule DEF IntInv
  <2> HIDE DEF T
  <2>4. \A s \in Prm, i \in Trace : Vals'[s][i] = IF s = q /\ i = k THEN T ELSE Vals[s][i]
    BY <1>0, <2>1
  <2>5. \A s \in Prm, i \in Trace : c'[s][i] \in {c[p][j], c[s][i]}
    BY <1>0, <2>1 DEF Table!Keep
  <2> QED BY <1>0, <2>1, <2>3, <2>4, <2>5 DEF IntInv
<1>5. ASSUME UNCHANGED prmVars
      PROVE  IntInv'
  <2>1. Vals' = Vals /\ c' = c /\ header' = header
    BY <1>5 DEF prmVars, Vals, Row, Metas, GetPrm, Index, Ent, Width
  <2> QED BY <1>0, <2>1 DEF IntInv
<1> QED BY <1>1, <1>2, <1>3, <1>4, <1>5 DEF PrmNext, Finished

\* The step that writes a header.
LEMMA InsertExact ==
  ASSUME PowersOfTen, IntsGiven, PlacesApart, ArraysOK, IntInv,
         NEW p \in Prm, NEW j \in Trace, InsertParam(p, j),
         NEW l \in {Ent(p)[m].scal : m \in Kind(Ent(p), {"Float"})},
         Storable({GetPrm(p, j, m) : m \in Sharing(Ent(p), l)}),
         NEW n \in Sharing(Ent(p), l)
  PROVE  Said(Ent(p)[n], header') = GetPrm(p, j, n)
<1> DEFINE e == Ent(p)
           v == Row(p, j)
           V == {v[m] : m \in Sharing(e, l)}
<1>1. header' = Inserted(e, v, c[p][j]) /\ V = {v[m] : m \in Sharing(e, l)}
  BY DEF InsertParam
<1>2. \A m \in Kind(e, {"Float"}) : m \in Metas(p) /\ v[m] = GetPrm(p, j, m) /\ v[m] \in Int
  BY DEF IntInv, Vals, Kind, Metas, Row
<1>3. n \in Kind(e, {"Float"}) /\ e[n].scal = l /\ e[n].type = "Float"
  BY DEF Sharing, Kind
<1>4. V \subseteq Int /\ v[n] \in V /\ V = {GetPrm(p, j, m) : m \in Sharing(e, l)}
  BY <1>2 DEF Sharing
<1>5. Placed(e)
  BY DEF PlacesApart, ArraysOK, Ent
<1> HIDE DEF e, v
<1>6. /\ At(header', e[n].scal) = Common(V)
      /\ At(header', e[n].loc) = Encode(v[n], Common(V))
  <2>1. ScaleAt(e, v, l) = Common(V)
    BY <1>1 DEF ScaleAt
  <2>2. PICK new : new = Inserted(e, v, c[p][j])
    OBVIOUS
  <2>3. /\ At(new, e[n].scal) = ScaleAt(e, v, e[n].scal)
        /\ At(new, e[n].loc) = Encode(v[n], ScaleAt(e, v, e[n].scal))
    BY <1>3, <1>5, <2>2, InsertedIs
  <2> QED BY <1>1, <1>3, <2>1, <2>2, <2>3
<1> HIDE DEF V
<1>7. Storable(V)
  BY <1>4 DEF e
<1>8. Exact(v[n], Common(V))
  BY <1>4, <1>7, CommonExact
<1>9. Said(e[n], header') = v[n]
  BY <1>3, <1>6, <1>8 DEF Said, Exact
<1> QED BY <1>2, <1>3, <1>9 DEF e

(***************************************************************************)
(* What insertParam writes of coordinates that share a scale is what       *)
(* extractParam reads, exactly, whenever one scale keeps them all: for all *)
(* powers of ten, all widths of an integer and all rules whose coordinates *)
(* have places of their own (StoredExactly).                               *)
(***************************************************************************)
THEOREM StoresExactly ==
  ASSUME PowersOfTen, IntsGiven, PlacesApart
  PROVE  PrmSpec => StoredExactly
<1>1. PrmInit => ArraysOK /\ IntInv
  BY InitIs, IntInit
<1>2. ArraysOK /\ IntInv /\ [PrmNext]_prmVars => (ArraysOK /\ IntInv)'
  BY NextStep, IntNext
<1>3. ArraysOK /\ IntInv =>
        \A p \in Prm, j \in Trace : InsertParam(p, j) =>
          \A l \in {Ent(p)[m].scal : m \in Kind(Ent(p), {"Float"})} :
            Storable({GetPrm(p, j, m) : m \in Sharing(Ent(p), l)}) =>
              \A m \in Sharing(Ent(p), l) : Said(Ent(p)[m], header') = GetPrm(p, j, m)
  BY InsertExact
<1> QED BY <1>1, <1>2, <1>3, PTL DEF PrmSpec, StoredExactly
=============================================================================
