------------------------------ MODULE ParamSpec -----------------------------
(***************************************************************************)
(* What Param objects promise (include/file/dynsegymd.hh): a value for     *)
(* each trace and each parameter of the rule, which setPrm sets, cpyPrm    *)
(* copies, and which goes to and comes from trace headers.  With the copy  *)
(* in its rule, a Param also keeps a whole header for each trace.          *)
(***************************************************************************)
EXTENDS Integers

CONSTANTS Prm,             \* the Param objects
          Nt,              \* the traces of each
          Values,          \* the values callers set, by type
          Zero,            \* the value of what was never set
          Inserted(_,_,_), \* the header that entries and values make of one
          Said(_,_)        \* what a header says of an entry

Trace == 0 .. Nt - 1

VARIABLES field,           \* field[p]: the entries of the rule of p
          val,             \* val[p][j]: the values of trace j, by meta
          raw,             \* raw[p][j]: the header kept for trace j
          header           \* the header of a trace in a file

vars == <<field, val, raw, header>>

Metas(p)    == {m \in DOMAIN field[p] : field[p][m].type # "Copy"}
HasCopy(p)  == \E m \in DOMAIN field[p] : field[p][m].type = "Copy"
InHeader(e) == e.type # "Index"

Init == /\ val = [p \in Prm |-> [j \in Trace |-> [m \in Metas(p) |-> Zero]]]
        /\ raw = [p \in Prm |-> [j \in Trace |-> <<>>]]

Set(p, j, m, v) == /\ val' = [val EXCEPT ![p][j][m] = v]
                   /\ UNCHANGED <<field, raw, header>>

Insert(p, j) == /\ header' = Inserted(field[p], val[p][j], raw[p][j])
                /\ UNCHANGED <<field, val, raw>>

Taken(p, old, h) ==
  [m \in Metas(p) |-> IF InHeader(field[p][m]) THEN Said(field[p][m], h) ELSE old[m]]

Keep(p, j, h) == IF HasCopy(p) THEN [raw EXCEPT ![p][j] = h] ELSE raw

Extract(p, j) == /\ val' = [val EXCEPT ![p][j] = Taken(p, @, header)]
                 /\ raw' = Keep(p, j, header)
                 /\ UNCHANGED <<field, header>>

\* What the source has is copied; the header it keeps tells of the rest.
Copy(p, j, q, k) ==
  LET told == IF HasCopy(p) THEN Taken(q, val[q][k], raw[p][j]) ELSE val[q][k]
      same == {m \in Metas(p) \cap Metas(q) : field[p][m].type = field[q][m].type}
  IN  /\ val' = [val EXCEPT ![q][k] =
                   [m \in Metas(q) |-> IF m \in same THEN val[p][j][m] ELSE told[m]]]
      /\ raw' = IF HasCopy(p) THEN Keep(q, k, raw[p][j]) ELSE raw
      /\ UNCHANGED <<field, header>>

Next == \E p \in Prm, j \in Trace :
          \/ \E m \in Metas(p) : \E v \in Values[field[p][m].type] : Set(p, j, m, v)
          \/ Insert(p, j)
          \/ Extract(p, j)
          \/ \E q \in Prm, k \in Trace : Copy(p, j, q, k)

Spec == Init /\ [][Next]_vars
=============================================================================
