------------------------------- MODULE Params -------------------------------
(***************************************************************************)
(* struct Param of include/share/param.hh and the operations on it in      *)
(* src/dynsegymd.cc: the values of all traces lie in an array for each     *)
(* type, in rows of as many values as the rule has entries of the type;    *)
(* the entry knows its column.                                             *)
(*                                                                         *)
(* Rules are as a Rule object keeps them (full extent); Param objects can  *)
(* share one.  Names that every module has begin with Prm here, so that    *)
(* RulesProofs can extend Rules and this module together.                  *)
(*                                                                         *)
(* A definition Bug... is not part of the model.  It is the definition     *)
(* after it with a plausible mistake, which the properties are to notice.  *)
(***************************************************************************)
EXTENDS TraceHeader, Sequences

CONSTANTS Prm,         \* the Param objects
          Nt,          \* the traces of each
          RuleObjs,    \* the Rule objects: the entries, and how many of a type
          Values,      \* the values callers set, by type
          Foreign,     \* headers that the file may have at first
          MaxOps       \* bound: operations

Trace == 0 .. Nt - 1
Types == {"Float", "Long", "Short", "Index"}

\* Entries of a type have columns of their own, as Rules shows.
Apart(rule) ==
  \A m \in DOMAIN rule.translate :
    LET e == rule.translate[m]
    IN  e.type \in Types =>
          /\ e.num \in 0 .. rule.width[e.type] - 1
          /\ \A n \in DOMAIN rule.translate \ {m} :
               rule.translate[n].type = e.type => rule.translate[n].num # e.num

ASSUME NtAssumption  == Nt \in Nat \ {0}
ASSUME OpsAssumption == MaxOps \in Nat
ASSUME RulesAssumption ==
  \A rule \in RuleObjs :
    /\ rule.width \in [Types -> Nat]
    /\ \A m \in DOMAIN rule.translate : rule.translate[m].type \in Types \cup {"Copy"}
    /\ Apart(rule)

VARIABLES r,           \* r[p]: the Rule object of p
          cell,        \* cell[p]: the arrays f, i, s and t: <<type, index>>
          c,           \* c[p][j]: the array c, the header kept for trace j
          header,      \* the header of a trace in a file
          ops          \* operations so far

prmVars == <<r, cell, c, header, ops>>

Ent(p)      == r[p].translate
Width(p, t) == r[p].width[t]
Metas(p)    == {m \in DOMAIN Ent(p) : Ent(p)[m].type # "Copy"}
HasCopy(p)  == \E m \in DOMAIN Ent(p) : Ent(p)[m].type = "Copy"
InHeader(p) == {m \in Metas(p) : Ent(p)[m].type # "Index"}

\* prm->f[r->numFloat * i + id->num] and the like.
Index(p, m, j) == LET e == Ent(p)[m] IN <<e.type, Width(p, e.type) * j + e.num>>

Cells(p) == UNION {{t} \X (0 .. Width(p, t) * Nt - 1) : t \in Types}

PrmInit == /\ r \in [Prm -> RuleObjs]
           /\ cell = [p \in Prm |-> [x \in Cells(p) |-> Zero]]
           /\ c = [p \in Prm |-> [j \in Trace |-> <<>>]]
           /\ header \in Foreign
           /\ ops = 0

Op == ops < MaxOps /\ ops' = ops + 1 /\ UNCHANGED r

GetPrm(p, j, m) == cell[p][Index(p, m, j)]
Row(p, j)       == [m \in Metas(p) |-> GetPrm(p, j, m)]

\* cells with the values of w, by meta, in row j.
WithRow(p, j, cells, w) ==
  [x \in DOMAIN cells |-> IF \E m \in DOMAIN w : Index(p, m, j) = x
                          THEN w[CHOOSE m \in DOMAIN w : Index(p, m, j) = x]
                          ELSE cells[x]]

SetPrm(p, j, m, v) ==
  /\ Op
  /\ cell' = [cell EXCEPT ![p][Index(p, m, j)] = v]
  /\ UNCHANGED <<c, header>>

InsertParam(p, j) ==
  /\ Op
  /\ header' = Inserted(Ent(p), Row(p, j), c[p][j])
  /\ UNCHANGED <<cell, c>>

\* extractParam of header h to row j of p.
ExtractedCells(p, j, h) ==
  WithRow(p, j, cell[p], [m \in InHeader(p) |-> Said(Ent(p)[m], h)])
ExtractedCopy(p, j, h) == IF HasCopy(p) THEN [c EXCEPT ![p][j] = h] ELSE c

ExtractParam(p, j) ==
  /\ Op
  /\ cell' = [cell EXCEPT ![p] = ExtractedCells(p, j, header)]
  /\ c' = ExtractedCopy(p, j, header)
  /\ UNCHANGED header

\* cpyPrm: with one rule, the rows are copied, else the entries that are in
\* both rules with one type.
CopiedRow(p, j, q, k, cells) ==
  [x \in DOMAIN cells |->
     LET w == Width(p, x[1])
     IN  IF x[2] \in w * k .. w * (k + 1) - 1 THEN cell[p][<<x[1], x[2] + w * (j - k)>>]
                                              ELSE cells[x]]

BugCopiedEntries(p, j, q, k, cells) ==          \* the column of the source
  LET same == {m \in Metas(p) \cap Metas(q) : Ent(p)[m].type = Ent(q)[m].type}
      to(m) == <<Ent(q)[m].type, Width(q, Ent(q)[m].type) * k + Ent(p)[m].num>>
  IN  [x \in DOMAIN cells |-> IF \E m \in same : to(m) = x
                              THEN GetPrm(p, j, CHOOSE m \in same : to(m) = x) ELSE cells[x]]

CopiedEntries(p, j, q, k, cells) ==
  WithRow(q, k, cells, [m \in {e \in Metas(p) \cap Metas(q) : Ent(p)[e].type = Ent(q)[e].type}
                          |-> GetPrm(p, j, m)])

\* No caller copies a trace onto itself.
CpyPrm(p, j, q, k) ==
  /\ Op
  /\ <<p, j>> # <<q, k>>
  /\ LET told == IF HasCopy(p) THEN ExtractedCells(q, k, c[p][j]) ELSE cell[q]
     IN  cell' = [cell EXCEPT ![q] = IF r[p] = r[q] THEN CopiedRow(p, j, q, k, told)
                                                    ELSE CopiedEntries(p, j, q, k, told)]
  /\ c' = IF HasCopy(p) THEN ExtractedCopy(q, k, c[p][j]) ELSE c
  /\ UNCHANGED header

Finished == ops = MaxOps /\ UNCHANGED prmVars

PrmNext == \/ \E p \in Prm, j \in Trace :
                \/ \E m \in Metas(p) : \E v \in Values[Ent(p)[m].type] : SetPrm(p, j, m, v)
                \/ InsertParam(p, j)
                \/ ExtractParam(p, j)
                \/ \E q \in Prm, k \in Trace : CpyPrm(p, j, q, k)
           \/ Finished

PrmSpec == PrmInit /\ [][PrmNext]_prmVars
-----------------------------------------------------------------------------
(***************************************************************************)
(* Refinement: the arrays are a table of values by trace and parameter.    *)
(* No operation disturbs another entry or another trace, whatever columns  *)
(* the entries have in the rules of the two objects.                       *)
(***************************************************************************)
Table == INSTANCE ParamSpec WITH
  field <- [p \in Prm |-> Ent(p)],
  val   <- [p \in Prm |-> [j \in Trace |-> Row(p, j)]],
  raw   <- c

ImplementsTable == Table!Spec

(***************************************************************************)
(* Action property: what insertParam writes of the coordinates that share  *)
(* a scale is what extractParam will read, exactly, whenever there is a    *)
(* scale at which all of them can be stored without loss.  The scale is    *)
(* put together from what deScale finds for each of them alone.            *)
(***************************************************************************)
StoredExactly ==
  [][\A p \in Prm, j \in Trace : InsertParam(p, j) =>
       \A l \in {Ent(p)[m].scal : m \in Kind(Ent(p), {"Float"})} :
         Storable({GetPrm(p, j, m) : m \in Sharing(Ent(p), l)}) =>
           \A m \in Sharing(Ent(p), l) : Said(Ent(p)[m], header') = GetPrm(p, j, m)]_prmVars
=============================================================================
