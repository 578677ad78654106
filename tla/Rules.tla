------------------------------- MODULE Rules --------------------------------
(***************************************************************************)
(* struct Rule of src/dynsegymd.cc: which trace parameters are kept, where *)
(* each lies in a trace header, and which column of the arrays of a Param  *)
(* it has.                                                                 *)
(*                                                                         *)
(* Rules are added, replaced and removed in any order; an operation that   *)
(* visits the entries meets the null pointers that getEntry leaves behind. *)
(* Set::getMinMax in src/flow.cc adds the two rules it needs for the time  *)
(* of its work and takes them back.                                        *)
(*                                                                         *)
(* A field [type, lo, hi] has the bytes of a trace header, from lo to      *)
(* before hi, that insertParam and extractParam access for an entry.       *)
(* Places (PIOL_Tr) are counted from 1, so that an entry with the place    *)
(* loc accesses byte loc - 1, which is loc - 1 - start in a buffer that    *)
(* begins with byte start.  The callers put no field at the meta of the    *)
(* copy, and ask for entries that are not there only in Asked.             *)
(* A definition Bug... is not part of the model.  It is the definition     *)
(* after it with a plausible mistake, which the properties are to notice.  *)
(***************************************************************************)
EXTENDS Integers

Type == {"Long", "Short", "Float", "Index", "Copy"}

CONSTANTS Meta,        \* the names of the parameters
          gtn, ltn,    \* PIOL_META_gtn, PIOL_META_ltn
          COPY,        \* PIOL_META_COPY
          MDSz,        \* SEGSz::getMDSz(), the size of a trace header
          Default,     \* the fields of the predefined rules
          Fields,      \* the fields callers add themselves
          Others,      \* other rules, which are added as a whole
          Asked        \* the metas getEntry is called for in vain

\* Every PIOL_Tr lies inside the trace header.
Field      == [type : Type, lo : 0 .. MDSz, hi : 0 .. MDSz]
CopyField  == [type |-> "Copy", lo |-> 0, hi |-> MDSz]
IndexField == [type |-> "Index", lo |-> 0, hi |-> 0]

\* Sets of fields by meta, in which the copy is at its meta only.
FieldMap(f) == /\ DOMAIN f \subseteq Meta
               /\ \A m \in DOMAIN f : f[m] \in Field /\ (f[m].type = "Copy" <=> m = COPY)

ASSUME MetaAssumption   == gtn \in Meta /\ ltn \in Meta /\ COPY \in Meta
                           /\ gtn # ltn /\ gtn # COPY /\ ltn # COPY
ASSUME MDSzAssumption   == MDSz \in Nat
ASSUME AskedAssumption  == Asked \subseteq Meta
ASSUME FieldsAssumption == /\ FieldMap(Default)
                           /\ \A m \in DOMAIN Default : Default[m].type # "Index"
                           /\ Fields \subseteq {f \in Field : f.type # "Copy"}
                           /\ \A o \in Others : FieldMap(o)

VARIABLES rule,        \* .map: the entries, .num[t]: numLong, numShort, ...
          null,        \* the metas that translate maps to a null pointer
          ext,         \* the extent: flag.fullextent, flag.badextent, start, end
          rest,        \* what addRule(const Rule&) has still to visit
          minmax,      \* getMinMax in progress
          alive        \* FALSE behind an access through a null pointer

vars == <<rule, null, ext, rest, minmax, alive>>
-----------------------------------------------------------------------------
\* The types that have bytes of their own in the trace header.
Sized(e) == e.type \in {"Long", "Short", "Float"}

\* min() and max() of an entry: places, one above the number of the byte.  The
\* copy gives bytes.
MinPlace(e) == IF Sized(e) THEN e.lo + 1 ELSE e.lo
MaxPlace(e) == IF Sized(e) THEN e.hi + 1 ELSE e.hi

Entry(f, n) == [type |-> f.type, num |-> n, lo |-> f.lo, hi |-> f.hi]

\* A new entry takes the next column of its type.
With(r, m, f) ==
  [map |-> [k \in DOMAIN r.map \cup {m} |-> IF k = m THEN Entry(f, r.num[f.type]) ELSE r.map[k]],
   num |-> [r.num EXCEPT ![f.type] = @ + 1]]

\* The columns behind the one of m move up.
BugWithout(r, m) ==                   \* they stay where they are
  IF m \notin DOMAIN r.map THEN r
  ELSE [map |-> [k \in DOMAIN r.map \ {m} |-> r.map[k]],
        num |-> [r.num EXCEPT ![r.map[m].type] = @ - 1]]

BugFallsThrough(r, m) ==              \* a case of the switch without its break
  IF m \notin DOMAIN r.map THEN r
  ELSE [BugWithout(r, m) EXCEPT !.num["Short"] = IF r.map[m].type = "Long" THEN @ - 1 ELSE @]

Without(r, m) ==
  IF m \notin DOMAIN r.map THEN r
  ELSE LET e == r.map[m]
       IN  [map |-> [k \in DOMAIN r.map \ {m} |->
                       IF r.map[k].type = e.type /\ r.map[k].num > e.num
                       THEN [r.map[k] EXCEPT !.num = @ - 1] ELSE r.map[k]],
            num |-> [r.num EXCEPT ![e.type] = @ - 1]]

Empty == [map |-> [k \in {} |-> Entry(IndexField, 0)], num |-> [t \in Type |-> 0]]

Present(m) == m \in DOMAIN rule.map \cup null

\* addRule(Meta): no change when the meta is there, or has no default.
Addable(m) == m \in DOMAIN Default /\ ~Present(m)

\* flag.badextent after a change.  addIndex and addCopy do not touch it.
BugStale == ext
Stale == [ext EXCEPT !.bad = ~ext.full]
StaleWith(f) == IF f.type \in {"Index", "Copy"} THEN ext ELSE Stale

Idle   == alive /\ DOMAIN rest = {} /\ ~minmax.in
NoRest == [m \in {} |-> CopyField]
Crash  == alive' = FALSE /\ UNCHANGED <<rule, null, ext, rest, minmax>>
-----------------------------------------------------------------------------
\* The constructor with no list of metas; the metas of a list are added by
\* addRule(Meta).
Init == /\ rule = With(With(Empty, gtn, IndexField), ltn, IndexField)
        /\ null = {}
        /\ ext \in {[full |-> TRUE,  bad |-> FALSE, start |-> 0, end |-> MDSz],
                    [full |-> FALSE, bad |-> FALSE, start |-> MDSz, end |-> 0]}
        /\ rest = NoRest
        /\ minmax = [in |-> FALSE]
        /\ alive = TRUE

AddRule(m) ==
  /\ Idle /\ Addable(m)
  /\ rule' = With(rule, m, Default[m])
  /\ ext'  = StaleWith(Default[m])
  /\ UNCHANGED <<null, rest, minmax, alive>>

\* addLong, addShort, addSEGYFloat, addIndex: an entry that is there is
\* replaced.
Replace(m, f) == With(Without(rule, m), m, f)

AddField(m, f) ==
  /\ Idle /\ m # COPY
  /\ IF m \in null \/ (m \in DOMAIN rule.map /\ null # {})
     THEN Crash
     ELSE /\ rule' = Replace(m, f)
          /\ ext'  = IF m \in DOMAIN rule.map THEN Stale ELSE StaleWith(f)
          /\ UNCHANGED <<null, rest, minmax, alive>>

AddCopy ==
  /\ Idle /\ rule.num["Copy"] = 0
  /\ rule' = With(rule, COPY, CopyField)
  /\ null' = null \ {COPY}
  /\ UNCHANGED <<ext, rest, minmax, alive>>

RmRule(m) ==
  /\ Idle /\ Present(m)
  /\ IF null # {}
     THEN Crash
     ELSE /\ rule' = Without(rule, m)
          /\ ext'  = Stale
          /\ UNCHANGED <<null, rest, minmax, alive>>

(***************************************************************************)
(* addRule(const Rule&): one entry of the other rule after the other, in   *)
(* the order of an unordered map.                                          *)
(***************************************************************************)
AddRules(o) == /\ Idle /\ DOMAIN o # {}
               /\ rest' = o
               /\ UNCHANGED <<rule, null, ext, minmax, alive>>

NextRule(m) ==
  /\ alive /\ m \in DOMAIN rest
  /\ rest' = [k \in DOMAIN rest \ {m} |-> rest[k]]
  /\ IF Present(m) THEN UNCHANGED <<rule, ext>>
     ELSE rule' = With(rule, m, rest[m]) /\ ext' = StaleWith(rest[m])
  /\ UNCHANGED <<null, minmax, alive>>

\* extent: computed again when it is stale, from all entries but indices.
Extent ==
  /\ Idle /\ ext.bad
  /\ IF null # {}
     THEN Crash
     ELSE LET span == {m \in DOMAIN rule.map : rule.map[m].type # "Index"}
              lows == {MinPlace(rule.map[m]) : m \in span} \cup {MDSz}
              tops == {MaxPlace(rule.map[m]) : m \in span} \cup {0}
          IN  /\ ext' = [ext EXCEPT !.bad = FALSE,
                           !.start = CHOOSE x \in lows : \A y \in lows : x <= y,
                           !.end   = CHOOSE x \in tops : \A y \in tops : y <= x]
              /\ UNCHANGED <<rule, null, rest, minmax, alive>>

\* getEntry(m) where m is not there: translate[m] makes a null entry.
GetEntry(m) ==
  /\ Idle /\ ~Present(m)
  /\ null' = null \cup {m}
  /\ UNCHANGED <<rule, ext, rest, minmax, alive>>

(***************************************************************************)
(* Set::getMinMax(m1, m2): between the two actions the parameters are read *)
(* with the rule as it is then.                                            *)
(***************************************************************************)
Coordinate == {m \in DOMAIN Default : m # COPY}

Ensured(r, m) == IF m \in DOMAIN r.map THEN r ELSE With(r, m, Default[m])

MinMax(m1, m2) ==
  /\ Idle
  /\ IF m1 \in null \/ m2 \in null
     THEN Crash
     ELSE /\ rule' = Ensured(Ensured(rule, m1), m2)
          /\ ext'  = IF rule' = rule THEN ext ELSE Stale
          /\ minmax' = [in |-> TRUE, m1 |-> m1, m2 |-> m2, before |-> rule,
                        add1 |-> ~Present(m1),
                        add2 |-> m2 \notin DOMAIN Ensured(rule, m1).map]
          /\ UNCHANGED <<null, rest, alive>>

BugTakenBack(r, m, added) == Without(r, m)    \* whether it was added or not
TakenBack(r, m, added) == IF added THEN Without(r, m) ELSE r

MinMaxEnd ==
  /\ alive /\ minmax.in
  /\ IF null # {} /\ (minmax.add1 \/ minmax.add2)
     THEN Crash
     ELSE /\ rule' = TakenBack(TakenBack(rule, minmax.m1, minmax.add1), minmax.m2, minmax.add2)
          /\ ext'  = IF minmax.add1 \/ minmax.add2 THEN Stale ELSE ext
          /\ minmax' = [in |-> FALSE]
          /\ UNCHANGED <<null, rest, alive>>

Crashed == ~alive /\ UNCHANGED vars

Next == \/ \E m \in Meta : AddRule(m)
        \/ \E m \in Meta, f \in Fields : AddField(m, f)
        \/ AddCopy
        \/ \E m \in Meta : RmRule(m)
        \/ \E o \in Others : AddRules(o)
        \/ \E m \in Meta : NextRule(m)
        \/ Extent
        \/ \E m \in Asked : GetEntry(m)
        \/ \E m1, m2 \in Coordinate : MinMax(m1, m2)
        \/ MinMaxEnd
        \/ Crashed

Spec == Init /\ [][Next]_vars
-----------------------------------------------------------------------------
Entries == [type : Type, num : Nat, lo : 0 .. MDSz, hi : 0 .. MDSz]

Rule(r) == /\ DOMAIN r.map \subseteq Meta
           /\ r \in [map : [DOMAIN r.map -> Entries], num : [Type -> Nat]]

TypeOK == /\ Rule(rule)
          /\ null \subseteq Meta
          /\ ext \in [full : BOOLEAN, bad : BOOLEAN, start : 0 .. MDSz, end : 0 .. MDSz + 1]
          /\ FieldMap(rest)
          /\ alive \in BOOLEAN

\* The columns of each type are numbered without holes and doubles.
Dense(r) ==
  /\ \A m \in DOMAIN r.map : r.map[m].num < r.num[r.map[m].type]
  /\ \A m, k \in DOMAIN r.map :
       r.map[m].type = r.map[k].type /\ r.map[m].num = r.map[k].num => m = k
  /\ \A t \in Type : \A n \in 0 .. r.num[t] - 1 :
       \E m \in DOMAIN r.map : r.map[m].type = t /\ r.map[m].num = n

\* The element of the array of its type that holds parameter m of trace i.
Cell(r, i, m) == r.num[r.map[m].type] * i + r.map[m].num

(***************************************************************************)
(* Safety: in a Param of any number of traces that is made with the rule   *)
(* as it is now, every parameter of every trace has an element of its own, *)
(* inside the array, and no element is without a parameter, whatever was   *)
(* added, replaced and removed before.  (The size checked is two traces;   *)
(* the theorem is for every size.)                                         *)
(***************************************************************************)
OwnCells(sz) ==
  /\ \A m \in DOMAIN rule.map : \A i \in 0 .. sz - 1 :
       Cell(rule, i, m) < rule.num[rule.map[m].type] * sz
  /\ \A m, k \in DOMAIN rule.map : \A i, j \in 0 .. sz - 1 :
       rule.map[m].type = rule.map[k].type /\ Cell(rule, i, m) = Cell(rule, j, k)
         => m = k /\ i = j

CellsApart == Dense(rule) /\ OwnCells(2)

(***************************************************************************)
(* Action property: getMinMax leaves the rule as it was: the parameters    *)
(* that other Params made with it keep their columns.                      *)
(***************************************************************************)
LeavesRule == [][MinMaxEnd /\ alive' => rule' = minmax.before]_vars

(***************************************************************************)
(* Safety: an extent that is not marked as stale was found with the        *)
(* entries as they are now.  A full one has every byte of every field; one *)
(* that was computed from min() and max() has all of them but the first    *)
(* byte of the lowest field.  (The copy of the header, which addCopy adds  *)
(* without marking the extent, is left out.)                               *)
(***************************************************************************)
ExtentReaches ==
  ~ext.bad => \A m \in DOMAIN rule.map :
                Sized(rule.map[m]) =>
                  /\ ext.start <= rule.map[m].lo + (IF ext.full THEN 0 ELSE 1)
                  /\ rule.map[m].hi <= ext.end

(***************************************************************************)
(* Safety: every byte that insertParam writes lies in the extent, "the     *)
(* buffer space required for the metadata items"                           *)
(* (include/file/dynsegymd.hh:375).  It does not hold of a computed one.   *)
(***************************************************************************)
ExtentCovers ==
  ~ext.bad => \A m \in DOMAIN rule.map :
                Sized(rule.map[m]) =>
                  ext.start <= rule.map[m].lo /\ rule.map[m].hi <= ext.end

(***************************************************************************)
(* Safety: the operations of a rule do not end the program.  A test        *)
(* (test/spectests/dynsegymd.cc:55) asks for an entry that was removed and *)
(* is answered with a null pointer.                                        *)
(***************************************************************************)
Survives == alive
=============================================================================
