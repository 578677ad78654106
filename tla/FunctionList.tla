---------------------------- MODULE FunctionList ----------------------------
(***************************************************************************)
(* The deferred operations of a Set (src/flow.cc).  Sorting, gather        *)
(* operations and operations on single traces are kept in a list, func,    *)
(* until output() or the destructor unwinds it.  A gather operation and    *)
(* the files before it go through intermediate files on disk, which        *)
(* replace the files of the set.                                           *)
(*                                                                         *)
(* All processes unwind the same list, so one sequence of steps stands for *)
(* all of them; how they share the traces of one step is modelled in       *)
(* SetSort and Gathers.  What a file holds is the set of its parts: the    *)
(* caller's file a part stems from and what has been done to it.           *)
(***************************************************************************)
EXTENDS Naturals, Sequences, FiniteSets, SequencesExt, Orders

CONSTANTS Key,         \* the group, (ns, inc), of each file of the caller
          SortTypes,   \* the orders to sort by
          GatherKeys,  \* the groups the output of toAngle may be in
          OutNames,    \* of output names
          MaxOps,      \* bounds: how many operations are deferred at a time,
          MaxOutputs,  \* and how often output() is called
          Disciplined  \* whether callers keep to WellUsed

\* The caller's files, the outputs and the intermediate files have different
\* names, and no name of a group is the name without one.
ASSUME PrefixAssumption == /\ OutNames \cap {"", "temp", "gtemp"} = {}
                           /\ DOMAIN Key \cap (OutNames \cup {"temp", "gtemp"}) = {}
ASSUME KeyAssumption == /\ Key \in [DOMAIN Key -> Nat \ {0}]
                        /\ GatherKeys \subseteq Nat \ {0}
ASSUME MarkAssumption == SortTypes \cap {"trace", "gather"} = {}

VARIABLES
  file,     \* Set::file: open files, each with the order of its output places
  func,     \* Set::func
  outfix,   \* Set::outfix
  cache,    \* Set::cache: the files a block is for, and what they held then
  disk,     \* the contents of the files
  phase,    \* where the set is
  fCurr,    \* the operation the unwinding has come to
  todo,     \* groups to write, or files to gather, in order
  names,    \* names written by the innermost startSingle
  saved,    \* tOutfix while outfix is "temp", else ""
  opened,   \* how many files were ever opened: identifies a FileDesc
  taken,    \* the caller's files that were added; each is added once
  outputs, dying,
  promised, \* observed: what the last output should be: parts under a prefix
  given     \* observed: the files the last explicit output() has written

listVars == <<file, func, outfix, cache, disk, phase, fCurr, todo, names, saved,
              opened, taken, outputs, dying, promised, given>>
callVars == <<taken, outputs, dying, promised, given>>

NameOf(prefix, k) == <<prefix, k>>
Gtemp == NameOf("gtemp", 0)

(* Operations: their kind, and the mark they leave on what they are applied to. *)
NoOp == [kind |-> "single", does |-> <<>>]
TraceOp == [kind |-> "single", does |-> <<"trace">>]
SortOp(by) == [kind |-> "sort", does |-> <<by>>]
GatherOp(k) == [kind |-> "gather", does |-> <<"gather">>, key |-> k]

(***************************************************************************)
(* Operations in their order.  Two sorts in a row are as good as the last: *)
(* both start from the headers, and the second list of places replaces the *)
(* first.                                                                  *)
(***************************************************************************)
ThenOne(done, mark) ==
  IF mark \in SortTypes /\ done # <<>> /\ Last(done) \in SortTypes
    THEN Append(Front(done), mark)
    ELSE Append(done, mark)
Then(done, marks) == FoldLeft(ThenOne, done, marks)
After(parts, marks) == {[p EXCEPT !.done = Then(@, marks)] : p \in parts}

Current(kind) == fCurr <= Len(func) /\ func[fCurr].kind = kind
IsKind(i, kind) == i \in DOMAIN func /\ func[i].kind = kind

(* The first operation of another kind behind the current one. *)
PastRun(kind) == CHOOSE j \in fCurr + 1 .. Len(func) :
                   ~IsKind(j, kind) /\ \A i \in fCurr .. j - 1 : IsKind(i, kind)

(***************************************************************************)
(* The operations calcFunc applies to a block: of single traces all that   *)
(* follow each other; after a gather operation those that come next.  What *)
(* stands between two gather operations that is no single-trace operation  *)
(* is passed over.                                                         *)
(***************************************************************************)
Singles == LET run[i \in 1 .. Len(func) + 1] ==
                 IF IsKind(i, "single") THEN func[i].does \o run[i + 1] ELSE <<>>
           IN run

InGather == LET run[i \in 1 .. Len(func) + 2] ==
                  CASE ~IsKind(i, "gather") -> <<>>
                    [] IsKind(i, "gather") /\ IsKind(i + 1, "single")
                         -> func[i].does \o Singles[i + 1]
                    [] OTHER -> func[i].does \o run[i + 2]
            IN run

(***************************************************************************)
(* Groups of files, fmap, and the names of their outputs.                  *)
(***************************************************************************)
Keys == {file[i].key : i \in DOMAIN file}
Group(k) == LET member == InOrder({i \in DOMAIN file : file[i].key = k}, <)
            IN  [n \in DOMAIN member |-> file[member[n]]]
GroupOrder == InOrder(Keys, <)
OutName(k) == NameOf(outfix, IF Len(Group(k)) = 1 THEN 0 ELSE k)

Held(f) == disk[f.name].parts
Names(fs) == {fs[i].name : i \in DOMAIN fs}

(* A file written while the set reads from it is of no use to either. *)
Garbled == {[of |-> "?", done |-> <<>>]}
Put(n, k, parts) ==
  disk' = [m \in DOMAIN disk \cup {n} |->
             IF m # n THEN disk[m]
             ELSE [key |-> k, parts |-> IF n \in Names(file) THEN Garbled ELSE parts]]

(* add(name) for each name in turn, after drop(). *)
Opened(ns) ==
  [i \in DOMAIN ns |-> [id |-> opened + i, name |-> ns[i],
                        key |-> disk[ns[i]].key, order |-> <<>>]]

(***************************************************************************)
(* The cache: a block is found by the deque of files alone.                *)
(***************************************************************************)
BugDesc(k) == <<Group(k)[1].id>>
Desc(k) == LET g == Group(k) IN [i \in DOMAIN g |-> g[i].id]
Contents(k) == LET g == Group(k) IN [i \in DOMAIN g |-> Held(g[i])]
GetCache(k) == IF \E c \in cache : c.desc = Desc(k)
                 THEN CHOOSE c \in cache : c.desc = Desc(k)
                 ELSE [desc |-> Desc(k), seen |-> Contents(k)]
-----------------------------------------------------------------------------
(***************************************************************************)
(* Lists and sets the unwinding supports: sorts first, then operations on  *)
(* single traces or one gather operation; at most one group with a single  *)
(* file, since such groups share a name; for a gather operation one group  *)
(* only, which is more than one file where it is to be sorted, and is not  *)
(* what the last gather operation has left.                                *)
(***************************************************************************)
WellUsed ==
  /\ \A i, j \in DOMAIN func :
        i < j => func[i].kind # "gather" /\ (func[i].kind = "sort" \/ func[j].kind = "single")
  /\ Cardinality({k \in Keys : Len(Group(k)) = 1}) <= 1
  /\ (\E i \in DOMAIN func : func[i].kind = "gather") =>
       /\ Cardinality(Keys) <= 1
       /\ \/ Len(file) # 1
          \/ /\ file[1].name # Gtemp
             /\ file[1].order = <<>>
             /\ \A i \in DOMAIN func : func[i].kind # "sort"

ListInit ==
  /\ file = <<>> /\ func = <<>> /\ outfix \in OutNames \cup {""}
  /\ cache = {}
  /\ disk = [n \in {NameOf(f, 0) : f \in DOMAIN Key} |->
               [key |-> Key[n[1]], parts |-> {[of |-> n[1], done |-> <<>>]}]]
  /\ phase = "user" /\ fCurr = 1 /\ todo = <<>> /\ names = <<>> /\ saved = ""
  /\ opened = 0 /\ taken = {} /\ outputs = 0 /\ dying = FALSE
  /\ promised = [prefix |-> "", parts |-> {}] /\ given = <<>>

(* Set::add(pattern) of one of the caller's files. *)
AddFile(f) ==
  /\ phase = "user" /\ f \notin taken
  /\ file' = Append(file, [id |-> opened + 1, name |-> NameOf(f, 0),
                           key |-> Key[f], order |-> <<>>])
  /\ taken' = taken \cup {f} /\ opened' = opened + 1
  /\ UNCHANGED <<func, outfix, cache, disk, phase, fCurr, todo, names, saved,
                 outputs, dying, promised, given>>
  /\ Disciplined => WellUsed'

(* An operation is only noted.  Two gather operations in a row are left out:
   startGather then lists every gather twice. *)
Defer(op) ==
  /\ phase = "user" /\ Len(func) < MaxOps
  /\ op.kind = "gather" => ~IsKind(Len(func), "gather")
  /\ func' = Append(func, op)
  /\ UNCHANGED <<file, outfix, cache, disk, phase, fCurr, todo, names, saved, opened, callVars>>
  /\ Disciplined => WellUsed'

SortBy(by) == Defer(SortOp(by))
ToAngle(k) == Defer(GatherOp(k))
(* These differ in what they make of a trace, not in how they are unwound. *)
Taper == Defer(TraceOp)
AGC == Defer(TraceOp)
TemporalFilter == Defer(TraceOp)

(* What the caller may expect: each operation once, in order, on every part. *)
Promise == UNION {After(Held(file[i]),
                        file[i].order \o FlattenSeq([j \in DOMAIN func |-> func[j].does])) :
                    i \in DOMAIN file}

(* output(p): a last operation that does nothing makes sure of a file. *)
Unwind(p) ==
  /\ func' = Append(func, NoOp)
  /\ outfix' = p /\ phase' = "unwind" /\ fCurr' = 1
  /\ promised' = [prefix |-> p, parts |-> Promise]
  /\ UNCHANGED <<file, cache, disk, todo, names, saved, opened, taken>>

Output(p) ==
  /\ phase = "user" /\ file # <<>> /\ outputs < MaxOutputs
  /\ Unwind(p)
  /\ outputs' = outputs + 1
  /\ UNCHANGED <<dying, given>>

(* The destructor writes the output again under the last prefix. *)
Destroy ==
  /\ phase = "user"
  /\ dying' = TRUE
  /\ IF outfix # "" /\ file # <<>>
       THEN Unwind(outfix)
       ELSE /\ phase' = "gone"
            /\ UNCHANGED <<file, func, outfix, cache, disk, fCurr, todo, names, saved,
                           opened, taken, promised>>
  /\ UNCHANGED <<outputs, given>>

BugSubset ==
  /\ phase = "unwind" /\ Current("sort")
  /\ file' = [i \in DOMAIN file |->
                [file[i] EXCEPT !.order = func[PastRun("sort") - 1].does]]
  /\ cache' = cache \cup {GetCache(k) : k \in Keys}
  /\ UNCHANGED <<func, outfix, disk, phase, fCurr, todo, names, saved, opened, callVars>>

(* startSubset: all sorts that follow each other, on every group. *)
Subset ==
  /\ phase = "unwind" /\ Current("sort")
  /\ file' = [i \in DOMAIN file |->
                [file[i] EXCEPT !.order = func[PastRun("sort") - 1].does]]
  /\ fCurr' = PastRun("sort")
  /\ cache' = cache \cup {GetCache(k) : k \in Keys}
  /\ UNCHANGED <<func, outfix, disk, phase, todo, names, saved, opened, callVars>>

(* startSingle, called for the list, or by startGather for more than one file. *)
StartSingle ==
  /\ phase = "unwind"
  /\ \/ Current("single") /\ UNCHANGED <<outfix, saved>>
     \/ Current("gather") /\ Len(file) > 1 /\ saved' = outfix /\ outfix' = "temp"
  /\ phase' = "single" /\ todo' = GroupOrder /\ names' = <<>>
  /\ UNCHANGED <<file, func, cache, disk, fCurr, opened, callVars>>

WriteGroup ==
  /\ phase = "single" /\ todo # <<>>
  /\ LET k == Head(todo)  n == OutName(k)  g == Group(k) IN
       /\ Put(n, k, UNION {After(Held(g[i]), g[i].order \o
                                   (IF saved = "" THEN Singles[fCurr] ELSE <<>>)) :
                             i \in DOMAIN g})
       /\ names' = Append(names, n)
  /\ todo' = Tail(todo)
  /\ UNCHANGED <<file, func, outfix, cache, phase, fCurr, saved, opened, callVars>>

BugReopen ==
  /\ phase = "single" /\ todo = <<>> /\ saved # ""
  /\ saved' = ""
  /\ file' = Opened(names) /\ opened' = opened + Len(names)
  /\ phase' = "gather" /\ todo' = file'
  /\ UNCHANGED <<func, outfix, cache, disk, fCurr, names, callVars>>

(* The temporary files take the place of the files of the set. *)
Reopen ==
  /\ phase = "single" /\ todo = <<>> /\ saved # ""
  /\ outfix' = saved /\ saved' = ""
  /\ file' = Opened(names) /\ opened' = opened + Len(names)
  /\ phase' = "gather" /\ todo' = file'
  /\ UNCHANGED <<func, cache, disk, fCurr, names, callVars>>

(* startGather. *)
StartGather ==
  /\ phase = "unwind" /\ Current("gather") /\ Len(file) = 1
  /\ phase' = "gather" /\ todo' = file
  /\ UNCHANGED <<file, func, outfix, cache, disk, fCurr, names, saved, opened, callVars>>

GatherFile ==
  /\ phase = "gather" /\ todo # <<>>
  /\ Put(Gtemp, func[fCurr].key, After(Held(Head(todo)), InGather[fCurr]))
  /\ todo' = Tail(todo)
  /\ UNCHANGED <<file, func, outfix, cache, phase, fCurr, names, saved, opened, callVars>>

(* Whatever is left of the list is applied to gtemp.segy. *)
EndGather ==
  /\ phase = "gather" /\ todo = <<>>
  /\ file' = Opened(<<Gtemp>>) /\ opened' = opened + 1
  /\ fCurr' = PastRun("gather")
  /\ phase' = "unwind"
  /\ UNCHANGED <<func, outfix, cache, disk, todo, names, saved, callVars>>

(* startSingle has made the files, and the list is empty again. *)
Return ==
  /\ phase = "single" /\ todo = <<>> /\ saved = ""
  /\ func' = <<>> /\ fCurr' = 1
  /\ phase' = IF dying THEN "gone" ELSE "user"
  /\ given' = IF dying THEN given ELSE [n \in Range(names) |-> disk[n]]
  /\ UNCHANGED <<file, outfix, cache, disk, todo, names, saved, opened, taken,
                 outputs, dying, promised>>

Gone == phase = "gone" /\ UNCHANGED listVars

Call ==
  \/ \E f \in DOMAIN Key : AddFile(f)
  \/ \E by \in SortTypes : SortBy(by)
  \/ \E k \in GatherKeys : ToAngle(k)
  \/ Taper \/ AGC \/ TemporalFilter
  \/ \E p \in OutNames : Output(p)
  \/ Destroy
Work == Subset \/ StartSingle \/ WriteGroup \/ Reopen \/ StartGather \/ GatherFile
        \/ EndGather \/ Return
ListNext == Call \/ Work \/ Gone

ListSpec == ListInit /\ [][ListNext]_listVars /\ WF_listVars(Work)
-----------------------------------------------------------------------------
Idle == phase \in {"user", "gone"}
HeldBy(ns) == UNION {disk[n].parts : n \in ns}

(* Once output() or the destructor is through, the files it has written hold
   every part of the set, and each deferred operation has been applied to it
   once and in the order in which it was asked for, whatever intermediate files
   it went through. *)
Delivered == Idle => /\ HeldBy(Range(names)) = promised.parts
                     /\ \A n \in Range(names) : n[1] = promised.prefix

(* The names output() returns are those of its outputs: each group has one of
   its own, and no file is written twice by one call.  It does not hold for a
   set with two groups of a single file. *)
OwnOutputs == Idle => Cardinality(Range(names)) = Len(names)

(* A sort never works on headers that the cache has kept from files other than
   those the set has now. *)
FreshHeaders ==
  [][Subset => \A k \in Keys : GetCache(k).seen = Contents(k)]_listVars

(* The unwinding comes to an end: output() returns, the destructor too. *)
ListEnds == (phase = "unwind") ~> Idle

(* What output() has written under its prefix is what is found there when the
   set is gone. *)
OutputLasts == phase = "gone" => \A n \in DOMAIN given : disk[n] = given[n]
=============================================================================
