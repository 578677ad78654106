------------------------------ MODULE SetSort -------------------------------
(***************************************************************************)
(* The sorted output of a set of files: Set::add, Set::sort, calcFuncS and *)
(* startSingle of src/flow.cc, the header numbers of src/cache.cc, the     *)
(* list form of File::sort in src/sort.cc and the trace count WriteSEGY    *)
(* keeps.                                                                  *)
(*                                                                         *)
(* The files have the same number of samples and increment, so they go to  *)
(* one output.  Every process has a part of each file (ilst), and a place  *)
(* in the output for each trace of it (olst).  The sort of the headers     *)
(* goes in the rounds of sortP, each of them one step here (NearestSort    *)
(* has the messages of a round).  The second sort, of distinct pairs, is   *)
(* taken at its promise (SortSpec, which NearestSort implements) where the *)
(* processes exchange anything in it.                                      *)
(*                                                                         *)
(* The calls in which the processes meet (allreduce, exscan, a round of    *)
(* the sort, the collective reads and writes) are joint actions.  A        *)
(* definition Bug... is not part of the model.  It is the definition after *)
(* it with a plausible mistake, which the properties are to notice.        *)
(***************************************************************************)
EXTENDS Decompose, Chunking, Sequences, FiniteSets, FiniteSetsExt, Functions, Orders

CONSTANTS Sets,        \* the sets of files: for each, the sequence of trace
                       \* counts and the key of every trace
          MaxBlock     \* max of startSingle: traces that fit in memory

ASSUME MaxBlockAssumption == MaxBlock \in Nat \ {0}

\* A trace is a file and a number in it.
TracesOf(nts) == UNION {{f} \X (0 .. nts[f] - 1) : f \in DOMAIN nts}

\* The order of the keys has no ties.
ASSUME SetsAssumption ==
  \A s \in Sets :
    /\ s.nts \in Seq(Nat) /\ s.nts # <<>>
    /\ s.key \in [TracesOf(s.nts) -> Int]
    /\ \A g, h \in TracesOf(s.nts) : s.key[g] = s.key[h] => g = h

VARIABLES set,         \* the set of files that is worked on
          sorting,     \* does the function list begin with a sort?
          added,       \* the files added so far
          pc,          \* the next step of each process
          olst,        \* olst[r][f]: output places of the traces of f on r
          keeper,      \* the process that has the header of a trace
          trlist,      \* trlist[r]: what File::sort returned on r
          loop,        \* loop[r]: file and chunk of startSingle r is at
          block,       \* the traces r has in memory, and where they go
          out,         \* the output file: places and the traces in them
          nt,          \* nt[r]: the trace count r keeps for the output
          count        \* the trace count in the output, -1 before it is known

vars == <<set, sorting, added, pc, olst, keeper, trlist, loop, block, out, nt, count>>

Files    == 1 .. Len(set.nts)
Nt(f)    == set.nts[f]
Traces   == TracesOf(set.nts)
Total    == SumBelow(set.nts, Len(set.nts) + 1)

\* The traces of file f that r works on, and the position of a file's first
\* header among the headers on r.
Lnt(f, r)   == Share(Nt(f), r)
Ilst(f, r)  == [i \in 1 .. Lnt(f, r) |-> First(Nt(f), r) + i - 1]
Loff(f, r)  == SumBelow([g \in Files |-> Lnt(g, r)], f)
AllLnt(r)   == Loff(Len(set.nts) + 1, r)
Offset(r)   == SumBelow([q \in Rank |-> AllLnt(q)], r)

\* The process that reads header h, and the global trace number cachePrm
\* gives to it there.
Reader(h) == CHOOSE r \in Rank : h[2] \in Range(Ilst(h[1], r))

BugGtn(h) == Loff(h[1], Reader(h)) + h[2]   \* the offset is left out
Gtn(h)    == Offset(Reader(h)) + Loff(h[1], Reader(h)) + h[2]

(***************************************************************************)
(* File::sort.  A process keeps its headers in the order of their keys.    *)
(* In a round of sortP it lends its lowest RegionSz headers to the process *)
(* below it, and the highest of what it then has to the process above it.  *)
(***************************************************************************)
RegionSz == Min({AllLnt(r) : r \in Rank}) \div 4

NumLower(k, h)  == Cardinality({g \in Traces : k[g] = k[h] /\ set.key[g] < set.key[h]})
NumHigher(k, h) == Cardinality({g \in Traces : k[g] = k[h] /\ set.key[g] > set.key[h]})

LentLeft(k)  == [h \in Traces |->
                   IF k[h] # 0 /\ NumLower(k, h) < RegionSz THEN k[h] - 1 ELSE k[h]]
LentRight(k) == [h \in Traces |->
                   IF k[h] # LastRank /\ NumHigher(k, h) < RegionSz THEN k[h] + 1 ELSE k[h]]
Exchanged(k) == LentRight(LentLeft(k))

\* The change test of a round: it compares the gtn at each position.
Moved(k1, k2) ==
  /\ k1 # k2
  /\ \E g, h \in Traces : k1[g] = k2[h] /\ NumLower(k1, g) = NumLower(k2, h) /\ Gtn(g) # Gtn(h)

\* The place of a header among the sorted headers.
Position(h) == Offset(keeper[h]) + NumLower(keeper, h)

(***************************************************************************)
(* The second sort, which brings the places into the order of the gtns.    *)
(* When RegionSz is 0 nothing leaves its process in it either.             *)
(***************************************************************************)
Bound(h) == IF RegionSz = 0 THEN keeper[h] ELSE 0
Pairs    == {[on |-> Bound(h), gtn |-> Gtn(h), place |-> Position(h)] : h \in Traces}

Below(p, q) == \/ p.on < q.on
               \/ p.on = q.on /\ p.gtn < q.gtn
               \/ p.on = q.on /\ p.gtn = q.gtn /\ p.place < q.place

PlaceList == LET sorted == InOrder(Pairs, Below)
             IN  [n \in 1 .. Total |-> sorted[n].place]

\* getSortIndex: the indices of s in the order of its values.
BugSortIndex(s) == [n \in 1 .. Len(s) |-> n]
SortIndex(s) ==
  [n \in 1 .. Len(s) |-> CHOOSE i \in 1 .. Len(s) :
                           Cardinality({j \in 1 .. Len(s) : s[j] < s[i]}) = n - 1]
-----------------------------------------------------------------------------
Move(from, to) == /\ \A r \in Rank : pc[r] = from
                  /\ pc' = [r \in Rank |-> to]

Init == /\ set \in Sets
        /\ sorting \in BOOLEAN
        /\ added = 0
        /\ pc = [r \in Rank |-> "add"]
        /\ olst = [r \in Rank |-> <<>>]
        /\ keeper = [h \in Traces |-> Reader(h)]
        /\ trlist = [r \in Rank |-> <<>>]
        /\ loop = [r \in Rank |-> [file |-> 1, i |-> 0, rem |-> 0]]
        /\ block = [r \in Rank |-> <<>>]
        /\ out = {}
        /\ nt = [r \in Rank |-> 0]
        /\ count = -1

\* Set::add of the next file: its traces go behind those of the files
\* before it (offmap).
Add ==
  LET f   == added + 1
      off == SumBelow(set.nts, f)
  IN  /\ f \in Files
      /\ Move("add", IF f < Len(set.nts) THEN "add"
                     ELSE IF sorting THEN "sort" ELSE "enter")
      /\ added' = f
      /\ olst' = [r \in Rank |->
                    Append(olst[r], [i \in 1 .. Lnt(f, r) |-> off + First(Nt(f), r) + i - 1])]
      /\ UNCHANGED <<set, sorting, keeper, trlist, loop, block, out, nt, count>>

\* calcFuncS up to the operation call: cachePrm and the lambda of Set::sort,
\* which refuses when a process has fewer than three headers.
Refused == \E r \in Rank : AllLnt(r) < 3

Refuse == /\ Refused
          /\ Move("sort", "copy")
          /\ UNCHANGED <<set, sorting, added, olst, keeper, trlist, loop, block, out, nt, count>>

\* A round of sortP; the rounds end when no process sees a change.  (A single
\* process goes through none, which is a round without change.)
Round == /\ ~Refused
         /\ keeper' = Exchanged(keeper)
         /\ Move("sort", IF Moved(keeper, keeper') THEN "sort" ELSE "order")
         /\ UNCHANGED <<set, sorting, added, olst, trlist, loop, block, out, nt, count>>

\* The second sort: File::sort returns to each process the part of the list
\* that is as long as its headers.
FileOrder ==
  LET places == PlaceList
  IN  /\ Move("order", "copy")
      /\ trlist' = [r \in Rank |-> SubSeq(places, Offset(r) + 1, Offset(r) + AllLnt(r))]
      /\ UNCHANGED <<set, sorting, added, olst, keeper, loop, block, out, nt, count>>

\* The rest of calcFuncS: the list is dealt to the files in turn.  A process
\* that copies from an empty list dies at the null pointer it reads from.
BugCopy(r) ==                          \* every file gets the start of it
  /\ pc[r] = "copy"
  /\ pc' = [pc EXCEPT ![r] = "enter"]
  /\ olst' = [olst EXCEPT ![r] = [f \in Files |-> SubSeq(trlist[r], 1, Lnt(f, r))]]
  /\ UNCHANGED <<set, sorting, added, keeper, trlist, loop, block, out, nt, count>>

Copy(r) ==
  /\ pc[r] = "copy"
  /\ IF Len(trlist[r]) < AllLnt(r)
     THEN /\ pc' = [pc EXCEPT ![r] = "crashed"]
          /\ UNCHANGED olst
     ELSE /\ pc' = [pc EXCEPT ![r] = "enter"]
          /\ olst' = [olst EXCEPT ![r] =
               [f \in Files |-> SubSeq(trlist[r], Loff(f, r) + 1, Loff(f, r) + Lnt(f, r))]]
  /\ UNCHANGED <<set, sorting, added, keeper, trlist, loop, block, out, nt, count>>

LocalSize(r) == Lnt(loop[r].file, r)

\* Where startSingle goes with its loops in the state l: to the next chunk or
\* extra call, to the next file, or behind the last.
Proceed(r, l) ==
  IF More(l, Lnt(l.file, r)) THEN [pc |-> "read", loop |-> l]
  ELSE IF l.file < Len(set.nts)
       THEN [pc |-> "enter", loop |-> [file |-> l.file + 1, i |-> 0, rem |-> 0]]
       ELSE [pc |-> "close", loop |-> l]

\* The loops at the start of file f.
Open(r, f, most) == [file |-> f, i |-> 0, rem |-> RemCall(Lnt(f, r), MaxBlock, most)]

\* startSingle, for each file: the maximum of the local sizes, and from it
\* the number of extra calls.
Enter ==
  LET most     == Max({LocalSize(r) : r \in Rank})
      After(r) == Proceed(r, Open(r, loop[r].file, most))
  IN  /\ \A r \in Rank : pc[r] = "enter"
      /\ loop' = [r \in Rank |-> After(r).loop]
      /\ pc'   = [r \in Rank |-> After(r).pc]
      /\ UNCHANGED <<set, sorting, added, olst, keeper, trlist, block, out, nt, count>>

\* The read of a chunk (empty in the extra calls), which is put in the order
\* of its output places.
Fetched(r) ==
  LET f      == loop[r].file
      i      == loop[r].i
      n      == Chunk(loop[r], LocalSize(r), MaxBlock)
      places == SubSeq(olst[r][f], i + 1, i + n)
      index  == SortIndex(places)
  IN  [k \in 1 .. n |-> [place |-> places[index[k]],
                         trace |-> <<f, Ilst(f, r)[i + index[k]]>>]]

Read == /\ Move("read", "write")
        /\ block' = [r \in Rank |-> Fetched(r)]
        /\ UNCHANGED <<set, sorting, added, olst, keeper, trlist, loop, out, nt, count>>

\* The trace count of WriteSEGY after a write: behind its last trace.
BugCounted(n, b) == IF b = <<>> THEN n ELSE b[Len(b)].place + 1
Counted(n, b)    == IF b = <<>> THEN n ELSE Max({n, b[Len(b)].place + 1})

\* The write of the chunk, and the step to the next chunk, extra call or
\* file.
Write ==
  LET After(r) == Proceed(r, Advance(loop[r], LocalSize(r), MaxBlock))
  IN  /\ \A r \in Rank : pc[r] = "write"
      /\ out'  = out \cup UNION {{<<w.place, w.trace>> : w \in Range(block[r])} : r \in Rank}
      /\ nt'   = [r \in Rank |-> Counted(nt[r], block[r])]
      /\ loop' = [r \in Rank |-> After(r).loop]
      /\ pc'   = [r \in Rank |-> After(r).pc]
      /\ UNCHANGED <<set, sorting, added, olst, keeper, trlist, block, count>>

\* The destructor of WriteSEGY: calcNt, and the header; neither when there is
\* an error in the log, as a refused sort leaves one.
Close == /\ Move("close", "done")
         /\ count' = IF sorting /\ Refused THEN count ELSE Max({nt[r] : r \in Rank})
         /\ UNCHANGED <<set, sorting, added, olst, keeper, trlist, loop, block, out, nt>>

Finished == /\ \A r \in Rank : pc[r] = "done"
            /\ UNCHANGED vars

Next == \/ Add \/ Refuse \/ Round \/ FileOrder \/ Enter \/ Read \/ Write \/ Close
        \/ \E r \in Rank : Copy(r)
        \/ Finished

\* The processes are running programs, and collective calls that all of
\* them are in complete.
Fairness == WF_vars(Next)

Spec == Init /\ [][Next]_vars /\ Fairness
-----------------------------------------------------------------------------
TypeOK ==
  /\ set \in Sets
  /\ added \in 0 .. Len(set.nts)
  /\ pc \in [Rank -> {"add", "sort", "order", "copy", "enter", "read", "write", "close",
                    "done", "crashed"}]
  /\ \A r \in Rank : /\ loop[r] \in [file : Files, i : Nat, rem : Nat]
                     /\ \A f \in DOMAIN olst[r] : olst[r][f] \in Seq(Nat)
  /\ keeper \in [Traces -> Rank]
  /\ out \subseteq Nat \X Traces
  /\ nt \in [Rank -> Nat]

\* What belongs at a place of the output: the files one after the other, or
\* the traces in the order of their keys.
PlaceOf(h) == Cardinality({g \in Traces : set.key[g] < set.key[h]})
Concatenated(h) == SumBelow(set.nts, h[1]) + h[2]

(***************************************************************************)
(* Safety: the finished output holds every trace of the set exactly once,  *)
(* at the place its key gives it, or in the order of the files when        *)
(* nothing was sorted.                                                     *)
(***************************************************************************)
OutputInOrder ==
  (\A r \in Rank : pc[r] = "done") =>
    out = {<<IF sorting THEN PlaceOf(h) ELSE Concatenated(h), h>> : h \in Traces}

(***************************************************************************)
(* Safety: while the output is written, no place gets two traces and no    *)
(* trace two places, whoever writes them.                                  *)
(***************************************************************************)
NoOverwrite == \A v, w \in out : v # w => v[1] # w[1] /\ v[2] # w[2]

(***************************************************************************)
(* Safety: a write names its places in ascending order, which the file     *)
(* view of an MPI write requires and the trace count relies on.            *)
(***************************************************************************)
WritesAscend ==
  \A r \in Rank : pc[r] = "write" =>
    \A j, k \in 1 .. Len(block[r]) : j < k => block[r][j].place < block[r][k].place

(***************************************************************************)
(* Safety: the trace count written to the output is the number of traces   *)
(* of the set, although each process only sees its own last write.         *)
(***************************************************************************)
CountIsTotal == count # -1 => count = Total

\* Liveness: the output is finished; no process dies on the way, or waits in
\* a read or a write for one that has no chunk left.
Terminates == <>(\A r \in Rank : pc[r] = "done")
=============================================================================
