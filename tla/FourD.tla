------------------------------- MODULE FourD --------------------------------
(***************************************************************************)
(* The 4D binning utility of src/util: main of fourdbin.cc, getCoords and  *)
(* outputNonMono of 4dio.cc, calc4DBin of 4dcore.cc.  Of two files of the  *)
(* same area, it finds for each trace of the first the closest one of the  *)
(* second, and writes the pairs that are close enough to two new files,    *)
(* the one file's traces beside the other's.                               *)
(*                                                                         *)
(* The coordinates of a file are sorted and dealt to the processes.  A     *)
(* process compares its traces of the first file with the traces of the    *)
(* second, which it gets from the memory of the processes that may have a  *)
(* partner, one after the other.                                           *)
(*                                                                         *)
(* A trace has the x coordinates xs of its source and xr of its receiver,  *)
(* and a line (il and xl); the y coordinates are taken to be equal, so     *)
(* that distances are whole numbers.  The calls in which the processes     *)
(* meet are joint actions, together with the local work up to them.        *)
(*                                                                         *)
(* A definition Bug... is not part of the model.  It is the definition     *)
(* after it with a plausible mistake, which the properties are to notice.  *)
(***************************************************************************)
EXTENDS Decompose, Chunking, Orders, Sequences, FiniteSetsExt, Functions

CONSTANTS Pairs,       \* the two files: a sequence of traces for each
          DsrMax,      \* dsrmax
          Align,       \* ALIGN
          Max1,        \* getCoords: traces per call before the sort
          Max2,        \* getCoords: traces per call after the sort
          MaxOut,      \* outputNonMono: traces per call
          Far          \* the greatest value of fourd_t

Trace == [xs : Int, xr : Int, line : Int]

\* Every process has traces of both files.
ASSUME PairsAssumption ==
  \A p \in Pairs : \A f \in 1 .. 2 : /\ p[f] \in Seq(Trace)
                                     /\ Len(p[f]) >= NumRank
ASSUME ChunksAssumption == {Align, Max1, Max2, MaxOut} \subseteq Nat \ {0}
ASSUME DsrAssumption    == DsrMax \in Nat /\ Far \in Nat /\ DsrMax < Far

VARIABLES file,        \* the two files
          ixline,      \* opt.ixline
          turn,        \* the file that is read, or written
          pc,          \* the next step of each process
          pass,        \* its loop over chunks
          trlist,      \* the numbers of its traces of file turn
          crd,         \* crd[f][r]: its Coords of file f
          active,      \* the processes it has yet to get Coords from
          best,        \* min and minrs, for each of its traces of file 1
          match,       \* list1, list2 and lminrs
          out          \* the two new files: the traces by place

binVars == <<file, ixline, turn, pc, pass, trlist, crd, active, best, match, out>>
-----------------------------------------------------------------------------
All(step) == \A r \in Rank : pc[r] = step

Nt       == Len(file[turn])
Lnt(r)   == Share(Nt, r)
Most(n(_)) == CHOOSE m \in {n(r) : r \in Rank} : \A r \in Rank : n(r) <= m

\* Where a process goes that has made the calls of step up to p.
Goes(p, sz, step, then) == IF More(p, sz) THEN step ELSE then

\* A process enters the loop for its n(r) units, and counts the empty calls
\* that others make necessary for chunks of size max.
Enter(n(_), max, step, then) ==
  /\ pass' = [r \in Rank |-> Begin(n(r), max, Most(n))]
  /\ pc'   = [r \in Rank |-> Goes(pass'[r], n(r), step, then)]

\* The places, from 1, of the chunk a process with sz units has come to.
Units(r, sz, max) == pass[r].i + 1 .. pass[r].i + Chunk(pass[r], sz, max)

\* The chunks of all processes are done.
Onward(n(_), max, step, then) ==
  /\ pass' = [r \in Rank |-> Advance(pass[r], n(r), max)]
  /\ pc'   = [r \in Rank |-> Goes(pass'[r], n(r), step, then)]

BinInit == /\ file \in Pairs
           /\ ixline \in BOOLEAN
           /\ turn = 1
           /\ pc     = [r \in Rank |-> "open"]
           /\ pass   = [r \in Rank |-> [i |-> 0, rem |-> 0]]
           /\ trlist = [r \in Rank |-> <<>>]
           /\ crd    = [f \in 1 .. 2 |-> [r \in Rank |-> <<>>]]
           /\ active = [r \in Rank |-> <<>>]
           /\ best   = [r \in Rank |-> <<>>]
           /\ match  = [r \in Rank |-> <<>>]
           /\ out    = [f \in 1 .. 2 |-> {}]
-----------------------------------------------------------------------------
(***************************************************************************)
(* getCoords.                                                              *)
(***************************************************************************)

\* The file is opened, and the greatest lnt is found.
Open ==
  /\ All("open")
  /\ trlist' = [r \in Rank |-> <<>>]
  /\ Enter(Lnt, Max1, "keys", "sort")
  /\ UNCHANGED <<file, ixline, turn, crd, active, best, match, out>>

\* readParam of xSrc; the trace number is put beside it.
ReadKeys ==
  /\ All("keys")
  /\ trlist' = [r \in Rank |->
       trlist[r] \o [j \in 1 .. Chunk(pass[r], Lnt(r), Max1) |->
                       First(Nt, r) + pass[r].i + j - 1]]
  /\ Onward(Lnt, Max1, "keys", "sort")
  /\ UNCHANGED <<file, ixline, turn, crd, active, best, match, out>>

\* The comparison that getCoords gives to the sort.
Below(a, b) == LET xs(n) == file[turn][n + 1].xs
               IN  xs(a) < xs(b) \/ (xs(a) = xs(b) /\ a < b)

\* After the sort the second loop is entered, for chunks of another size but
\* with the number of empty calls of the first.
Sort ==
  /\ All("sort")
  /\ \E sorted \in {InOrder(UNION {Range(trlist[r]) : r \in Rank}, Below)} :
         trlist' = [r \in Rank |-> SubSeq(sorted, First(Nt, r) + 1, First(Nt, r) + Lnt(r))]
  /\ pass' = [r \in Rank |-> Begin(Lnt(r), Max1, Most(Lnt))]
  /\ pc'   = [r \in Rank |-> Goes(pass'[r], Lnt(r), "coords", "read")]
  /\ UNCHANGED <<file, ixline, turn, crd, active, best, match, out>>

\* A chunk of the list is read in ascending order; orig says where in the
\* chunk the element read j-th belongs.
BugPlaced(orig, j) == j
Placed(orig, j)    == orig[j]

Fetched(chunk) ==
  LET orig == InOrder(DOMAIN chunk, LAMBDA a, b : chunk[a] < chunk[b])
      read == [j \in DOMAIN chunk |-> file[turn][chunk[orig[j]] + 1]]
      from(k) == CHOOSE j \in DOMAIN chunk : Placed(orig, j) = k
  IN  [k \in DOMAIN chunk |->
         [tn |-> chunk[k], xs |-> read[from(k)].xs, xr |-> read[from(k)].xr,
          line |-> read[from(k)].line]]

ReadCoords ==
  /\ All("coords")
  /\ crd' = [crd EXCEPT ![turn] = [r \in Rank |->
       LET units == Units(r, Lnt(r), Max2)
       IN  @[r] \o Fetched([j \in 1 .. Cardinality(units) |-> trlist[r][pass[r].i + j]])]]
  /\ Onward(Lnt, Max2, "coords", "read")
  /\ UNCHANGED <<file, ixline, turn, trlist, active, best, match, out>>

\* The barrier at the end of getCoords.
EndRead ==
  /\ All("read")
  /\ turn' = 2
  /\ pc' = [r \in Rank |-> IF turn = 1 THEN "open" ELSE "gather"]
  /\ UNCHANGED <<file, ixline, pass, trlist, crd, active, best, match, out>>
-----------------------------------------------------------------------------
(***************************************************************************)
(* calc4DBin.  Indices begin at 0; the arrays of Coords are longer than sz *)
(* and their rest is filled with Far.                                      *)
(***************************************************************************)
X(c, i) == IF i + 1 \in DOMAIN c THEN c[i + 1].xs ELSE Far

Greatest(a, b) == IF a < b THEN b ELSE a

Distance(a, b) == IF a < b THEN b - a ELSE a - b

\* dsr: the boat may have gone the other way for the second file.
Dsr(a, b) == Least(Distance(a.xs, b.xs) + Distance(a.xr, b.xr),
                   Distance(a.xs, b.xr) + Distance(a.xr, b.xs))

Value(a, b) == IF ~ixline \/ a.line = b.line THEN Dsr(a, b) ELSE Far

\* initUpdate, with the first trace of the process's own part of file 2.
FirstGuess(c1, c2) ==
  [k \in DOMAIN c1 |-> [min |-> c2[1].tn, dsr |-> Value(c1[k], c2[1])]]

\* The processes whose traces of file 2 may be close enough to those of r.
BugMayMatch(c1, c2) ==                 \* the near end is tested, not the far
  /\ X(c2, 0) - DsrMax <= X(c1, Len(c1) - 1)
  /\ X(c2, 0) + DsrMax >= X(c1, 0)
MayMatch(c1, c2) ==
  /\ X(c2, 0) - DsrMax <= X(c1, Len(c1) - 1)
  /\ X(c2, Len(c2) - 1) + DsrMax >= X(c1, 0)

\* The gathers, the first guess and the opening of the windows.
Gather ==
  /\ All("gather")
  /\ best' = [r \in Rank |-> FirstGuess(crd[1][r], crd[2][r])]
  /\ active' = [r \in Rank |->
       InOrder({s \in Rank : MayMatch(crd[1][r], crd[2][s])}, <)]
  /\ pc' = [r \in Rank |-> IF active'[r] = <<>> THEN "free" ELSE "update"]
  /\ UNCHANGED <<file, ixline, turn, pass, trlist, crd, match, out>>

\* update: the parts of c1 and c2 that are compared.  The traces ascend, so
\* that a start counted up to the first trace in reach is the number of those
\* before it, and an end counted down to the last in reach is its index (which
\* is then taken to be that behind the last), or the one below the start.
CountUp(c, limit) == Cardinality({k \in DOMAIN c : c[k].xs < limit})
CountDown(c, from, limit) ==
  Greatest(from - 1, Cardinality({k \in DOMAIN c : c[k].xs <= limit}) - 1)

Window(c1, c2) ==
  LET rstart == CountUp(c2, X(c1, 0) - DsrMax)
      rend   == CountDown(c2, rstart, X(c1, Len(c1) - 1) + DsrMax)
      lstart == CountUp(c1, X(c2, rstart) - DsrMax)
      lend   == CountDown(c1, lstart, X(c2, rend - 1) + DsrMax)
  IN  [defined |-> rend >= 1 /\ lend >= 0,     \* no count goes below the arrays
       rows    |-> (lstart \div Align) * Align + 1 .. lend,
       cols    |-> rstart + 1 .. rend]

Closer(v, b) == v < b.dsr

\* Of the traces compared, the first of the closest replaces a farther one.
Compared(c1, c2, w, old) ==
  [k \in DOMAIN c1 |->
     LET v(j)    == Value(c1[k], c2[j])
         least   == Min({v(j) : j \in w.cols})
         closest == Min({j \in w.cols : v(j) = least})
     IN  IF k \in w.rows /\ w.cols # {} /\ Closer(least, old[k])
         THEN [min |-> c2[closest].tn, dsr |-> least] ELSE old[k]]

\* What r gets from the windows of s, which does nothing for it.  Nobody writes
\* to a window while it is open.
CoordsWin(s) == crd[2][s]

\* The next active process: a get from its windows, and update.  What is read
\* below an array is undefined, and nothing is said of r any more.
Update(r) ==
  /\ pc[r] = "update"
  /\ \E c1 \in {crd[1][r]}, c2 \in {CoordsWin(Head(active[r]))} :
       \E w \in {Window(c1, c2)} :
         IF w.defined
         THEN /\ best' = [best EXCEPT ![r] = Compared(c1, c2, w, @)]
              /\ pc' = [pc EXCEPT ![r] = IF Len(active[r]) = 1 THEN "free" ELSE @]
         ELSE /\ pc' = [pc EXCEPT ![r] = "undefined"]
              /\ UNCHANGED best
  /\ active' = [active EXCEPT ![r] = Tail(@)]
  /\ UNCHANGED <<file, ixline, turn, pass, trlist, crd, match, out>>

\* The windows are freed; the final list pass of main.
BugCloseEnough(b) == TRUE
CloseEnough(b) == b.dsr <= DsrMax

Matches(r) ==
  LET kept == InOrder({k \in DOMAIN best[r] : CloseEnough(best[r][k])}, <)
  IN  [n \in DOMAIN kept |-> [tn  |-> <<crd[1][r][kept[n]].tn, best[r][kept[n]].min>>,
                              dsr |-> best[r][kept[n]].dsr]]

Free ==
  /\ All("free")
  /\ match' = [r \in Rank |-> Matches(r)]
  /\ turn'    = 1
  /\ pc'    = [r \in Rank |-> "output"]
  /\ UNCHANGED <<file, ixline, pass, trlist, crd, active, best, out>>
-----------------------------------------------------------------------------
(***************************************************************************)
(* outputNonMono, for the first file and for the second.                   *)
(***************************************************************************)
Size(r) == Len(match[r])

\* The sizes are gathered and the size of the output is set.
Output ==
  /\ All("output")
  /\ Enter(Size, MaxOut, "write", "written")
  /\ UNCHANGED <<file, ixline, turn, trlist, crd, active, best, match, out>>

Offset(r) == SumBelow([q \in Rank |-> Size(q)], r)

\* readTraceNonMonotonic, and writeTrace with the dsr in the header.
BugWhere(r, k) == Offset(r) + ((k - 1) % MaxOut)       \* i is left out
Where(r, k)    == Offset(r) + k - 1

Write ==
  /\ All("write")
  /\ out' = [out EXCEPT ![turn] = @ \cup UNION {
       {[place |-> Where(r, k), tn |-> match[r][k].tn[turn], dsr |-> match[r][k].dsr]
        : k \in Units(r, Size(r), MaxOut)} : r \in Rank}]
  /\ Onward(Size, MaxOut, "write", "written")
  /\ UNCHANGED <<file, ixline, turn, trlist, crd, active, best, match>>

\* The barrier at the end of outputNonMono.
EndOutput ==
  /\ All("written")
  /\ turn' = 2
  /\ pc' = [r \in Rank |-> IF turn = 1 THEN "output" ELSE "done"]
  /\ UNCHANGED <<file, ixline, pass, trlist, crd, active, best, match, out>>

Ended == All("done") \/ \E r \in Rank : pc[r] = "undefined"

Over == Ended /\ UNCHANGED binVars

BinNext == \/ Open \/ ReadKeys \/ Sort \/ ReadCoords \/ EndRead
           \/ Gather \/ (\E r \in Rank : Update(r)) \/ Free
           \/ Output \/ Write \/ EndOutput \/ Over

\* The processes run, and calls that all of them are in complete.
Fairness == /\ WF_binVars(Open) /\ WF_binVars(ReadKeys) /\ WF_binVars(Sort)
            /\ WF_binVars(ReadCoords) /\ WF_binVars(EndRead) /\ WF_binVars(Gather)
            /\ \A r \in Rank : WF_binVars(Update(r))
            /\ WF_binVars(Free) /\ WF_binVars(Output) /\ WF_binVars(Write) /\ WF_binVars(EndOutput)

BinSpec == BinInit /\ [][BinNext]_binVars /\ Fairness
-----------------------------------------------------------------------------
(***************************************************************************)
(* Safety: the two new files belong together.  They are of one length and  *)
(* without gaps, no trace of the first file is in them twice, and beside   *)
(* it stands a trace of the second at the very distance that both headers  *)
(* give, which is within dsrmax.  Every step has a part in it: the sort,   *)
(* the reads in chunks, the gets, the offsets of the output.               *)
(***************************************************************************)
PairsWritten ==
  All("done") =>
    LET n == SumBelow([q \in Rank |-> Size(q)], NumRank)
        beside(w, v) == /\ w.dsr = v.dsr /\ w.dsr <= DsrMax
                        /\ w.dsr = Value(file[1][w.tn + 1], file[2][v.tn + 1])
    IN  /\ \A f \in 1 .. 2 : /\ {w.place : w \in out[f]} = 0 .. n - 1
                            /\ Cardinality(out[f]) = n
        /\ Cardinality({w.tn : w \in out[1]}) = n
        /\ \A w \in out[1], v \in out[2] : w.place = v.place => beside(w, v)

(***************************************************************************)
(* Safety: what the comparison leaves out is at the ends only.  If two     *)
(* neighbours of a process's part of the first file and two neighbours of  *)
(* a part of the second are all within dsrmax along x, the pair of the     *)
(* lower ones has been looked at: the trace is matched that closely or     *)
(* better, whichever process holds the other.                              *)
(***************************************************************************)
InnerClosest ==
  \A r \in Rank : pc[r] = "free" =>
    \A s \in Rank : LET c1 == crd[1][r]
                        c2 == crd[2][s]
                    IN  \A k \in 1 .. Len(c1) - 1, j \in 1 .. Len(c2) - 1 :
                          (\A a \in {k, k + 1}, b \in {j, j + 1} :
                             Distance(c1[a].xs, c2[b].xs) <= DsrMax)
                          => best[r][k].dsr <= Value(c1[k], c2[j])

\* Liveness: the utility ends, in spite of calls that all processes have to
\* make together, if no process reads below its arrays.
BinEnds == <>Ended

(***************************************************************************)
(* What calc4DBin is documented to do (4dcore.hh:24-25): "For each trace,  *)
(* insert into min the trace number from coords2 (distributed) that        *)
(* minimise the difference between the respective src/rcv coordinates."    *)
(* A trace that is near enough is matched with one that is nearest.        *)
(***************************************************************************)
ClosestFound ==
  \A r \in Rank : pc[r] = "free" =>
    \A k \in DOMAIN crd[1][r], s \in Rank : \A j \in DOMAIN crd[2][s] :
      LET v == Value(crd[1][r][k], crd[2][s][j])
      IN  v <= DsrMax => best[r][k].dsr <= v

(***************************************************************************)
(* What getCoords says of its reads (4dio.cc:49-52): "Communication is     *)
(* done to ensure we balance out the correct number of redundant calls",   *)
(* since otherwise "the code will deadlock".                               *)
(***************************************************************************)
ReadsBalanced ==
  ~ \E r, s \in Rank : \/ pc[r] = "keys" /\ pc[s] = "sort"
                       \/ pc[r] = "coords" /\ pc[s] = "read"
=============================================================================
