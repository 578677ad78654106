------------------------------ MODULE Gathers -------------------------------
(***************************************************************************)
(* The gathers of a file: getGathers of src/gather.cc finds them, and      *)
(* startGather of src/flow.cc deals them to the processes and runs a       *)
(* gather operation (Set::toAngle, with its RadonState) on each.           *)
(*                                                                         *)
(* A gather is a run of traces with the same inline and crossline, which   *)
(* may begin on one process and end on another.  The processes put the     *)
(* gathers they find into a global array and get those they are to work    *)
(* on out of it, while others may still put theirs.                        *)
(*                                                                         *)
(* The calls in which the processes meet are joint actions, together with  *)
(* the local work up to them.  A definition Bug... is not part of the      *)
(* model.  It is the definition after it with a plausible mistake, which   *)
(* the properties are to notice.                                           *)
(***************************************************************************)
EXTENDS Uniray, Sequences, FiniteSets

CONSTANTS Lines,       \* the files: for each, the gather of every trace
          OGSz         \* the number of traces the operation makes of a gather

ASSUME OGSzAssumption == OGSz \in Nat

\* decompose leaves no process without a trace, and a gather is one run.
ASSUME LinesAssumption ==
  \A s \in Lines : /\ s \in Seq(Nat)
                   /\ Len(s) >= NumRank
                   /\ \A i, j \in 1 .. Len(s) : i < j => s[i] <= s[j]

VARIABLES line,        \* the file
          pc,          \* the next step of each process
          lline,       \* the gathers that begin on each process
          puts,        \* how many of them it has put
          vec,         \* the global array
          il,          \* il[r]: the inlines and crosslines of RadonState
          turn,        \* the calls of the loop of startGather r has made
          gval,        \* gval[r]: the gather r is at
          iOffset,     \* the traces read by all processes so far
          wOffset,     \* the traces written so far
          block,       \* the traces r has read for its gather
          out          \* the output: places and the gather written there

vars == <<line, pc, lline, puts, vec, il, turn, gval, iOffset, wOffset, block, out>>

\* The gathers along a sequence of traces.
Starts(s) == {k \in 1 .. Len(s) : k = 1 \/ s[k] # s[k - 1]}

Runs(s) ==
  LET start(j) == CHOOSE k \in Starts(s) : Cardinality({l \in Starts(s) : l <= k}) = j
      end(j)   == IF j = Cardinality(Starts(s)) THEN Len(s) ELSE start(j + 1) - 1
  IN  [j \in 1 .. Cardinality(Starts(s)) |-> [n |-> end(j) - start(j) + 1, id |-> s[start(j)]]]

Local(r) == Runs(SubSeq(line, First(Len(line), r) + 1, First(Len(line), r) + Share(Len(line), r)))
Front(r) == Local(r)[1]
Back(r)  == Local(r)[Len(Local(r))]

\* 1 if the first gather of r began below it.
BugStart(r) == 0
Start(r) == IF r > 0 /\ Back(r - 1).id = Front(r).id THEN 1 ELSE 0

\* The processes that r's last gather goes on to.
BugSpill(r) == {i \in {r + 1} \cap Rank : Front(i).id = Back(r).id}
Spill(r) == {i \in r + 1 .. LastRank : \A j \in r + 1 .. i : Front(j).id = Back(r).id}

\* The gathers that begin on r, with all their traces.
Found(r) ==
  LET runs == Local(r)
      all  == IF Start(r) < Len(runs)
              THEN [runs EXCEPT ![Len(runs)].n = @ + SumBelow([i \in Spill(r) |-> Front(i).n], NumRank)]
              ELSE runs
  IN  SubSeq(all, Start(r) + 1, Len(runs))

\* gather.size(), and comm->offset of the gathers that begin below r.
Size      == SumBelow([r \in Rank |-> Len(lline[r])], NumRank)
Offset(r) == SumBelow([q \in Rank |-> Len(lline[q])], r)

\* startGather: the numbers of the gathers r works on, and the calls it adds.
NumGather(r) == Share(Size, r)
GNum(r, i)   == i * NumRank + r
BugExtra(r)  == 0
Extra(r)     == Max({NumGather(q) : q \in Rank}) - NumGather(r)
-----------------------------------------------------------------------------
Init == /\ line \in Lines
        /\ pc    = [r \in Rank |-> "exchange"]
        /\ lline = [r \in Rank |-> <<>>]
        /\ puts  = [r \in Rank |-> 0]
        /\ vec   = [r \in Rank |-> <<>>]
        /\ il    = [r \in Rank |-> <<>>]
        /\ turn  = [r \in Rank |-> 0]
        /\ gval  = [r \in Rank |-> Empty]
        /\ iOffset = 0
        /\ wOffset = 0
        /\ block = [r \in Rank |-> {}]
        /\ out   = {}

\* getGathers up to the loop: the scan of the local traces, the exchange of
\* its ends, and the new global array.
Exchange ==
  /\ \A r \in Rank : pc[r] = "exchange"
  /\ lline' = [r \in Rank |-> Found(r)]
  /\ vec'   = NewUniray(Size')
  /\ pc'    = [r \in Rank |-> IF lline'[r] = <<>> THEN "open" ELSE "set"]
  /\ UNCHANGED <<line, puts, il, turn, gval, iOffset, wOffset, block, out>>

\* One turn of the loop of getGathers.
Set(r) ==
  /\ pc[r] = "set"
  /\ vec'  = Put(vec, Size, puts[r] + Offset(r), lline[r][puts[r] + 1])
  /\ puts' = [puts EXCEPT ![r] = @ + 1]
  /\ pc'   = [pc EXCEPT ![r] = IF puts[r] + 1 = Len(lline[r]) THEN "open" ELSE "set"]
  /\ UNCHANGED <<line, lline, il, turn, gval, iOffset, wOffset, block, out>>

\* Where r goes once it has got k elements for its state.
AfterState(r, k) == IF k < NumGather(r) THEN "state" ELSE "model"

\* The file is opened without a meeting of the processes.
BugOpen ==
  \E r \in Rank :
    /\ pc[r] = "open"
    /\ pc' = [pc EXCEPT ![r] = AfterState(r, 0)]
    /\ UNCHANGED <<line, lline, puts, vec, il, turn, gval, iOffset, wOffset, block, out>>

\* makeState opens the model file and reads its header.  That is collective,
\* and it is what separates the puts above from the gets below.
Open ==
  /\ \A r \in Rank : pc[r] = "open"
  /\ pc' = [r \in Rank |-> AfterState(r, 0)]
  /\ UNCHANGED <<line, lline, puts, vec, il, turn, gval, iOffset, wOffset, block, out>>

\* A get for the state; readModel and makeState get the same elements.
State(r) ==
  /\ pc[r] = "state"
  /\ il' = [il EXCEPT ![r] = Append(@, Get(vec, Size, GNum(r, Len(@))))]
  /\ pc' = [pc EXCEPT ![r] = AfterState(r, Len(il'[r]))]
  /\ UNCHANGED <<line, lline, puts, vec, turn, gval, iOffset, wOffset, block, out>>

\* Where r goes after t turns of the loop of startGather: to a gather of its
\* own, to a call without one, or out of the loop.
AfterTurn(r, t) == IF t < NumGather(r) THEN "get"
                   ELSE IF t < NumGather(r) + Extra(r) THEN "read" ELSE "done"

\* The collective read of the model's traces.
Model ==
  /\ \A r \in Rank : pc[r] = "model"
  /\ pc' = [r \in Rank |-> AfterTurn(r, 0)]
  /\ UNCHANGED <<line, lline, puts, vec, il, turn, gval, iOffset, wOffset, block, out>>

NextGather(r) ==
  /\ pc[r] = "get"
  /\ gval' = [gval EXCEPT ![r] = Get(vec, Size, GNum(r, turn[r]))]
  /\ pc'   = [pc EXCEPT ![r] = "read"]
  /\ UNCHANGED <<line, lline, puts, vec, il, turn, iOffset, wOffset, block, out>>

\* The sizes of the blocks read and written by r in this turn.
Busy(r)  == turn[r] < NumGather(r)
IGSz(r)  == IF Busy(r) THEN gval[r].n ELSE 0
OutSz(r) == IF Busy(r) THEN OGSz ELSE 0

BugFirstRead(r) == iOffset                       \* comm->offset is left out
FirstRead(r)  == iOffset + SumBelow([q \in Rank |-> IGSz(q)], r)
FirstWrite(r) == wOffset + SumBelow([q \in Rank |-> OutSz(q)], r)

\* comm->offset, readTrace and comm->sum.
Read ==
  /\ \A r \in Rank : pc[r] = "read"
  /\ block'   = [r \in Rank |-> FirstRead(r) .. FirstRead(r) + IGSz(r) - 1]
  /\ iOffset' = iOffset + SumBelow([q \in Rank |-> IGSz(q)], NumRank)
  /\ pc'      = [r \in Rank |-> "write"]
  /\ UNCHANGED <<line, lline, puts, vec, il, turn, gval, wOffset, out>>

\* The operation, comm->offset, writeTrace and comm->sum.  The operation
\* gives its traces the inline and crossline at gNum of its state.
BugStateOf(r) == gval[0].id                      \* that of the first process
StateOf(r) == il[r][turn[r] + 1].id

Write ==
  /\ \A r \in Rank : pc[r] = "write"
  /\ out' = out \cup UNION {{<<FirstWrite(r) + j, StateOf(r)>> : j \in 0 .. OutSz(r) - 1}
                            : r \in Rank}
  /\ wOffset' = wOffset + SumBelow([q \in Rank |-> OutSz(q)], NumRank)
  /\ turn'    = [r \in Rank |-> turn[r] + 1]
  /\ pc'      = [r \in Rank |-> AfterTurn(r, turn[r] + 1)]
  /\ UNCHANGED <<line, lline, puts, vec, il, gval, iOffset, block>>

Finished == /\ \A r \in Rank : pc[r] = "done"
            /\ UNCHANGED vars

Next == \/ Exchange \/ Open \/ Model \/ Read \/ Write
        \/ \E r \in Rank : Set(r) \/ State(r) \/ NextGather(r)
        \/ Finished

\* The processes run, and calls that all of them are in complete.
Fairness == /\ WF_vars(Exchange) /\ WF_vars(Open) /\ WF_vars(Model)
            /\ WF_vars(Read) /\ WF_vars(Write)
            /\ \A r \in Rank : WF_vars(Set(r) \/ State(r) \/ NextGather(r))

Spec == Init /\ [][Next]_vars /\ Fairness
-----------------------------------------------------------------------------
Gather == [n : Nat, id : Nat]

TypeOK ==
  /\ line \in Lines
  /\ pc \in [Rank -> {"exchange", "set", "open", "state", "model", "get", "read", "write", "done"}]
  /\ \A r \in Rank : /\ lline[r] \in Seq(Gather)
                     /\ puts[r] \in 0 .. Len(lline[r])
                     /\ vec[r] \in Seq(Gather)
                     /\ il[r] \in Seq(Gather)
                     /\ turn[r] \in 0 .. Len(line)
                     /\ gval[r] \in Gather
                     /\ block[r] \subseteq 0 .. Len(line) - 1
  /\ iOffset \in 0 .. Len(line)
  /\ wOffset \in 0 .. OGSz * Len(line)
  /\ out \subseteq Nat \X Nat

\* The gathers of the file, as one process that sees all of it finds them.
AllGathers == Runs(line)

\* The traces of gather number g.
Members(g) == {k \in 0 .. Len(line) - 1 : line[k + 1] = AllGathers[g + 1].id}

(***************************************************************************)
(* Safety: once no process is about to put a gather, the global array is   *)
(* the list of the gathers of the file, each counted once and in full,     *)
(* however many processes it is spread over.                               *)
(***************************************************************************)
ArrayComplete ==
  (\A r \in Rank : pc[r] \notin {"exchange", "set"}) =>
    /\ Size = Len(AllGathers)
    /\ \A g \in 0 .. Size - 1 : Get(vec, Size, g) = AllGathers[g + 1]

(***************************************************************************)
(* Safety: a process never gets an element of the array that has not been  *)
(* put.  getGathers does not wait for the puts of the others, and the      *)
(* windows are locked without checks; it is the collective opening of the  *)
(* model file that comes between.                                          *)
(***************************************************************************)
WholeGets ==
  \A r \in Rank :
    /\ \A i \in 1 .. Len(il[r]) : il[r][i] = AllGathers[GNum(r, i - 1) + 1]
    /\ pc[r] \in {"read", "write"} /\ Busy(r) => gval[r] = AllGathers[GNum(r, turn[r]) + 1]

\* Safety: a process works on the traces of its gather, all of them and no
\* others, though it is told the sizes of gathers only.
RightTraces ==
  \A r \in Rank : pc[r] = "write" => block[r] = IF Busy(r) THEN Members(GNum(r, turn[r])) ELSE {}

\* Safety: the finished output has the new traces of all gathers, in the
\* order of the gathers, under the inline and crossline of their own.
OutputByGather ==
  (\A r \in Rank : pc[r] = "done") =>
    out = UNION {{<<(g - 1) * OGSz + j, AllGathers[g].id>> : j \in 0 .. OGSz - 1}
                 : g \in 1 .. Len(AllGathers)}

\* Liveness: all processes leave the loop; none waits in a read or a write
\* for one that has no gather left.
Terminates == <>(\A r \in Rank : pc[r] = "done")
=============================================================================
