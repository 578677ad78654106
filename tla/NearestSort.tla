---------------------------- MODULE NearestSort ----------------------------
(***************************************************************************)
(* The nearest-neighbour sort of src/sort.cc: sortP on a Param structure   *)
(* and the vector template on std::vector, which follow the same protocol. *)
(*                                                                         *)
(* In a round every process sends its lowest RegionSz entries to the       *)
(* process below it, sorts what it keeps together with what it received,   *)
(* sends its highest RegionSz entries up, sorts again, and says in an      *)
(* MPI_Allreduce whether any of its entries changed.  The loop ends when   *)
(* no process saw a change.                                                *)
(*                                                                         *)
(* A definition Bug... is not part of the model.  It is the definition     *)
(* after it with a plausible mistake, which the properties are to notice.  *)
(*                                                                         *)
(* A block is one message here; sortP sends its four columns as four       *)
(* messages with one tag, which MPI keeps in order.                        *)
(***************************************************************************)
EXTENDS Placement, Sequences

CONSTANTS Inputs,      \* the distributed vectors the sort is called with
          Eager        \* TRUE: a send completes without the receiver;
                       \* FALSE: only once the receive is posted

ASSUME EagerAssumption == Eager \in BOOLEAN
ASSUME InputsAssumption == \A v \in Inputs : IsVector(v)

VARIABLES pc,          \* where each process is in sortP
          dat,         \* prm: the entries passed in and returned
          temp1,       \* the work area, Size(r) entries on process r
          temp2,       \* the copy of temp1 the change test compares with
          left,        \* left[r]: blocks sent by r to r - 1
          right,       \* right[r]: blocks sent by r to r + 1
          vote         \* reduced: did the round change an entry of r?

vars == <<pc, dat, temp1, temp2, left, right, vote>>

(***************************************************************************)
(* Process r keeps its first Edge1(r) entries out of the sort of the left  *)
(* phase, and its last Edge2(r) ones out of the sort of the right phase.   *)
(***************************************************************************)
BugEdge1(r) == 0                      \* the first sort may take the lent entries
Edge1(r) == IF r # 0 THEN RegionSz ELSE 0
Edge2(r) == IF r # LastRank THEN RegionSz ELSE 0
Size(r)  == Lnt[r] + Edge2(r)

\* The value-initialised entries of temp1 behind the local ones.
Blank == [ord |-> 0, gtn |-> 0]

Block == [1 .. RegionSz -> Row]

(***************************************************************************)
(* std::sort with the comparator on the positions lo..hi of f.  The entry  *)
(* at i moves to Place(f, lo, hi, i); entries the comparator cannot tell   *)
(* apart keep their order.                                                 *)
(***************************************************************************)
Before(f, j, i) == Comp(f[j], f[i]) \/ (f[j].ord = f[i].ord /\ j < i)

Place(f, lo, hi, i) == lo + Cardinality({j \in lo .. hi : Before(f, j, i)})

BugSortRange(f, lo, hi) ==            \* the end iterator is one too low
  [k \in DOMAIN f |-> IF k \in lo .. hi - 1
                      THEN f[CHOOSE i \in lo .. hi - 1 : Place(f, lo, hi - 1, i) = k]
                      ELSE f[k]]

SortRange(f, lo, hi) ==
  [k \in DOMAIN f |-> IF k \in lo .. hi
                      THEN f[CHOOSE i \in lo .. hi : Place(f, lo, hi, i) = k]
                      ELSE f[k]]

\* The block sent to the lower process, and the one sent to the higher.
LowBlock(f)     == [k \in 1 .. RegionSz |-> f[k]]
BugHighBlock(r, f) == [k \in 1 .. RegionSz |-> f[Lnt[r] - RegionSz + k]]
HighBlock(r, f) == [k \in 1 .. RegionSz |-> f[Lnt[r] + k]]

\* The work area of r with a block from above at its end, or with a block
\* from below at its start.
WithHigh(r, f, b) == [k \in 1 .. Size(r) |-> IF k > Lnt[r] THEN b[k - Lnt[r]] ELSE f[k]]
WithLow(r, f, b)  == [k \in 1 .. Size(r) |-> IF k <= RegionSz THEN b[k] ELSE f[k]]

\* The local part of a work area, which is what a process returns.
BugLocal(r, f) == f                    \* the region behind is copied back too
Local(r, f) == [k \in 1 .. Lnt[r] |-> f[k]]

\* The change test: an entry of r is not the one it was, judging by the gtn.
BugMoved(r, f, g) ==                   \* the ends are left out
  \E j \in RegionSz + 1 .. Lnt[r] - RegionSz : f[j].gtn # g[j].gtn
Moved(r, f, g) == \E j \in 1 .. Lnt[r] : f[j].gtn # g[j].gtn

Move(r, from, to) == pc[r] = from /\ pc' = [pc EXCEPT ![r] = to]

Post(chan, r, block) == [q \in Rank |-> IF q = r THEN Append(chan[q], block) ELSE chan[q]]
Take(chan, r)        == [q \in Rank |-> IF q = r THEN Tail(chan[q]) ELSE chan[q]]
-----------------------------------------------------------------------------
Init == /\ pc = [r \in Rank |-> "sort"]
        /\ dat \in Inputs
        /\ temp1 = [r \in Rank |-> [k \in 1 .. Size(r) |-> Blank]]
        /\ temp2 = temp1
        /\ left  = [r \in Rank |-> <<>>]
        /\ right = [r \in Rank |-> <<>>]
        /\ vote  = [r \in Rank |-> FALSE]

\* The sort of the local entries; a single process is done with that.
LocalSort(r) ==
  /\ Move(r, "sort", IF NumRank > 1 THEN "round" ELSE "copy")
  /\ temp1' = [temp1 EXCEPT ![r] =
                 [k \in 1 .. Size(r) |->
                    IF k <= Lnt[r] THEN SortRange(dat[r], 1, Lnt[r])[k] ELSE @[k]]]
  /\ UNCHANGED <<dat, temp2, left, right, vote>>

\* The wrong end of the row of processes does not send.
BugBeginRound(r) ==
  /\ Move(r, "round", "left")
  /\ temp2' = [temp2 EXCEPT ![r] = temp1[r]]
  /\ left' = IF r # LastRank THEN Post(left, r, LowBlock(temp1[r])) ELSE left
  /\ UNCHANGED <<dat, temp1, right, vote>>

\* The start of a round: temp2 = temp1 and the posts of sendLeft.
BeginRound(r) ==
  /\ Move(r, "round", "left")
  /\ temp2' = [temp2 EXCEPT ![r] = temp1[r]]
  /\ left' = IF r # 0 THEN Post(left, r, LowBlock(temp1[r])) ELSE left
  /\ UNCHANGED <<dat, temp1, right, vote>>

\* Wait in sendLeft: the receive from r + 1 has a message, and the send to
\* r - 1 has completed.
LeftArrived(r) ==
  /\ r # LastRank => left[r + 1] # <<>>
  /\ r # 0 => Eager \/ pc[r - 1] \notin {"sort", "round"}

\* The end of sendLeft, the first sort of the round, the posts of sendRight.
EndLeft(r) ==
  LET got    == IF r # LastRank THEN WithHigh(r, temp1[r], Head(left[r + 1])) ELSE temp1[r]
      sorted == SortRange(got, Edge1(r) + 1, Size(r))
  IN  /\ Move(r, "left", "right")
      /\ LeftArrived(r)
      /\ temp1' = [temp1 EXCEPT ![r] = sorted]
      /\ left'  = IF r # LastRank THEN Take(left, r + 1) ELSE left
      /\ right' = IF r # LastRank THEN Post(right, r, HighBlock(r, sorted)) ELSE right
      /\ UNCHANGED <<dat, temp2, vote>>

\* Wait in sendRight.
RightArrived(r) ==
  /\ r # 0 => right[r - 1] # <<>>
  /\ r # LastRank => Eager \/ pc[r + 1] \notin {"sort", "round", "left"}

\* The end of sendRight, the second sort of the round, the change test.
EndRight(r) ==
  LET got    == IF r # 0 THEN WithLow(r, temp1[r], Head(right[r - 1])) ELSE temp1[r]
      sorted == SortRange(got, 1, Size(r) - Edge2(r))
  IN  /\ Move(r, "right", "reduce")
      /\ RightArrived(r)
      /\ temp1' = [temp1 EXCEPT ![r] = sorted]
      /\ right' = IF r # 0 THEN Take(right, r - 1) ELSE right
      /\ vote'  = [vote EXCEPT ![r] = Moved(r, sorted, temp2[r])]
      /\ UNCHANGED <<dat, temp2, left>>

\* Each process goes by its own vote, or a change has to be seen by all.
BugAllreduceOwn ==
  /\ \E r \in Rank : Move(r, "reduce", IF vote[r] THEN "round" ELSE "copy")
  /\ UNCHANGED <<dat, temp1, temp2, left, right, vote>>

BugAllreduceAnd ==
  /\ \A r \in Rank : pc[r] = "reduce"
  /\ pc' = [r \in Rank |-> IF \A q \in Rank : vote[q] THEN "round" ELSE "copy"]
  /\ UNCHANGED <<dat, temp1, temp2, left, right, vote>>

\* MPI_Allreduce of the votes: all processes enter it, all leave it with
\* the sum, and leave the loop when it is 0.
Allreduce ==
  /\ \A r \in Rank : pc[r] = "reduce"
  /\ pc' = [r \in Rank |-> IF \E q \in Rank : vote[q] THEN "round" ELSE "copy"]
  /\ UNCHANGED <<dat, temp1, temp2, left, right, vote>>

\* The copy back into prm, and the return to the caller.
Return(r) ==
  /\ Move(r, "copy", "done")
  /\ dat' = [dat EXCEPT ![r] = Local(r, temp1[r])]
  /\ UNCHANGED <<temp1, temp2, left, right, vote>>

Finished == /\ \A r \in Rank : pc[r] = "done"
            /\ UNCHANGED vars

Step(r) == \/ LocalSort(r)
           \/ BeginRound(r)
           \/ EndLeft(r)
           \/ EndRight(r)
           \/ Return(r)

Next == \/ \E r \in Rank : Step(r)
        \/ Allreduce
        \/ Finished

\* Every process is a running program, and MPI delivers what was sent.
Fairness == /\ \A r \in Rank : WF_vars(Step(r))
            /\ WF_vars(Allreduce)

Spec == Init /\ [][Next]_vars /\ Fairness
-----------------------------------------------------------------------------
TypeOK ==
  /\ pc \in [Rank -> {"sort", "round", "left", "right", "reduce", "copy", "done"}]
  /\ IsVector(dat)
  /\ DOMAIN temp1 = Rank /\ \A r \in Rank : temp1[r] \in [1 .. Size(r) -> Row]
  /\ DOMAIN temp2 = Rank /\ \A r \in Rank : temp2[r] \in [1 .. Size(r) -> Row]
  /\ left  \in [Rank -> Seq(Block)]
  /\ right \in [Rank -> Seq(Block)]
  /\ vote  \in [Rank -> BOOLEAN]

\* The local parts of the work areas.
Work == [r \in Rank |-> Local(r, temp1[r])]

(***************************************************************************)
(* Safety: whatever two processes return is in order between them and      *)
(* along each of them, which is what the stopping rule of the loop in      *)
(* sortP is for: no vote for a change means that nothing is out of order   *)
(* anywhere, not only next to the exchanged blocks.                        *)
(***************************************************************************)
SortedOnReturn ==
  \A r, s \in Rank : pc[r] = "done" /\ pc[s] = "done" =>
    \A i \in 1 .. Lnt[r], j \in 1 .. Lnt[s] :
      Precedes(r, i, s, j) => Comp(dat[r][i], dat[s][j])

(***************************************************************************)
(* Safety: when all processes are between two rounds, or about to return,  *)
(* the work areas hold exactly the entries passed in, each of them once:   *)
(* no header is lost or doubled by the overlapping copies at the two ends  *)
(* of temp1.                                                               *)
(***************************************************************************)
RowsKept ==
  (\A r \in Rank : pc[r] \in {"round", "reduce", "copy"}) =>
    RowsOf(temp1) = RowsOf(dat) /\ Distinct(temp1)

(***************************************************************************)
(* Safety: a block in flight was sent in the round its sender is in, and   *)
(* is what the receiver must merge: the low end of the sender's entries at *)
(* the start of the round, or the high end of its work area.  A block of   *)
(* an earlier round is never taken for one of this round.                  *)
(***************************************************************************)
FreshBlocks ==
  \A r \in Rank :
    /\ left[r]  # <<>> => /\ pc[r] \in {"left", "right"}
                          /\ left[r] = <<LowBlock(temp2[r])>>
    /\ right[r] # <<>> => /\ pc[r] \in {"right", "reduce"}
                          /\ right[r] = <<HighBlock(r, temp1[r])>>

\* The number of pairs of entries that are in the wrong order.
Inversions(v) ==
  LET cells == UNION {{r} \X (1 .. Lnt[r]) : r \in Rank}
  IN  Cardinality({p \in cells \X cells : LET c == p[1] d == p[2] IN
                     /\ Precedes(c[1], c[2], d[1], d[2])
                     /\ Comp(v[d[1]][d[2]], v[c[1]][c[2]])})

(***************************************************************************)
(* Action property: a round that ends with the verdict "go on" has removed *)
(* an inversion, and one that ends the loop has left everything in place.  *)
(* This is why the unbounded loop of sortP comes to an end.                *)
(***************************************************************************)
RoundsProgress ==
  [][Allreduce => IF \E r \in Rank : pc'[r] = "round"
                  THEN Inversions(temp1) < Inversions(temp2)
                  ELSE \A r \in Rank : Local(r, temp1[r]) = Local(r, temp2[r])]_vars

\* Liveness: every process returns from the sort, whether sends are
\* buffered or wait for their receive.
Terminates == <>(\A r \in Rank : pc[r] = "done")

(***************************************************************************)
(* The sort implements its promise: the vector is agreed on by the         *)
(* Allreduce that ends the loop (by the local sort of a single process),   *)
(* and each copy back is a return.                                         *)
(***************************************************************************)
Promise == INSTANCE SortSpec WITH
             agreed   <- IF \E r \in Rank : pc[r] \in {"copy", "done"} THEN Work ELSE <<>>,
             returned <- {r \in Rank : pc[r] = "done"}

ImplementsPromise == Promise!Spec
-----------------------------------------------------------------------------
(***************************************************************************)
(* The inductive invariant.  Within a round a process's work area is a     *)
(* function of the vectors the processes began the round with (temp2),     *)
(* whatever the interleaving.                                              *)
(***************************************************************************)
\* The work area of r after the left phase, and after the right phase, of a
\* round that the processes begin with the vectors of a.
AfterLeft(a, r) ==
  SortRange(IF r # LastRank THEN WithHigh(r, a[r], LowBlock(a[r + 1])) ELSE a[r],
            Edge1(r) + 1, Size(r))

AfterRight(a, r) ==
  SortRange(IF r # 0 THEN WithLow(r, AfterLeft(a, r), HighBlock(r - 1, AfterLeft(a, r - 1)))
                     ELSE AfterLeft(a, r),
            1, Size(r) - Edge2(r))

Begun(r) == pc[r] \in {"left", "right", "reduce"}
Out(r)   == pc[r] \in {"copy", "done"}

\* The processes leave the loop together, and a process is never a phase
\* ahead of what it needs from a neighbour.
PhaseInv ==
  /\ (\A r \in Rank : ~Out(r)) \/ (\A r \in Rank : Out(r))
  /\ \A r \in Rank :
       /\ NumRank = 1 => pc[r] = "sort" \/ Out(r)
       /\ pc[r] \in {"right", "reduce"} /\ r # LastRank => Begun(r + 1)
       /\ pc[r] = "reduce" /\ r # 0 => pc[r - 1] \in {"right", "reduce"}

\* What is in flight: the block of this round, from its post to its receipt.
ChannelInv ==
  \A r \in Rank :
    /\ left[r] = IF r # 0 /\ Begun(r) /\ pc[r - 1] \in {"sort", "round", "left"}
                 THEN <<LowBlock(temp2[r])>> ELSE <<>>
    /\ right[r] = IF r # LastRank /\ pc[r] \in {"right", "reduce"} /\ pc[r + 1] \in {"left", "right"}
                  THEN <<HighBlock(r, AfterLeft(temp2, r))>> ELSE <<>>

\* What a process has in its work area in each phase of the round.
DataInv ==
  \A r \in Rank :
    /\ pc[r] = "left"   => temp1[r] = temp2[r]
    /\ pc[r] = "right"  => temp1[r] = AfterLeft(temp2, r)
    /\ pc[r] = "reduce" =>
         /\ temp1[r] = AfterRight(temp2, r)
         /\ vote[r] = Moved(r, temp1[r], temp2[r])

LocallySorted(r, f) == \A i, j \in 1 .. Lnt[r] : i < j => Comp(f[i], f[j])

\* A process is locally sorted when it begins a round.
SortedInv ==
  \A r \in Rank : /\ pc[r] = "round" => LocallySorted(r, temp1[r])
                  /\ Begun(r) => LocallySorted(r, temp2[r])

\* The vector as of the start of the round each process is in.
Held == [r \in Rank |-> IF pc[r] = "sort" THEN dat[r]
                        ELSE IF Begun(r) THEN temp2[r]
                        ELSE temp1[r]]

HeldInv == /\ Distinct(Held)
           /\ (\A r \in Rank : pc[r] # "done") => RowsOf(Held) = RowsOf(dat)

\* Once they are out of the loop the work areas are in order.
FinalInv == /\ (\A r \in Rank : Out(r)) => GloballySorted(temp1)
            /\ \A r \in Rank : pc[r] = "done" => dat[r] = Local(r, temp1[r])

KeepInv == TypeOK /\ PhaseInv /\ ChannelInv /\ DataInv /\ HeldInv
IInv    == KeepInv /\ SortedInv /\ FinalInv
=============================================================================
