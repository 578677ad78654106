---------------------------- MODULE CollectiveIO ----------------------------
(***************************************************************************)
(* The Data layer, src/datampiio.cc: how the processes carry out read and  *)
(* write requests with MPI-IO.                                             *)
(*                                                                         *)
(* A request is contiguous (read and write of sz bytes), strided (blocks   *)
(* of bsz bytes, osz apart: the headers or the samples of neighbouring     *)
(* traces) or by list (blocks of bsz bytes at given offsets).  Each        *)
(* process asks for its own part.  MPI counts are C ints, so a request is  *)
(* done in chunks; collective calls must be made by all processes, so a    *)
(* process with fewer chunks makes empty calls to match, and for that the  *)
(* processes first gather their sizes.                                     *)
(*                                                                         *)
(* Reads and writes differ in the direction of the transfer only; a        *)
(* transfer is the pair of a place in the buffer and a place in the file.  *)
(* A definition Bug... is not part of the model.  It is the definition     *)
(* after it with a plausible mistake, which the properties are to notice.  *)
(***************************************************************************)
EXTENDS Decompose, Chunking, Sequences, FiniteSets, FiniteSetsExt

CONSTANTS MaxSize,     \* MPIIO::Opt::maxSize, the largest C int
          Modes,       \* what MPIIO::Opt::coll may be: collective data access
          Faulty,      \* the kinds of requests whose data access may fail
          Workloads    \* the sequences of requests the processes may make

ASSUME MaxSizeAssumption == MaxSize \in Nat \ {0}
ASSUME ModesAssumption   == Modes \subseteq BOOLEAN

VARIABLES coll,        \* is data access collective?
          reqs,        \* the requests, the same kinds on every process
          call,        \* call[r]: the request r is in
          pc,          \* the MPI call r is about to make in it
          outer,       \* the loops of contigIO or listIO on r
          inner,       \* those of the contigIO inside readv and writev
          view,        \* the file view of r: the places seen through it
          moved,       \* the transfers r has made in this request
          err          \* err[r].failed: a data access of this request failed;
                       \* err[r].logged: printErr has logged an error

vars == <<coll, reqs, call, pc, outer, inner, view, moved, err>>

Plain == <<>>          \* the view of the file as a sequence of bytes

Req(r)  == reqs[call[r]]
Kind(r) == Req(r).kind
-----------------------------------------------------------------------------
\* The units of one call: bytes, or blocks.
BugMaxChunk(q) == MaxSize              \* blocks are counted, not bytes
MaxChunk(q) == CASE q.kind = "contig"  -> MaxSize
                 [] q.kind = "strided" -> MaxSize \div q.osz
                 [] q.kind = "list"    -> MaxSize \div (IF q.bsz > 0 THEN 2 * q.bsz ELSE 1)

\* A contiguous request is one of single bytes, next to each other.  No block
\* is larger than a call may move.
Requests == {"contig", "strided", "list"}

Sound(q) == /\ q.kind \in Requests
            /\ q.sz \in [Rank -> Nat]
            /\ q.bsz \in Nat
            /\ q.kind = "contig"  => q.bsz = 1 /\ q.osz = 1
            /\ q.kind = "strided" => q.osz \in Nat \ {0}
            /\ \A r \in Rank : IF q.kind = "list"
                               THEN q.off[r] \in Seq(Nat) /\ Len(q.off[r]) = q.sz[r]
                               ELSE q.off[r] \in Nat
            /\ MaxChunk(q) \in Nat \ {0}

ASSUME WorkloadsAssumption ==
  \A w \in Workloads : Len(w) \in Nat \ {0} /\ \A n \in 1 .. Len(w) : Sound(w[n])

OuterSz(r)    == Req(r).sz[r]
OuterChunk(r) == Chunk(outer[r], OuterSz(r), MaxChunk(Req(r)))
OuterNext(r)  == Advance(outer[r], OuterSz(r), MaxChunk(Req(r)))
InnerSz(r)    == OuterChunk(r) * Req(r).bsz
InnerChunk(r) == Chunk(inner[r], InnerSz(r), MaxSize)
InnerNext(r)  == Advance(inner[r], InnerSz(r), MaxSize)

(***************************************************************************)
(* The views, as the sequence of the bytes of the file they show: count    *)
(* blocks that begin stride apart, or at the places of a list.             *)
(***************************************************************************)
StrideView(offset, block, stride, count) ==
  [k \in 1 .. count * block |-> offset + stride * ((k - 1) \div block) + ((k - 1) % block)]

RandBlockView(count, block, offsets) ==
  [k \in 1 .. count * block |-> offsets[((k - 1) \div block) + 1] + ((k - 1) % block)]

\* The place in the file of place p of view v; nothing is behind a view.
Beyond == -1
Seen(v, p) == IF v = Plain THEN p ELSE IF p < Len(v) THEN v[p + 1] ELSE Beyond

\* The view for the chunk r is at.
ChunkView(r) ==
  LET q == Req(r) i == outer[r].i n == OuterChunk(r)
  IN  IF q.kind = "strided"
      THEN StrideView(IF n = 0 THEN 0 ELSE q.off[r] + q.osz * i, q.bsz, q.osz, n)
      ELSE RandBlockView(n, q.bsz, SubSeq(q.off[r], i + 1, i + n))

\* The data access r is at: the place in the view, the place in the buffer
\* and the number of bytes.
Access(r) ==
  LET q == Req(r) i == outer[r].i
  IN  CASE q.kind = "contig"  -> [at |-> q.off[r] + i, buf |-> i, n |-> OuterChunk(r)]
        [] q.kind = "strided" -> [at |-> inner[r].i, buf |-> i * q.bsz + inner[r].i,
                                  n |-> InnerChunk(r)]
        [] q.kind = "list"    -> [at |-> 0, buf |-> i * q.bsz, n |-> OuterChunk(r) * q.bsz]

Transfers(r) ==
  LET a == Access(r)
  IN  {<<a.buf + k, Seen(view[r], a.at + k)>> : k \in 0 .. a.n - 1}
-----------------------------------------------------------------------------
\* Where r goes from the head of its loops, given their state f.
OuterHead(r, f) == IF ~More(f, OuterSz(r)) THEN "return"
                   ELSE IF Kind(r) = "contig" THEN "access" ELSE "view"
InnerHead(r, f) == IF More(f, InnerSz(r)) THEN "access" ELSE "reset"

\* A process begins every request with the gather, also when it has nothing
\* to move in it.
BugEnter(n, r) == IF reqs[n].sz[r] = 0 THEN "return" ELSE "gather"
Enter(n, r)    == "gather"

Clean == [failed |-> FALSE, logged |-> FALSE]

Init == /\ coll \in Modes
        /\ reqs \in Workloads
        /\ call  = [r \in Rank |-> 1]
        /\ pc    = [r \in Rank |-> Enter(1, r)]
        /\ outer = [r \in Rank |-> [i |-> 0, rem |-> 0]]
        /\ inner = outer
        /\ view  = [r \in Rank |-> Plain]
        /\ moved = [r \in Rank |-> {}]
        /\ err   = [r \in Rank |-> Clean]

\* The MPI_Allgather of comm->gather in contigIO and listIO, and the start
\* of the loops.
Gather ==
  LET Size(r) == IF pc[r] = "gather" THEN OuterSz(r) ELSE InnerSz(r)
      most    == Max({Size(r) : r \in Rank})
  IN  /\ \A r \in Rank : pc[r] \in {"gather", "regather"}
      /\ outer' = [r \in Rank |-> IF pc[r] = "gather"
                                  THEN Begin(OuterSz(r), MaxChunk(Req(r)), most) ELSE outer[r]]
      /\ inner' = [r \in Rank |-> IF pc[r] = "regather"
                                  THEN Begin(InnerSz(r), MaxSize, most) ELSE inner[r]]
      /\ pc' = [r \in Rank |-> IF pc[r] = "gather" THEN OuterHead(r, outer'[r])
                                                   ELSE InnerHead(r, inner'[r])]
      /\ UNCHANGED <<coll, reqs, call, view, moved, err>>

\* The view is not reset.
BugSetView ==
  /\ \A r \in Rank : pc[r] \in {"view", "reset"}
  /\ view'  = [r \in Rank |-> IF pc[r] = "view" THEN ChunkView(r) ELSE view[r]]
  /\ outer' = [r \in Rank |-> IF pc[r] = "reset" THEN OuterNext(r) ELSE outer[r]]
  /\ pc' = [r \in Rank |-> IF pc[r] = "reset" THEN OuterHead(r, outer'[r])
                           ELSE IF Kind(r) = "strided" THEN "regather"
                           ELSE "access"]
  /\ UNCHANGED <<coll, reqs, call, inner, moved, err>>

\* MPI_File_set_view: readv, writev and iol set the view for a chunk, and
\* reset it behind the data access.
SetView ==
  /\ \A r \in Rank : pc[r] \in {"view", "reset"}
  /\ view'  = [r \in Rank |-> IF pc[r] = "view" THEN ChunkView(r) ELSE Plain]
  /\ outer' = [r \in Rank |-> IF pc[r] = "reset" THEN OuterNext(r) ELSE outer[r]]
  /\ pc' = [r \in Rank |-> IF pc[r] = "reset" THEN OuterHead(r, outer'[r])
                           ELSE IF Kind(r) = "strided" THEN "regather"
                           ELSE "access"]
  /\ UNCHANGED <<coll, reqs, call, inner, moved, err>>

(***************************************************************************)
(* The data access of the processes in S, which fails on those in F.  In   *)
(* contigIO, also inside readv, its error goes to printErr; iol returns    *)
(* the err of setting the view, which was MPI_SUCCESS, and so does not     *)
(* leave the loop of listIO.                                               *)
(***************************************************************************)
AfterAccess(r, failed) ==
  [failed |-> err[r].failed \/ failed,
   logged |-> err[r].logged \/ (failed /\ Kind(r) # "list")]

AccessBy(S, F) ==
  /\ \A r \in S : pc[r] = "access"
  /\ moved' = [r \in Rank |-> IF r \in S \ F THEN moved[r] \cup Transfers(r) ELSE moved[r]]
  /\ inner' = [r \in Rank |-> IF r \in S /\ Kind(r) = "strided" THEN InnerNext(r) ELSE inner[r]]
  /\ outer' = [r \in Rank |-> IF r \in S /\ Kind(r) = "contig" THEN OuterNext(r) ELSE outer[r]]
  /\ pc' = [r \in Rank |-> IF r \notin S THEN pc[r]
                           ELSE IF Kind(r) = "contig" THEN OuterHead(r, outer'[r])
                           ELSE IF Kind(r) = "strided" THEN InnerHead(r, inner'[r])
                           ELSE "reset"]
  /\ err' = [r \in Rank |-> IF r \in S THEN AfterAccess(r, r \in F) ELSE err[r]]
  /\ UNCHANGED <<coll, reqs, call, view>>

\* MPI_File_read_at_all and write_at_all, or read_at and write_at.
DataAccess == \E S \in (IF coll THEN {Rank} ELSE {{r} : r \in Rank}) :
                \E F \in SUBSET {r \in S : Kind(r) \in Faulty} : AccessBy(S, F)

\* Back to the caller, which makes the next request.
Return(r) ==
  /\ pc[r] = "return"
  /\ IF call[r] < Len(reqs)
     THEN /\ call' = [call EXCEPT ![r] = @ + 1]
          /\ pc'   = [pc EXCEPT ![r] = Enter(call[r] + 1, r)]
     ELSE /\ pc'   = [pc EXCEPT ![r] = "done"]
          /\ UNCHANGED call
  /\ moved' = [moved EXCEPT ![r] = {}]
  /\ err'   = [err EXCEPT ![r] = Clean]
  /\ UNCHANGED <<coll, reqs, outer, inner, view>>

Finished == /\ \A r \in Rank : pc[r] = "done"
            /\ UNCHANGED vars

Next == \/ Gather
        \/ SetView
        \/ DataAccess
        \/ \E r \in Rank : Return(r)
        \/ Finished

\* Every process is a running program, and a call that all processes are in
\* completes.
Fairness == /\ WF_vars(Gather)
            /\ WF_vars(SetView)
            /\ WF_vars(DataAccess)
            /\ \A r \in Rank : WF_vars(Return(r))

Spec == Init /\ [][Next]_vars /\ Fairness
-----------------------------------------------------------------------------
Loop == [i : Nat, rem : Nat]

TypeOK ==
  /\ coll \in Modes
  /\ reqs \in Workloads
  /\ call \in [Rank -> 1 .. Len(reqs)]
  /\ pc \in [Rank -> {"gather", "view", "regather", "access", "reset", "return", "done"}]
  /\ outer \in [Rank -> Loop]
  /\ inner \in [Rank -> Loop]
  /\ DOMAIN view = Rank /\ \A r \in Rank : view[r] \in Seq(Nat)
  /\ DOMAIN moved = Rank /\ \A r \in Rank : moved[r] \subseteq Nat \X Nat
  /\ err \in [Rank -> [failed : BOOLEAN, logged : BOOLEAN]]

\* What the request asks of r: byte j of block b, in the buffer and in the
\* file.
Wanted(r) ==
  LET q == Req(r)
      place(b) == IF q.kind = "list" THEN q.off[r][b + 1] ELSE q.off[r] + q.osz * b
  IN  UNION {{<<b * q.bsz + j, place(b) + j>> : j \in 0 .. q.bsz - 1} : b \in 0 .. q.sz[r] - 1}

(***************************************************************************)
(* Safety: when a request without errors returns, the process has moved    *)
(* the bytes it asked for between the right places, and no others,         *)
(* whatever the chunks it took, the views that were set for them and the   *)
(* requests before it.                                                     *)
(***************************************************************************)
ExactTransfer ==
  \A r \in Rank : pc[r] = "return" /\ ~err[r].failed => moved[r] = Wanted(r)

(***************************************************************************)
(* Safety: no count or extent handed to MPI exceeds the largest C int, and *)
(* readv never has to log that its read overflows the MPI settings.        *)
(***************************************************************************)
CountsFit ==
  \A r \in Rank :
    /\ pc[r] = "access" => Access(r).n <= MaxSize
    /\ pc[r] = "view" /\ Kind(r) = "strided" => OuterChunk(r) * Req(r).osz <= MaxSize

(***************************************************************************)
(* Action property: a collective call completes only when all processes    *)
(* are in the same request and at the same statement of it; no process's   *)
(* gather, view or access is matched with one of another request.          *)
(***************************************************************************)
InStep ==
  [][Gather \/ SetView \/ (coll /\ DataAccess) =>
       \A r, s \in Rank : call[r] = call[s] /\ pc[r] = pc[s]]_vars

\* Liveness: every process comes back from its last request; none is left
\* waiting in a collective call the others do not make.
Terminates == <>(\A r \in Rank : pc[r] = "done")

(***************************************************************************)
(* Safety, which the code breaks for requests by list: a request in which  *)
(* a data access failed has logged an error when it returns.  The comment  *)
(* on iol has it return the MPI error status, which is what listIO hands   *)
(* to printErr.                                                            *)
(***************************************************************************)
ErrorsReported ==
  \A r \in Rank : pc[r] = "return" /\ err[r].failed => err[r].logged
=============================================================================
