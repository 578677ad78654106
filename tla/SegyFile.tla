------------------------------ MODULE SegyFile ------------------------------
(***************************************************************************)
(* A SEG-Y file written by WriteSEGY of src/wfilesegy.cc, on all processes *)
(* together, and read back by ReadSEGY of src/rfilesegy.cc; the Object     *)
(* layer, src/objsegy.cc, with the places of include/share/segy.hh.        *)
(*                                                                         *)
(* Every process has a count nt of its own, which gets stale when others   *)
(* write; it is brought up to date in the destructor, whose calls are      *)
(* collective: each process decides by its own flags which of them it      *)
(* makes.  Callers make the same calls on all processes, so what all of    *)
(* them are told alike is kept once (ns, about, isErr).  Init sets         *)
(* state.writeHO and nothing clears it, so it is not a variable.           *)
(*                                                                         *)
(* A definition Bug... is not part of the model.  It is the definition     *)
(* after it with a plausible mistake, which the properties are to notice.  *)
(***************************************************************************)
EXTENDS Decompose, Sequences, FiniteSets, FiniteSetsExt, SequencesExt

CONSTANTS MaxNt,       \* bound: places that are written
          MaxCalls,    \* bound: calls before the destructor
          Samples,     \* the numbers of samples given to writeNs
          Abouts,      \* the text and increment of a file
          OldFiles     \* what may be at the name of the file before

Place == 0 .. MaxNt - 1

ASSUME BoundsAssumption  == MaxNt \in Nat /\ MaxCalls \in Nat
ASSUME AboutsAssumption  == "none" \in Abouts
ASSUME SamplesAssumption == Samples \subseteq Nat \ {0}
ASSUME OldFilesAssumption ==
  OldFiles \subseteq [size : Nat, header : [ns : Nat, about : Abouts]]

VARIABLES calls,       \* the calls made so far
          pc,          \* "open", or where a process is in the destructor
          ns, nsSet,   \* the number of samples, and whether it was given
          about,       \* text and inc
          isErr,       \* piol->log->isErr()
          nt,          \* the traces each process knows of
          stalent,     \* state.stalent
          resize,      \* state.resize
          size,        \* the size of the file
          header,      \* its header object
          content      \* the parts of traces in it, by place in bytes

told == <<ns, nsSet, about, isErr>>
vars == <<calls, pc, told, nt, stalent, resize, size, header, content>>
-----------------------------------------------------------------------------
(***************************************************************************)
(* The layout: a header object, then for each trace its header (prm, MDSz  *)
(* bytes) and its samples (trc).                                           *)
(***************************************************************************)
HOSz       == 3600
MDSz       == 240
DOSz(n)    == MDSz + 4 * n
FileSz(t, n) == HOSz + t * DOSz(n)

Cell      == [part : {"prm", "trc"}, place : Place]
Loc(c, n) == FileSz(c.place, n) + (IF c.part = "trc" THEN MDSz ELSE 0)
Behind(c, n) == Loc(c, n) + (IF c.part = "trc" THEN 4 * n ELSE MDSz)

MaxNs == 32767         \* std::numeric_limits<int16_t>::max()

Init == /\ calls = 0
        /\ pc = [r \in Rank |-> "open"]
        /\ ns = 0 /\ nsSet = FALSE
        /\ about = "none"
        /\ isErr = FALSE
        /\ nt = [r \in Rank |-> 0]
        /\ stalent = [r \in Rank |-> FALSE]
        /\ resize = [r \in Rank |-> FALSE]
        /\ \E f \in OldFiles : size = f.size /\ header = f.header
        /\ content = [l \in {} |-> 0]

\* The next call, which all processes make.
Call == /\ \A r \in Rank : pc[r] = "open"
        /\ calls < MaxCalls
        /\ calls' = calls + 1
        /\ UNCHANGED <<pc, header>>

\* Callers give the number of samples before they write.
WriteNs(n) ==
  /\ Call
  /\ content = <<>>
  /\ IF n > MaxNs
     THEN /\ isErr' = TRUE
          /\ UNCHANGED <<ns, nsSet, resize>>
     ELSE /\ ns' = n
          /\ nsSet' = TRUE
          /\ resize' = [r \in Rank |-> resize[r] \/ n # ns]
          /\ UNCHANGED isErr
  /\ UNCHANGED <<about, nt, stalent, size, content>>

WriteNt(n) ==
  /\ Call
  /\ nt' = [r \in Rank |-> n]
  /\ resize' = [r \in Rank |-> resize[r] \/ nt[r] # n]
  /\ stalent' = [r \in Rank |-> FALSE]
  /\ UNCHANGED <<told, size, content>>

\* writeText and writeInc; an increment that is not normal is refused.
WriteAbout(a) ==
  /\ Call
  /\ \/ about' = a /\ UNCHANGED isErr
     \/ isErr' = TRUE /\ UNCHANGED about
  /\ UNCHANGED <<ns, nsSet, nt, stalent, resize, size, content>>

(***************************************************************************)
(* What the processes write in one call: by offset and number, where       *)
(* callers pass offset 0 on a process without traces, or by an ascending   *)
(* list.  The place behind the last trace a process writes is its top.     *)
(***************************************************************************)
Contiguous(offset, sz) ==
  [places |-> [r \in Rank |-> offset[r] .. offset[r] + sz[r] - 1],
   top    |-> [r \in Rank |-> offset[r] + sz[r]]]

BugListed(P) ==                        \* the count is the last place
  [places |-> P, top |-> [r \in Rank |-> IF P[r] = {} THEN 0 ELSE Max(P[r])]]
Listed(P) ==
  [places |-> P, top |-> [r \in Rank |-> IF P[r] = {} THEN 0 ELSE Max(P[r]) + 1]]

Apart(P) == \A r, s \in Rank : r # s => P[r] \cap P[s] = {}

BugStale(q, r) == q.places[r] # {}     \* only those that write get stale
Stale(q, r)    == TRUE

Write(q, parts) ==
  LET cells == {c \in Cell : /\ c.part \in parts /\ (c.part = "trc" => ns > 0)
                             /\ \E r \in Rank : c.place \in q.places[r]}
      locs  == {Loc(c, ns) : c \in cells}
  IN  /\ Apart(q.places)
      /\ isErr' = (isErr \/ ~nsSet)
      /\ content' = [l \in DOMAIN content \cup locs |->
                       IF l \in locs THEN CHOOSE c \in cells : Loc(c, ns) = l ELSE content[l]]
      /\ size' = Max({size} \cup {Behind(c, ns) : c \in cells})
      /\ stalent' = [r \in Rank |-> stalent[r] \/ Stale(q, r)]
      /\ nt' = [r \in Rank |-> Max({q.top[r], nt[r]})]
      /\ UNCHANGED <<ns, nsSet, about, resize>>

\* Of a call, somebody writes something.
WriteTrace ==
  /\ Call
  /\ \E offset, sz \in [Rank -> 0 .. MaxNt], parts \in (SUBSET {"prm", "trc"}) \ {{}} :
       /\ \A r \in Rank : /\ offset[r] + sz[r] <= MaxNt
                          /\ sz[r] = 0 => offset[r] = 0
       /\ \E r \in Rank : sz[r] # 0
       /\ Write(Contiguous(offset, sz), parts)

WriteTraceNonContiguous ==
  /\ Call
  /\ \E P \in [Rank -> SUBSET Place], parts \in (SUBSET {"prm", "trc"}) \ {{}} :
       /\ \E r \in Rank : P[r] # {}
       /\ Write(Listed(P), parts)
-----------------------------------------------------------------------------
(***************************************************************************)
(* The destructor.  A process decides by its own flags where it goes; the  *)
(* calls it goes to complete when all processes are in them.               *)
(***************************************************************************)
AfterNt(resized) == IF resized THEN "size" ELSE "header"

Destroy(r) ==
  /\ pc[r] = "open"
  /\ pc' = [pc EXCEPT ![r] = IF isErr THEN "close"
                             ELSE IF stalent[r] THEN "nt" ELSE AfterNt(resize[r])]
  /\ UNCHANGED <<calls, told, nt, stalent, resize, size, header, content>>

Together(from, to) == /\ \A r \in Rank : pc[r] = from
                      /\ pc' = [r \in Rank |-> to]
                      /\ UNCHANGED <<calls, told>>

\* comm->max in calcNt.
BugMostNt(r) == nt[r]
MostNt(r)    == Max({nt[s] : s \in Rank})

CalcNt ==
  /\ Together("nt", AfterNt(TRUE))
  /\ nt' = [r \in Rank |-> MostNt(r)]
  /\ stalent' = [r \in Rank |-> FALSE]
  /\ resize' = [r \in Rank |-> TRUE]
  /\ UNCHANGED <<size, header, content>>

\* All processes have to pass the same size.
SetFileSz ==
  /\ Together("size", "header")
  /\ size' = FileSz(nt[0], ns)
  /\ content' = [l \in {l \in DOMAIN content : l < size'} |-> content[l]]
  /\ UNCHANGED <<nt, stalent, resize, header>>

\* Process 0 writes the header, the others nothing.
WriteHO ==
  /\ Together("header", "close")
  /\ header' = [ns |-> ns, about |-> about]
  /\ size' = Max({size, HOSz})
  /\ UNCHANGED <<nt, stalent, resize, content>>

\* MPI_File_close in the destructor of the Data layer.
CloseFile ==
  /\ Together("close", "closed")
  /\ UNCHANGED <<nt, stalent, resize, size, header, content>>

Finished == /\ \A r \in Rank : pc[r] = "closed"
            /\ UNCHANGED vars

Next == \/ \E n \in Samples : WriteNs(n)
        \/ \E n \in 0 .. MaxNt : WriteNt(n)
        \/ \E a \in Abouts : WriteAbout(a)
        \/ WriteTrace
        \/ WriteTraceNonContiguous
        \/ \E r \in Rank : Destroy(r)
        \/ CalcNt \/ SetFileSz \/ WriteHO \/ CloseFile
        \/ Finished

\* Every process comes to its destructor, and a call that all are in
\* completes.
Fairness == /\ \A r \in Rank : WF_vars(Destroy(r))
            /\ WF_vars(CalcNt) /\ WF_vars(SetFileSz) /\ WF_vars(WriteHO)
            /\ WF_vars(CloseFile)

Spec == Init /\ [][Next]_vars /\ Fairness
-----------------------------------------------------------------------------
(***************************************************************************)
(* Reading changes nothing: ReadSEGY is the header and the count found at  *)
(* opening, and a request is a function of them and of the file.           *)
(***************************************************************************)
BugFoundNt == (size - HOSz) \div DOSz(header.ns)    \* also without a header
FoundNt    == IF size >= HOSz THEN (size - HOSz) \div DOSz(header.ns) ELSE 0
FoundNs    == IF size >= HOSz THEN header.ns ELSE 0

Junk == [part |-> "none", place |-> 0]
CellAt(part, p) ==
  LET l == FileSz(p, FoundNs) + (IF part = "trc" THEN MDSz ELSE 0)
  IN  IF l \in DOMAIN content THEN content[l] ELSE Junk

\* readTrace and readParam by offset; nothing begins behind the end.
ReadTrace(part, offset, sz) ==
  LET ntz == IF offset + sz > FoundNt THEN FoundNt - offset ELSE sz
  IN  [k \in 1 .. ntz |-> CellAt(part, offset + k - 1)]

\* By an ascending list.
ReadListed(part, list) == [k \in 1 .. Len(list) |-> CellAt(part, list[k])]

(***************************************************************************)
(* readTraceNonMonotonic: the list is sorted and repeats are taken out,    *)
(* and what was read is copied to every place that asks for it; idx[j]     *)
(* asks for entry n of the list without repeats.  How std::sort orders     *)
(* those that ask for the same is open.                                    *)
(***************************************************************************)
SortIndex(list) ==
  CHOOSE f \in [DOMAIN list -> DOMAIN list] :
    /\ IsInjective(f)
    /\ \A i, j \in DOMAIN list : i < j => list[f[i]] <= list[f[j]]

Ascending(S) ==
  CHOOSE f \in [1 .. Cardinality(S) -> S] : \A i, j \in DOMAIN f : i < j => f[i] < f[j]

BugNumber(list, idx, j) == Cardinality({list[i] : i \in 1 .. j})   \* without idx
Number(list, idx, j)    == Cardinality({list[idx[i]] : i \in 1 .. j})

Reordered(part, list) ==
  LET idx    == SortIndex(list)
      nodups == Ascending(Range(list))
      strc   == ReadListed(part, nodups)
  IN  [k \in DOMAIN list |->
         strc[Number(list, idx, CHOOSE j \in DOMAIN idx : idx[j] = k)]]

(***************************************************************************)
(* A request for the given parts.  It takes the rule from prm, which is    *)
(* PIOL_PARAM_NULL where headers are not asked for, and looks at the first *)
(* entry of the sorted list before it looks at the length: without the one *)
(* or the other the process dies in the call.                              *)
(***************************************************************************)
Died == <<>>           \* no part is returned

ReadNonMonotonic(parts, list) ==
  IF "prm" \notin parts \/ list = <<>>
  THEN Died
  ELSE [part \in parts |-> Reordered(part, list)]
-----------------------------------------------------------------------------
TypeOK ==
  /\ calls \in 0 .. MaxCalls
  /\ pc \in [Rank -> {"open", "nt", "size", "header", "close", "closed"}]
  /\ ns \in {0} \cup Samples /\ nsSet \in BOOLEAN
  /\ about \in Abouts /\ isErr \in BOOLEAN
  /\ nt \in [Rank -> 0 .. MaxNt]
  /\ stalent \in [Rank -> BOOLEAN] /\ resize \in [Rank -> BOOLEAN]
  /\ size \in Nat /\ header \in [ns : Nat, about : Abouts]
  /\ DOMAIN content \subseteq HOSz .. size - 1
  /\ \A l \in DOMAIN content : content[l] \in Cell /\ l = Loc(content[l], ns)
  /\ FoundNt \in Nat

(***************************************************************************)
(* Safety: a process that takes its count for current has that of all; so  *)
(* in particular all of them give the file the same size.                  *)
(***************************************************************************)
CountKnown ==
  /\ \A r \in Rank : ~stalent[r] => nt[r] = Max({nt[s] : s \in Rank})
  /\ \A r \in Rank : pc[r] = "size" => ~stalent[r]

\* The traces there are to be read, when the file is closed without error.
Held == {content[l] : l \in DOMAIN content}

Closed == ~isErr /\ \A r \in Rank : pc[r] \in {"close", "closed"}

\* What a reader is told of a trace that is there is that trace.
Right(part, p, got) ==
  [part |-> part, place |-> p] \in Held => got = [part |-> part, place |-> p]

Lists == BoundedSeq(Place \cap (0 .. FoundNt - 1), MaxNt) \ {<<>>}

RightInAnyOrder(parts, list) ==
  LET got == ReadNonMonotonic(parts, list)
  IN  got # Died /\ \A part \in parts, k \in DOMAIN list : Right(part, list[k], got[part][k])

(***************************************************************************)
(* Safety: a reader of the closed file finds the header that was given     *)
(* last and, whichever call it uses, for every trace that was written and  *)
(* not cut off that trace, and as many as there are of those it asks for.  *)
(* A list in any order is taken to ask for headers, alone or with the      *)
(* samples, and for one trace at least: see ReadsSamples.                  *)
(***************************************************************************)
ReadsBack ==
  Closed =>
    /\ header = [ns |-> ns, about |-> about]
    /\ \A part \in {"prm", "trc"}, offset \in 0 .. FoundNt, sz \in 0 .. MaxNt :
         LET got == ReadTrace(part, offset, sz) IN
         /\ Len(got) = Cardinality((offset .. offset + sz - 1) \cap (0 .. FoundNt - 1))
         /\ \A k \in DOMAIN got : Right(part, offset + k - 1, got[k])
    /\ \A parts \in {{"prm"}, {"prm", "trc"}}, list \in Lists : RightInAnyOrder(parts, list)

(***************************************************************************)
(* Safety, which the code breaks: samples can be read without headers      *)
(* ("When prm==PIOL_PARAM_NULL only the trace DF is read"), also by a list *)
(* in any order.                                                           *)
(***************************************************************************)
ReadsSamples == Closed => \A list \in Lists : RightInAnyOrder({"trc"}, list)

(***************************************************************************)
(* The file implements its promise: the count is the largest that any      *)
(* process knows of, and after closing what the size says; nothing is left *)
(* of an older file.  Where the number of samples was never given, "the    *)
(* output is likely garbage" (filesegy.hh).                                *)
(***************************************************************************)
Garbage == isErr \/ (~nsSet /\ \E r \in Rank : pc[r] # "open")
Resized == \A r \in Rank : pc[r] \in {"header", "close", "closed"}

Promise == INSTANCE TraceFile WITH
             held  <- Held,
             count <- IF Resized /\ ~Garbage THEN (size - HOSz) \div DOSz(ns)
                      ELSE Max({nt[r] : r \in Rank}),
             state <- IF Garbage THEN "failed" ELSE IF Resized THEN "closed" ELSE "open"

ImplementsPromise == Promise!Spec

\* Liveness: every process gets out of its destructor; none waits there for
\* a call that others leave out.
Terminates == <>(\A r \in Rank : pc[r] = "closed")
=============================================================================
