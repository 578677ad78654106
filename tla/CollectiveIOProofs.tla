------------------------- MODULE CollectiveIOProofs -------------------------
(***************************************************************************)
(* The Data layer keeps its processes in step: for any number of           *)
(* processes, any requests and any limit on the size of a call.            *)
(*                                                                         *)
(* The argument is about barriers.  Between two MPI calls that all         *)
(* processes make together a process may be anywhere, but which call of    *)
(* that kind it comes to next, and with how many passes of its loops still *)
(* to make, is the same for all.                                           *)
(***************************************************************************)
EXTENDS CollectiveIO, SharedFacts

(***************************************************************************)
(* One loop over chunks: the calls it has still to make.                   *)
(***************************************************************************)
Undone(f, sz)    == IF f.i < sz THEN sz - f.i ELSE 0
Left(f, sz, max) == Calls(Undone(f, sz), max) + f.rem

LEMMA LoopBegins ==
  ASSUME NEW sz \in Nat, NEW most \in Nat, sz <= most, NEW max \in Nat \ {0}
  PROVE  /\ Begin(sz, max, most) \in Loop
         /\ Left(Begin(sz, max, most), sz, max) = Calls(most, max)
<1> DEFINE f == Begin(sz, max, most)
<1>1. f.i = 0 /\ f.rem = RemCall(sz, max, most) /\ f = [i |-> 0, rem |-> f.rem]
  BY DEF Begin
<1>2. RemCall(sz, max, most) \in Nat /\ Calls(sz, max) + RemCall(sz, max, most) = Calls(most, max)
  BY SameNumberOfCalls
<1>3. Undone(f, sz) = sz
  BY <1>1 DEF Undone
<1> HIDE DEF f
<1>4. f \in Loop
  BY <1>1, <1>2 DEF Loop
<1>5. Left(f, sz, max) = Calls(most, max)
  BY <1>1, <1>2, <1>3 DEF Left
<1> QED BY <1>4, <1>5 DEF f

LEMMA LoopMore ==
  ASSUME NEW f \in Loop, NEW sz \in Nat, NEW max \in Nat \ {0}
  PROVE  /\ Left(f, sz, max) \in Nat
         /\ More(f, sz) <=> Left(f, sz, max) > 0
<1>1. f.i \in Nat /\ f.rem \in Nat
  BY DEF Loop
<1>2. Undone(f, sz) \in Nat /\ (f.i < sz <=> Undone(f, sz) > 0)
  BY <1>1 DEF Undone
<1> DEFINE u == Undone(f, sz)
           c == Calls(u, max)
<1>3. c \in Nat /\ (u > 0 => c > 0) /\ (u = 0 => c = 0)
  <2>1. c \in Nat /\ Calls(0, max) = 0
    BY <1>2, CallsLeft
  <2>2. ASSUME u > 0 PROVE c > 0
    <3> DEFINE v == IF u < max THEN 0 ELSE u - max
    <3>1. v \in Nat
      BY <1>2
    <3>2. c = 1 + Calls(v, max) /\ Calls(v, max) \in Nat
      BY <1>2, <2>2, <3>1, CallsLeft
    <3> QED BY <3>2
  <2> QED BY <2>1, <2>2
<1> HIDE DEF u, c
<1> QED BY <1>1, <1>2, <1>3 DEF Left, More, u, c

LEMMA LoopAdvances ==
  ASSUME NEW f \in Loop, NEW sz \in Nat, NEW max \in Nat \ {0}, More(f, sz)
  PROVE  /\ Advance(f, sz, max) \in Loop
         /\ Left(Advance(f, sz, max), sz, max) = Left(f, sz, max) - 1
<1> DEFINE g == Advance(f, sz, max)
<1>1. f.i \in Nat /\ f.rem \in Nat
  BY DEF Loop
<1>2. CASE f.i < sz
  <2>1. g = [f EXCEPT !.i = @ + max]
    BY <1>2 DEF Advance
  <2> HIDE DEF g
  <2>2. g \in Loop /\ g.i = f.i + max /\ g.rem = f.rem
    BY <1>1, <2>1 DEF Loop
  <2> DEFINE u == Undone(f, sz)
             v == Undone(g, sz)
  <2>3. u \in Nat /\ u > 0 /\ v = IF u < max THEN 0 ELSE u - max
    BY <1>1, <1>2, <2>2 DEF Undone
  <2> HIDE DEF u, v
  <2>4. v \in Nat
    BY <2>3
  <2>5. Calls(u, max) = 1 + Calls(v, max) /\ Calls(v, max) \in Nat
    BY <2>3, <2>4, CallsLeft
  <2> QED BY <1>1, <2>2, <2>5 DEF Left, u, v, g
<1>3. CASE ~(f.i < sz)
  <2>1. g = [f EXCEPT !.rem = @ - 1] /\ f.rem > 0
    BY <1>1, <1>3 DEF Advance, More
  <2> HIDE DEF g
  <2>2. g \in Loop /\ g.i = f.i /\ g.rem = f.rem - 1
    BY <1>1, <2>1 DEF Loop
  <2>3. Undone(g, sz) = 0 /\ Undone(f, sz) = 0
    BY <1>1, <1>3, <2>2 DEF Undone
  <2>4. Calls(0, max) \in Nat
    BY CallsLeft
  <2> QED BY <1>1, <2>2, <2>3, <2>4 DEF Left, g
<1> QED BY <1>2, <1>3

LEMMA ChunkBounds ==
  ASSUME NEW f \in Loop, NEW sz \in Nat, NEW max \in Nat \ {0}
  PROVE  Chunk(f, sz, max) \in Nat /\ Chunk(f, sz, max) <= max
BY DEF Loop, Chunk

\* As many units as fit in a size are not larger than it.
LEMMA FitsTimes ==
  ASSUME NEW a \in Nat, NEW b \in Nat \ {0}, NEW n \in Nat, n <= a \div b
  PROVE  n * b <= a
<1>1. a \div b \in Nat /\ a % b \in Nat /\ a = b * (a \div b) + (a % b)
  BY DivFacts
<1> DEFINE q == a \div b
<1>2. b * n <= b * q /\ b * n \in Nat /\ b * q \in Nat
  BY <1>1, TimesMonotone
<1> HIDE DEF q
<1>3. n * b = b * n
  OBVIOUS
<1> QED BY <1>1, <1>2, <1>3 DEF q

-----------------------------------------------------------------------------
OuterLeft(r) == Left(outer[r], OuterSz(r), MaxChunk(Req(r)))
InnerLeft(r) == Left(inner[r], InnerSz(r), MaxSize)

Statements == {"gather", "view", "regather", "access", "reset", "return", "done"}

Typed == /\ coll \in BOOLEAN
         /\ reqs \in Workloads
         /\ call \in [Rank -> 1 .. Len(reqs)]
         /\ pc \in [Rank -> Statements]
         /\ outer \in [Rank -> Loop]
         /\ inner \in [Rank -> Loop]

\* A process inside a loop has a pass to finish, and is at the calls of its
\* kind of request only.
Going(r) == /\ pc[r] \in {"view", "regather", "reset"} => Kind(r) # "contig" /\ OuterLeft(r) > 0
            /\ pc[r] = "regather" => Kind(r) = "strided"
            /\ pc[r] = "access" => /\ OuterLeft(r) > 0
                                   /\ Kind(r) = "strided" => InnerLeft(r) > 0

(***************************************************************************)
(* The next call a process makes together with all others, from request c, *)
(* place p, the kind of the request and the passes left: the number of the *)
(* request, the call, and the passes left there.  A data access that is    *)
(* not collective is no barrier.                                           *)
(***************************************************************************)
NextCall(c, p, kind, ol, il) ==
  IF p \in {"return", "done"} \/ (p = "access" /\ ~coll /\ kind = "contig")
  THEN [n |-> c + 1, at |-> "gather", outer |-> 0, inner |-> 0]
  ELSE IF p = "gather" THEN [n |-> c, at |-> "gather", outer |-> 0, inner |-> 0]
  ELSE IF p = "access" /\ ~coll THEN [n |-> c, at |-> "reset", outer |-> ol, inner |-> 0]
  ELSE [n |-> c, at |-> p, outer |-> ol,
        inner |-> IF p = "access" /\ kind = "strided" THEN il ELSE 0]

Barrier(r) == NextCall(call[r], pc[r], Kind(r), OuterLeft(r), InnerLeft(r))

Together == \A r, s \in Rank : Barrier(r) = Barrier(s)

IInv == Typed /\ (\A r \in Rank : Going(r)) /\ Together

LEMMA ReqFacts ==
  ASSUME Typed, NEW r \in Rank
  PROVE  /\ Sound(Req(r)) /\ Kind(r) \in Requests
         /\ MaxChunk(Req(r)) \in Nat \ {0} /\ OuterSz(r) \in Nat
         /\ OuterChunk(r) \in Nat /\ OuterChunk(r) <= MaxChunk(Req(r))
         /\ InnerSz(r) \in Nat
         /\ InnerChunk(r) \in Nat /\ InnerChunk(r) <= MaxSize
         /\ OuterLeft(r) \in Nat /\ (More(outer[r], OuterSz(r)) <=> OuterLeft(r) > 0)
         /\ InnerLeft(r) \in Nat /\ (More(inner[r], InnerSz(r)) <=> InnerLeft(r) > 0)
<1>1. Sound(Req(r))
  BY WorkloadsAssumption DEF Typed, Req
<1>2. /\ Kind(r) \in Requests /\ MaxChunk(Req(r)) \in Nat \ {0}
      /\ OuterSz(r) \in Nat /\ Req(r).bsz \in Nat
  BY <1>1 DEF Sound, Kind, OuterSz
<1>3. outer[r] \in Loop /\ inner[r] \in Loop
  BY DEF Typed
<1>4. OuterChunk(r) \in Nat /\ OuterChunk(r) <= MaxChunk(Req(r))
  BY <1>2, <1>3, ChunkBounds DEF OuterChunk
<1>5. InnerSz(r) \in Nat
  BY <1>2, <1>4 DEF InnerSz
<1>6. InnerChunk(r) \in Nat /\ InnerChunk(r) <= MaxSize
  BY <1>3, <1>5, ChunkBounds, MaxSizeAssumption DEF InnerChunk
<1>7. OuterLeft(r) \in Nat /\ (More(outer[r], OuterSz(r)) <=> OuterLeft(r) > 0)
  BY <1>2, <1>3, LoopMore DEF OuterLeft
<1>8. InnerLeft(r) \in Nat /\ (More(inner[r], InnerSz(r)) <=> InnerLeft(r) > 0)
  BY <1>3, <1>5, LoopMore, MaxSizeAssumption DEF InnerLeft
<1> QED BY <1>1, <1>2, <1>4, <1>5, <1>6, <1>7, <1>8

LEMMA SameRequest ==
  ASSUME UNCHANGED <<reqs, call>>, NEW r \in Rank
  PROVE  Req(r)' = Req(r) /\ Kind(r)' = Kind(r) /\ OuterSz(r)' = OuterSz(r)
BY DEF Req, Kind, OuterSz

\* Where the processes are when all are at a call they make together.
LEMMA AtBarrier ==
  ASSUME IInv, NEW r \in Rank, NEW s \in Rank,
         \/ pc[r] \in {"gather", "regather"} /\ pc[s] \in {"gather", "regather"}
         \/ pc[r] \in {"view", "reset"} /\ pc[s] \in {"view", "reset"}
         \/ coll /\ pc[r] = "access" /\ pc[s] = "access"
  PROVE  /\ call[r] = call[s] /\ pc[r] = pc[s] /\ Req(r) = Req(s) /\ Kind(r) = Kind(s)
         /\ pc[r] # "gather" => OuterLeft(r) = OuterLeft(s)
         /\ pc[r] = "access" /\ Kind(r) = "strided" => InnerLeft(r) = InnerLeft(s)
<1>1. Barrier(r) = Barrier(s)
  BY DEF IInv, Together
<1>2. coll \in BOOLEAN
  BY DEF IInv, Typed
<1>3. call[r] = call[s]
  BY <1>1, <1>2 DEF Barrier, NextCall
<1>4. Req(r) = Req(s) /\ Kind(r) = Kind(s)
  BY <1>3 DEF Req, Kind
<1>5. pc[r] = pc[s]
  BY <1>1, <1>2 DEF Barrier, NextCall
<1>6. pc[r] # "gather" => OuterLeft(r) = OuterLeft(s)
  BY <1>1, <1>2, <1>5 DEF Barrier, NextCall
<1>7. pc[r] = "access" /\ Kind(r) = "strided" => InnerLeft(r) = InnerLeft(s)
  BY <1>1, <1>2, <1>4, <1>5 DEF Barrier, NextCall
<1> QED BY <1>3, <1>4, <1>5, <1>6, <1>7
-----------------------------------------------------------------------------
(***************************************************************************)
(* The gather: each process learns how many calls the busiest one makes,   *)
(* and so all of them have that many to make.                              *)
(***************************************************************************)
LEMMA GatherStep == IInv /\ Gather => IInv'
<1> SUFFICES ASSUME IInv, Gather PROVE IInv'
  OBVIOUS
<1> DEFINE sz == [r \in Rank |-> IF pc[r] = "gather" THEN OuterSz(r) ELSE InnerSz(r)]
           most == Max({sz[r] : r \in Rank})
<1>1. Typed /\ coll \in BOOLEAN
  BY DEF IInv, Typed
<1>2. /\ \A r \in Rank : pc[r] \in {"gather", "regather"}
      /\ UNCHANGED <<coll, reqs, call, view, moved, err>>
  BY DEF Gather
<1>3. most \in Nat /\ \A r \in Rank : sz[r] <= most
  <2>1. sz \in [Rank -> Nat]
    BY <1>1, ReqFacts
  <2> HIDE DEF sz
  <2> QED BY <2>1, Busiest
<1>4. Max({IF pc[r] = "gather" THEN OuterSz(r) ELSE InnerSz(r) : r \in Rank}) = most
  <2>1. {IF pc[r] = "gather" THEN OuterSz(r) ELSE InnerSz(r) : r \in Rank} = {sz[r] : r \in Rank}
    OBVIOUS
  <2> QED BY <2>1
<1> HIDE DEF most
<1>5. /\ outer' = [r \in Rank |-> IF pc[r] = "gather"
                                  THEN Begin(OuterSz(r), MaxChunk(Req(r)), most) ELSE outer[r]]
      /\ inner' = [r \in Rank |-> IF pc[r] = "regather"
                                  THEN Begin(InnerSz(r), MaxSize, most) ELSE inner[r]]
      /\ pc' = [r \in Rank |-> IF pc[r] = "gather" THEN OuterHead(r, outer'[r])
                                                   ELSE InnerHead(r, inner'[r])]
  BY <1>4 DEF Gather
<1> HIDE DEF sz
<1>6. ASSUME NEW r \in Rank
      PROVE  /\ Req(r)' = Req(r) /\ Kind(r)' = Kind(r) /\ OuterSz(r)' = OuterSz(r)
             /\ MaxChunk(Req(r)) \in Nat \ {0} /\ OuterSz(r) \in Nat /\ InnerSz(r) \in Nat
             /\ Kind(r) \in Requests
             /\ call'[r] = call[r]
  BY <1>1, <1>2, ReqFacts, SameRequest
<1>7. CASE \E r \in Rank : pc[r] = "gather"
  <2>1. \A r \in Rank : pc[r] = "gather"
    BY <1>2, <1>7, AtBarrier
  <2>2. ASSUME NEW r \in Rank
        PROVE  /\ outer'[r] \in Loop
               /\ OuterLeft(r)' = Calls(most, MaxChunk(Req(r)))
    <3>1. sz[r] = OuterSz(r) /\ outer'[r] = Begin(OuterSz(r), MaxChunk(Req(r)), most)
      BY <1>5, <2>1 DEF sz
    <3>2. OuterSz(r) <= most
      BY <1>3, <3>1
    <3>3. outer'[r] \in Loop /\ Left(outer'[r], OuterSz(r), MaxChunk(Req(r))) = Calls(most, MaxChunk(Req(r)))
      BY <1>3, <1>6, <3>1, <3>2, LoopBegins
    <3> QED BY <1>6, <3>3 DEF OuterLeft
  <2>3. ASSUME NEW r \in Rank
        PROVE  /\ OuterLeft(r)' \in Nat
               /\ pc'[r] = IF OuterLeft(r)' = 0 THEN "return"
                           ELSE IF Kind(r) = "contig" THEN "access" ELSE "view"
    <3>1. pc'[r] = OuterHead(r, outer'[r])
      BY <1>5, <2>1
    <3>2. OuterLeft(r)' \in Nat /\ (More(outer'[r], OuterSz(r)) <=> OuterLeft(r)' > 0)
      BY <1>6, <2>2, LoopMore DEF OuterLeft
    <3> QED BY <3>1, <3>2 DEF OuterHead
  <2>4. Typed'
    <3>1. outer' \in [Rank -> Loop]
      BY <1>5, <2>2
    <3>2. inner' \in [Rank -> Loop]
      BY <1>1, <1>5, <2>1 DEF Typed
    <3>3. pc' \in [Rank -> Statements]
      BY <1>5, <2>3 DEF Statements
    <3> QED BY <1>1, <1>2, <3>1, <3>2, <3>3 DEF Typed
  <2>5. \A r \in Rank : Going(r)'
    BY <1>6, <2>3 DEF Going, Requests
  <2>6. ASSUME NEW r \in Rank, NEW s \in Rank
        PROVE  Barrier(r)' = Barrier(s)'
    <3>1. call[r] = call[s] /\ Req(r) = Req(s) /\ Kind(r) = Kind(s)
      BY <2>1, AtBarrier
    <3>2. OuterLeft(r)' = OuterLeft(s)'
      BY <2>2, <3>1
    <3>3. pc'[r] = pc'[s]
      BY <2>3, <3>1, <3>2
    <3>4. pc'[r] = "access" => Kind(r) # "strided"
      BY <2>3
    <3> QED BY <1>2, <1>6, <3>1, <3>2, <3>3, <3>4 DEF Barrier, NextCall
  <2> QED BY <2>4, <2>5, <2>6 DEF IInv, Together
<1>8. CASE ~\E r \in Rank : pc[r] = "gather"
  <2>1. \A r \in Rank : pc[r] = "regather" /\ Kind(r) = "strided" /\ OuterLeft(r) > 0
    BY <1>2, <1>8 DEF IInv, Going
  <2>2. \A r \in Rank : outer'[r] = outer[r] /\ OuterLeft(r)' = OuterLeft(r) /\ InnerSz(r)' = InnerSz(r)
    BY <1>5, <1>6, <2>1 DEF OuterLeft, InnerSz, OuterChunk
  <2>3. ASSUME NEW r \in Rank
        PROVE  /\ inner'[r] \in Loop
               /\ InnerLeft(r)' = Calls(most, MaxSize)
    <3>1. sz[r] = InnerSz(r) /\ inner'[r] = Begin(InnerSz(r), MaxSize, most)
      BY <1>5, <2>1 DEF sz
    <3>2. InnerSz(r) <= most
      BY <1>3, <3>1
    <3>3. inner'[r] \in Loop /\ Left(inner'[r], InnerSz(r), MaxSize) = Calls(most, MaxSize)
      BY <1>3, <1>6, <3>1, <3>2, LoopBegins, MaxSizeAssumption
    <3> QED BY <2>2, <3>3 DEF InnerLeft
  <2>4. ASSUME NEW r \in Rank
        PROVE  /\ InnerLeft(r)' \in Nat
               /\ pc'[r] = IF InnerLeft(r)' = 0 THEN "reset" ELSE "access"
    <3>1. pc'[r] = InnerHead(r, inner'[r])
      BY <1>5, <2>1
    <3>2. InnerLeft(r)' \in Nat /\ (More(inner'[r], InnerSz(r)) <=> InnerLeft(r)' > 0)
      BY <1>6, <2>2, <2>3, LoopMore, MaxSizeAssumption DEF InnerLeft
    <3> QED BY <3>1, <3>2 DEF InnerHead
  <2>5. Typed'
    <3>1. outer' \in [Rank -> Loop]
      BY <1>1, <1>5, <2>1 DEF Typed
    <3>2. inner' \in [Rank -> Loop]
      BY <1>5, <2>3
    <3>3. pc' \in [Rank -> Statements]
      BY <1>5, <2>4 DEF Statements
    <3> QED BY <1>1, <1>2, <3>1, <3>2, <3>3 DEF Typed
  <2>6. \A r \in Rank : Going(r)'
    BY <1>6, <2>1, <2>2, <2>4 DEF Going
  <2>7. ASSUME NEW r \in Rank, NEW s \in Rank
        PROVE  Barrier(r)' = Barrier(s)'
    <3>1. call[r] = call[s] /\ Kind(r) = Kind(s) /\ OuterLeft(r) = OuterLeft(s)
      BY <2>1, AtBarrier
    <3>2. InnerLeft(r)' = InnerLeft(s)' /\ pc'[r] = pc'[s]
      BY <2>3, <2>4
    <3> QED BY <1>2, <1>6, <2>2, <3>1, <3>2 DEF Barrier, NextCall
  <2> QED BY <2>5, <2>6, <2>7 DEF IInv, Together
<1> QED BY <1>7, <1>8

(***************************************************************************)
(* The views are set and reset by all processes together; behind the reset *)
(* each has one pass less to make.                                         *)
(***************************************************************************)
LEMMA SetViewStep == IInv /\ SetView => IInv'
<1> SUFFICES ASSUME IInv, SetView PROVE IInv'
  OBVIOUS
<1>1. Typed /\ coll \in BOOLEAN
  BY DEF IInv, Typed
<1>2. /\ \A r \in Rank : pc[r] \in {"view", "reset"}
      /\ outer' = [r \in Rank |-> IF pc[r] = "reset" THEN OuterNext(r) ELSE outer[r]]
      /\ pc' = [r \in Rank |-> IF pc[r] = "reset" THEN OuterHead(r, outer'[r])
                               ELSE IF Kind(r) = "strided" THEN "regather" ELSE "access"]
      /\ UNCHANGED <<coll, reqs, call, inner, moved, err>>
  BY DEF SetView
<1>3. ASSUME NEW r \in Rank
      PROVE  /\ Req(r)' = Req(r) /\ Kind(r)' = Kind(r) /\ OuterSz(r)' = OuterSz(r)
             /\ MaxChunk(Req(r)) \in Nat \ {0} /\ OuterSz(r) \in Nat
             /\ Kind(r) \in Requests /\ Kind(r) # "contig"
             /\ OuterLeft(r) \in Nat /\ OuterLeft(r) > 0 /\ More(outer[r], OuterSz(r))
             /\ outer[r] \in Loop /\ call'[r] = call[r]
  <2>1. outer[r] \in Loop
    BY <1>1 DEF Typed
  <2>2. Kind(r) # "contig" /\ OuterLeft(r) > 0
    BY <1>2 DEF IInv, Going
  <2>3. /\ Req(r)' = Req(r) /\ Kind(r)' = Kind(r) /\ OuterSz(r)' = OuterSz(r)
        /\ call'[r] = call[r]
    BY <1>2, SameRequest
  <2> QED BY <1>1, <2>1, <2>2, <2>3, ReqFacts
<1>4. ASSUME NEW r \in Rank
      PROVE  /\ outer'[r] \in Loop
             /\ OuterLeft(r)' = IF pc[r] = "reset" THEN OuterLeft(r) - 1 ELSE OuterLeft(r)
  <2>1. CASE pc[r] = "reset"
    <3>1. outer'[r] = Advance(outer[r], OuterSz(r), MaxChunk(Req(r)))
      BY <1>2, <2>1 DEF OuterNext
    <3>2. /\ outer'[r] \in Loop
          /\ Left(outer'[r], OuterSz(r), MaxChunk(Req(r))) = OuterLeft(r) - 1
      BY <1>3, <3>1, LoopAdvances DEF OuterLeft
    <3> QED BY <1>3, <2>1, <3>2 DEF OuterLeft
  <2>2. CASE pc[r] # "reset"
    BY <1>2, <1>3, <2>2 DEF OuterLeft
  <2> QED BY <2>1, <2>2
<1>5. ASSUME NEW r \in Rank
      PROVE  pc'[r] = IF pc[r] = "reset" THEN IF OuterLeft(r)' = 0 THEN "return" ELSE "view"
                      ELSE IF Kind(r) = "strided" THEN "regather" ELSE "access"
  <2>1. OuterLeft(r)' \in Nat /\ (More(outer'[r], OuterSz(r)) <=> OuterLeft(r)' > 0)
    BY <1>3, <1>4, LoopMore DEF OuterLeft
  <2> QED BY <1>2, <1>3, <2>1 DEF OuterHead
<1>6. Typed'
  <2>1. outer' \in [Rank -> Loop]
    BY <1>2, <1>4
  <2>2. pc' \in [Rank -> Statements]
    BY <1>2, <1>5 DEF Statements
  <2> QED BY <1>1, <1>2, <2>1, <2>2 DEF Typed
<1>7. ASSUME NEW r \in Rank
      PROVE  Going(r)'
  BY <1>2, <1>3, <1>4, <1>5 DEF Going
<1>8. ASSUME NEW r \in Rank, NEW s \in Rank
      PROVE  Barrier(r)' = Barrier(s)'
  <2>1. call[r] = call[s] /\ pc[r] = pc[s] /\ Kind(r) = Kind(s) /\ OuterLeft(r) = OuterLeft(s)
    BY <1>2, AtBarrier
  <2>2. OuterLeft(r)' = OuterLeft(s)' /\ pc'[r] = pc'[s]
    BY <1>4, <1>5, <2>1
  <2>3. pc'[r] = "access" => Kind(r) # "strided"
    BY <1>5
  <2> QED BY <1>2, <1>3, <2>1, <2>2, <2>3 DEF Barrier, NextCall
<1> QED BY <1>6, <1>7, <1>8 DEF IInv, Together

(***************************************************************************)
(* A data access takes a pass off the loop of contigIO it is in, which in  *)
(* readv and writev is the inner one.                                      *)
(***************************************************************************)
LEMMA OneAccess ==
  ASSUME IInv, NEW S \in SUBSET Rank, NEW F, AccessBy(S, F), NEW r \in Rank
  PROVE  /\ Kind(r)' = Kind(r) /\ call'[r] = call[r] /\ Kind(r) \in Requests
         /\ outer'[r] \in Loop /\ inner'[r] \in Loop /\ pc'[r] \in Statements
         /\ OuterLeft(r) \in Nat /\ InnerLeft(r) \in Nat
         /\ r \in S =>
              /\ pc[r] = "access"
              /\ OuterLeft(r) > 0
              /\ Kind(r) = "contig" =>
                   /\ OuterLeft(r)' = OuterLeft(r) - 1
                   /\ pc'[r] = IF OuterLeft(r)' = 0 THEN "return" ELSE "access"
              /\ Kind(r) = "strided" =>
                   /\ OuterLeft(r)' = OuterLeft(r)
                   /\ InnerLeft(r)' = InnerLeft(r) - 1
                   /\ pc'[r] = IF InnerLeft(r)' = 0 THEN "reset" ELSE "access"
              /\ Kind(r) = "list" =>
                   OuterLeft(r)' = OuterLeft(r) /\ pc'[r] = "reset"
         /\ r \notin S =>
              /\ pc'[r] = pc[r]
              /\ OuterLeft(r)' = OuterLeft(r) /\ InnerLeft(r)' = InnerLeft(r)
<1>1. /\ r \in S => pc[r] = "access"
      /\ inner'[r] = IF r \in S /\ Kind(r) = "strided" THEN InnerNext(r) ELSE inner[r]
      /\ outer'[r] = IF r \in S /\ Kind(r) = "contig" THEN OuterNext(r) ELSE outer[r]
      /\ pc'[r] = IF r \notin S THEN pc[r]
                  ELSE IF Kind(r) = "contig" THEN OuterHead(r, outer'[r])
                  ELSE IF Kind(r) = "strided" THEN InnerHead(r, inner'[r])
                  ELSE "reset"
      /\ UNCHANGED <<reqs, call>>
  BY DEF AccessBy
<1>2. /\ Req(r)' = Req(r) /\ Kind(r)' = Kind(r) /\ OuterSz(r)' = OuterSz(r)
      /\ call'[r] = call[r]
  BY <1>1, SameRequest
<1>3. Typed /\ Going(r) /\ outer[r] \in Loop /\ inner[r] \in Loop /\ pc[r] \in Statements
  BY DEF IInv, Typed
<1>4. /\ Kind(r) \in Requests
      /\ MaxChunk(Req(r)) \in Nat \ {0} /\ OuterSz(r) \in Nat /\ InnerSz(r) \in Nat
      /\ OuterLeft(r) \in Nat /\ (More(outer[r], OuterSz(r)) <=> OuterLeft(r) > 0)
      /\ InnerLeft(r) \in Nat /\ (More(inner[r], InnerSz(r)) <=> InnerLeft(r) > 0)
  BY <1>3, ReqFacts
<1>5. CASE r \notin S
  BY <1>1, <1>2, <1>3, <1>4, <1>5 DEF OuterLeft, InnerLeft, InnerSz, OuterChunk
<1>6. CASE r \in S /\ Kind(r) = "contig"
  <2>1. OuterLeft(r) > 0
    BY <1>1, <1>3, <1>6 DEF Going
  <2>2. outer'[r] = Advance(outer[r], OuterSz(r), MaxChunk(Req(r))) /\ inner'[r] = inner[r]
    BY <1>1, <1>6 DEF OuterNext
  <2>3. /\ outer'[r] \in Loop
        /\ OuterLeft(r)' = OuterLeft(r) - 1
    BY <1>2, <1>3, <1>4, <2>1, <2>2, LoopAdvances DEF OuterLeft
  <2>4. More(outer'[r], OuterSz(r)) <=> OuterLeft(r)' > 0
    BY <1>2, <1>4, <2>3, LoopMore DEF OuterLeft
  <2>5. pc'[r] = OuterHead(r, outer'[r])
    BY <1>1, <1>6
  <2>6. pc'[r] = IF OuterLeft(r)' = 0 THEN "return" ELSE "access"
    BY <1>4, <1>6, <2>1, <2>3, <2>4, <2>5 DEF OuterHead
  <2> QED BY <1>1, <1>2, <1>3, <1>4, <1>6, <2>1, <2>2, <2>3, <2>6 DEF Statements
<1>7. CASE r \in S /\ Kind(r) = "strided"
  <2>1. OuterLeft(r) > 0 /\ InnerLeft(r) > 0
    BY <1>1, <1>3, <1>7 DEF Going
  <2>2. inner'[r] = Advance(inner[r], InnerSz(r), MaxSize) /\ outer'[r] = outer[r]
    BY <1>1, <1>7 DEF InnerNext
  <2>3. OuterLeft(r)' = OuterLeft(r) /\ InnerSz(r)' = InnerSz(r)
    BY <1>2, <2>2 DEF OuterLeft, InnerSz, OuterChunk
  <2>4. /\ inner'[r] \in Loop
        /\ InnerLeft(r)' = InnerLeft(r) - 1
    BY <1>3, <1>4, <2>1, <2>2, <2>3, LoopAdvances, MaxSizeAssumption DEF InnerLeft
  <2>5. More(inner'[r], InnerSz(r)) <=> InnerLeft(r)' > 0
    BY <1>4, <2>3, <2>4, LoopMore, MaxSizeAssumption DEF InnerLeft
  <2>6. pc'[r] = InnerHead(r, inner'[r])
    BY <1>1, <1>7
  <2>7. pc'[r] = IF InnerLeft(r)' = 0 THEN "reset" ELSE "access"
    BY <1>4, <2>1, <2>4, <2>5, <2>6 DEF InnerHead
  <2> QED BY <1>1, <1>2, <1>3, <1>4, <1>7, <2>1, <2>2, <2>3, <2>4, <2>7 DEF Statements
<1>8. CASE r \in S /\ Kind(r) = "list"
  <2>1. OuterLeft(r) > 0
    BY <1>1, <1>3, <1>8 DEF Going
  <2>2. outer'[r] = outer[r] /\ inner'[r] = inner[r] /\ pc'[r] = "reset"
    BY <1>1, <1>8
  <2>3. OuterLeft(r)' = OuterLeft(r)
    BY <1>2, <2>2 DEF OuterLeft
  <2> QED BY <1>1, <1>2, <1>3, <1>4, <1>8, <2>1, <2>2, <2>3 DEF Statements
<1> QED BY <1>4, <1>5, <1>6, <1>7, <1>8 DEF Requests

(***************************************************************************)
(* If it is collective all processes make it together; if it is not, each  *)
(* makes its own, and that does not change which call they meet at next.   *)
(***************************************************************************)
LEMMA AccessStep == IInv /\ DataAccess => IInv'
<1> SUFFICES ASSUME IInv, DataAccess PROVE IInv'
  OBVIOUS
<1>0. PICK S \in (IF coll THEN {Rank} ELSE {{r} : r \in Rank}) :
        \E F \in SUBSET {r \in S : Kind(r) \in Faulty} : AccessBy(S, F)
  BY DEF DataAccess
<1>1. PICK F \in SUBSET {r \in S : Kind(r) \in Faulty} : AccessBy(S, F)
  BY <1>0
<1>2. S \in SUBSET Rank /\ (coll => S = Rank) /\ coll \in BOOLEAN
  BY <1>0 DEF IInv, Typed
<1>3. coll' = coll /\ reqs' = reqs /\ call' = call
  BY <1>1 DEF AccessBy
<1>4. Typed'
  <2>1. \A r \in Rank : outer'[r] \in Loop /\ inner'[r] \in Loop /\ pc'[r] \in Statements
    BY <1>1, <1>2, OneAccess
  <2>2. outer' \in [Rank -> Loop] /\ inner' \in [Rank -> Loop] /\ pc' \in [Rank -> Statements]
    BY <1>1, <2>1 DEF AccessBy
  <2> QED BY <1>3, <2>2 DEF IInv, Typed
<1>5. ASSUME NEW r \in Rank
      PROVE  Going(r)'
  <2>1. Going(r)
    BY DEF IInv
  <2>2. CASE r \in S
    <3>1. CASE Kind(r) = "contig"
      BY <1>1, <1>2, <2>2, <3>1, OneAccess DEF Going
    <3>2. CASE Kind(r) = "strided"
      BY <1>1, <1>2, <2>1, <2>2, <3>2, OneAccess DEF Going
    <3>3. CASE Kind(r) = "list"
      BY <1>1, <1>2, <2>2, <3>3, OneAccess DEF Going
    <3> QED BY <1>1, <1>2, <3>1, <3>2, <3>3, OneAccess DEF Requests
  <2>3. CASE r \notin S
    BY <1>1, <1>2, <2>1, <2>3, OneAccess DEF Going
  <2> QED BY <2>2, <2>3
<1>6. ASSUME NEW r \in Rank, NEW s \in Rank
      PROVE  Barrier(r)' = Barrier(s)'
  <2>1. CASE coll
    <3>1. r \in S /\ s \in S /\ pc[r] = "access" /\ pc[s] = "access"
      BY <1>1, <1>2, <2>1, OneAccess
    <3>2. /\ call[r] = call[s] /\ Kind(r) = Kind(s) /\ OuterLeft(r) = OuterLeft(s)
          /\ Kind(r) = "strided" => InnerLeft(r) = InnerLeft(s)
      BY <2>1, <3>1, AtBarrier
    <3>3. /\ OuterLeft(r)' = OuterLeft(s)' /\ pc'[r] = pc'[s]
          /\ Kind(r) = "strided" => InnerLeft(r)' = InnerLeft(s)'
      <4>1. CASE Kind(r) = "contig"
        BY <1>1, <1>2, <3>1, <3>2, <4>1, OneAccess
      <4>2. CASE Kind(r) = "strided"
        BY <1>1, <1>2, <3>1, <3>2, <4>2, OneAccess
      <4>3. CASE Kind(r) = "list"
        BY <1>1, <1>2, <3>1, <3>2, <4>3, OneAccess
      <4> QED BY <1>1, <1>2, <4>1, <4>2, <4>3, OneAccess DEF Requests
    <3>4. Kind(r)' = Kind(r) /\ Kind(s)' = Kind(s) /\ call'[r] = call[r] /\ call'[s] = call[s]
      BY <1>1, <1>2, OneAccess
    <3> QED BY <1>3, <3>2, <3>3, <3>4 DEF Barrier, NextCall
  <2>2. ASSUME ~coll, NEW q \in Rank
        PROVE  Barrier(q)' = Barrier(q)
    <3>1. ~coll'
      BY <1>3, <2>2
    <3>2. Kind(q)' = Kind(q) /\ call'[q] = call[q] /\ Kind(q) \in Requests
      BY <1>1, <1>2, OneAccess
    <3>3. CASE q \notin S
      BY <1>1, <1>2, <2>2, <3>1, <3>2, <3>3, OneAccess DEF Barrier, NextCall
    <3>4. CASE q \in S /\ Kind(q) = "contig"
      <4>1. pc[q] = "access" /\ pc'[q] \in {"return", "access"}
        BY <1>1, <1>2, <3>4, OneAccess
      <4> QED BY <2>2, <3>1, <3>2, <3>4, <4>1 DEF Barrier, NextCall
    <3>5. CASE q \in S /\ Kind(q) # "contig"
      <4>1. pc[q] = "access" /\ pc'[q] \in {"reset", "access"} /\ OuterLeft(q)' = OuterLeft(q)
        BY <1>1, <1>2, <3>2, <3>5, OneAccess DEF Requests
      <4> QED BY <2>2, <3>1, <3>2, <3>5, <4>1 DEF Barrier, NextCall
    <3> QED BY <3>3, <3>4, <3>5
  <2>3. CASE ~coll
    BY <2>2, <2>3 DEF IInv, Together
  <2> QED BY <2>1, <2>3
<1> QED BY <1>4, <1>5, <1>6 DEF IInv, Together

LEMMA ReturnStep == ASSUME IInv, NEW q \in Rank, Return(q) PROVE IInv'
<1>1. /\ pc[q] = "return"
      /\ UNCHANGED <<coll, reqs, outer, inner, view>>
  BY DEF Return
<1>2. /\ reqs \in Workloads /\ Len(reqs) \in Nat \ {0} /\ call[q] \in 1 .. Len(reqs)
      /\ call \in [Rank -> 1 .. Len(reqs)] /\ pc \in [Rank -> Statements]
  BY WorkloadsAssumption DEF IInv, Typed
<1>3. \/ /\ call[q] < Len(reqs)
         /\ call' = [call EXCEPT ![q] = @ + 1]
         /\ pc' = [pc EXCEPT ![q] = "gather"]
      \/ call' = call /\ pc' = [pc EXCEPT ![q] = "done"]
  BY DEF Return, Enter
<1>4. Typed'
  <2>1. call' \in [Rank -> 1 .. Len(reqs)]
    <3>1. CASE call[q] < Len(reqs) /\ call' = [call EXCEPT ![q] = @ + 1]
      <4>1. call[q] + 1 \in 1 .. Len(reqs)
        BY <1>2, <3>1
      <4> QED BY <1>2, <3>1, <4>1
    <3> QED BY <1>2, <1>3, <3>1
  <2>2. pc' \in [Rank -> Statements]
    BY <1>2, <1>3 DEF Statements
  <2> QED BY <1>1, <2>1, <2>2 DEF IInv, Typed
<1>5. ASSUME NEW r \in Rank, r # q
      PROVE  Going(r)' /\ Barrier(r)' = Barrier(r)
  <2>1. call'[r] = call[r] /\ pc'[r] = pc[r]
    BY <1>2, <1>3, <1>5
  <2>2. Req(r)' = Req(r) /\ Kind(r)' = Kind(r) /\ OuterSz(r)' = OuterSz(r)
    BY <1>1, <2>1 DEF Req, Kind, OuterSz
  <2>3. OuterLeft(r)' = OuterLeft(r) /\ InnerLeft(r)' = InnerLeft(r)
    BY <1>1, <2>2 DEF OuterLeft, InnerLeft, InnerSz, OuterChunk
  <2>4. Going(r)
    BY DEF IInv
  <2> QED BY <1>1, <2>1, <2>2, <2>3, <2>4 DEF Going, Barrier, NextCall
<1>6. Going(q)' /\ Barrier(q)' = Barrier(q)
  <2>1. \/ pc'[q] = "gather" /\ call'[q] = call[q] + 1
        \/ pc'[q] = "done" /\ call'[q] = call[q]
    BY <1>2, <1>3
  <2> QED BY <1>1, <2>1 DEF Going, Barrier, NextCall
<1>7. Together'
  BY <1>5, <1>6 DEF IInv, Together
<1> QED BY <1>4, <1>5, <1>6, <1>7 DEF IInv

LEMMA InitStep == Init => IInv
<1> SUFFICES ASSUME Init PROVE IInv
  OBVIOUS
<1>1. Len(reqs) \in Nat \ {0} /\ reqs \in Workloads /\ coll \in BOOLEAN
  BY WorkloadsAssumption, ModesAssumption DEF Init
<1>2. \A r \in Rank : call[r] = 1 /\ pc[r] = "gather"
  BY DEF Init, Enter
<1>3. Typed
  <2>1. call \in [Rank -> 1 .. Len(reqs)]
    BY <1>1 DEF Init
  <2>2. pc \in [Rank -> Statements] /\ outer \in [Rank -> Loop] /\ inner \in [Rank -> Loop]
    BY DEF Init, Enter, Statements, Loop
  <2> QED BY <1>1, <2>1, <2>2 DEF Typed
<1>4. \A r \in Rank : Going(r)
  BY <1>2 DEF Going
<1>5. Together
  BY <1>2 DEF Together, Barrier, NextCall
<1> QED BY <1>3, <1>4, <1>5 DEF IInv

LEMMA NextStep == IInv /\ [Next]_vars => IInv'
<1>1. IInv /\ UNCHANGED vars => IInv'
  <2> SUFFICES ASSUME IInv, UNCHANGED vars PROVE IInv'
    OBVIOUS
  <2>1. UNCHANGED <<coll, reqs, call, pc, outer, inner>>
    BY DEF vars
  <2>2. Typed'
    BY <2>1 DEF IInv, Typed
  <2>3. ASSUME NEW r \in Rank
        PROVE  Going(r)' /\ Barrier(r)' = Barrier(r)
    <3>1. Req(r)' = Req(r) /\ Kind(r)' = Kind(r) /\ OuterSz(r)' = OuterSz(r)
      BY <2>1, SameRequest
    <3>2. OuterLeft(r)' = OuterLeft(r) /\ InnerLeft(r)' = InnerLeft(r)
      BY <2>1, <3>1 DEF OuterLeft, InnerLeft, InnerSz, OuterChunk
    <3> QED BY <2>1, <3>1, <3>2 DEF IInv, Going, Barrier, NextCall
  <2>4. Together'
    BY <2>3 DEF IInv, Together
  <2> QED BY <2>2, <2>3, <2>4 DEF IInv
<1> QED BY <1>1, GatherStep, SetViewStep, AccessStep, ReturnStep DEF Next, Finished

(***************************************************************************)
(* Whatever the processes ask for, they meet at the same calls with the    *)
(* same number of passes left, whether data access is collective or not.   *)
(***************************************************************************)
THEOREM MeetAtBarriers == Spec => []IInv
BY InitStep, NextStep, PTL DEF Spec

(***************************************************************************)
(* No gather, view or collective data access completes with processes      *)
(* that are in different requests or at different statements of one.       *)
(***************************************************************************)
THEOREM AlwaysInStep == Spec => InStep
<1>1. IInv => [Gather \/ SetView \/ (coll /\ DataAccess) =>
                 \A r, s \in Rank : call[r] = call[s] /\ pc[r] = pc[s]]_vars
  <2> SUFFICES ASSUME IInv, Gather \/ SetView \/ (coll /\ DataAccess),
                      NEW r \in Rank, NEW s \in Rank
               PROVE  call[r] = call[s] /\ pc[r] = pc[s]
    OBVIOUS
  <2>1. CASE Gather
    BY <2>1, AtBarrier DEF Gather
  <2>2. CASE SetView
    BY <2>2, AtBarrier DEF SetView
  <2>3. CASE coll /\ DataAccess
    <3>1. pc[r] = "access" /\ pc[s] = "access"
      BY <2>3 DEF DataAccess, AccessBy
    <3> QED BY <2>3, <3>1, AtBarrier
  <2> QED BY <2>1, <2>2, <2>3
<1> QED BY <1>1, MeetAtBarriers, PTL DEF Spec, InStep

(***************************************************************************)
(* No count and no extent that is handed to MPI exceeds the largest C int. *)
(***************************************************************************)
THEOREM CountsAlwaysFit == Spec => []CountsFit
<1>1. ASSUME IInv, NEW r \in Rank
      PROVE  /\ pc[r] = "access" => Access(r).n <= MaxSize
             /\ pc[r] = "view" /\ Kind(r) = "strided" => OuterChunk(r) * Req(r).osz <= MaxSize
  <2> DEFINE q == Req(r)
             n == OuterChunk(r)
  <2>1. /\ Sound(q) /\ n \in Nat /\ n <= MaxChunk(q) /\ MaxChunk(q) \in Nat
        /\ InnerChunk(r) <= MaxSize /\ MaxSize \in Nat /\ Kind(r) = q.kind
    BY <1>1, ReqFacts, MaxSizeAssumption DEF IInv, Kind
  <2>2. q.bsz \in Nat /\ (q.kind = "strided" => q.osz \in Nat \ {0}) /\ q.kind \in Requests
    BY <2>1 DEF Sound
  <2>3. CASE q.kind = "contig"
    <3>1. n <= MaxSize /\ Access(r).n = n
      BY <2>1, <2>3 DEF MaxChunk, Access
    <3> QED BY <2>1, <2>3, <3>1
  <2>4. CASE q.kind = "strided"
    <3>1. Access(r).n = InnerChunk(r)
      BY <2>4 DEF Access
    <3>2. MaxChunk(q) = MaxSize \div q.osz
      BY <2>4 DEF MaxChunk
    <3>3. n * q.osz <= MaxSize
      BY <2>1, <2>2, <2>4, <3>2, FitsTimes
    <3> QED BY <2>1, <2>4, <3>1, <3>3
  <2>5. CASE q.kind = "list"
    <3>1. Access(r).n = n * q.bsz
      BY <2>5 DEF Access
    <3>2. n * q.bsz <= MaxSize
      <4>1. CASE q.bsz = 0
        BY <2>1, <4>1
      <4>2. CASE q.bsz > 0
        <5>1. MaxChunk(q) = MaxSize \div (2 * q.bsz) /\ 2 * q.bsz \in Nat \ {0}
          BY <2>2, <2>5, <4>2 DEF MaxChunk
        <5>2. n * (2 * q.bsz) <= MaxSize
          BY <2>1, <5>1, FitsTimes
        <5>3. n * q.bsz \in Nat /\ n * (2 * q.bsz) = (n * q.bsz) + (n * q.bsz)
          BY <2>1, <2>2
        <5> QED BY <2>1, <5>2, <5>3
      <4> QED BY <2>2, <4>1, <4>2
    <3> QED BY <2>1, <2>5, <3>1, <3>2
  <2> QED BY <2>2, <2>3, <2>4, <2>5 DEF Requests
<1>2. IInv => CountsFit
  BY <1>1 DEF CountsFit
<1> QED BY <1>2, MeetAtBarriers, PTL
-----------------------------------------------------------------------------
(***************************************************************************)
(* What is moved.  Byte k of the request q of process r is a pair of a     *)
(* place in the buffer and one in the file; a request moves its bytes in   *)
(* order, so that what is done is told by their number.                    *)
(***************************************************************************)
Place(q, r, b) == IF q.kind = "list" THEN q.off[r][b + 1] ELSE q.off[r] + q.osz * b

Byte(q, r, k) == <<k, Place(q, r, k \div q.bsz) + (k % q.bsz)>>

Bytes(q, r, n) == {Byte(q, r, k) : k \in 0 .. n - 1}

LEMMA DivShift ==
  ASSUME NEW i \in Nat, NEW b \in Nat \ {0}, NEW x \in Nat
  PROVE  /\ i * b + x \in Nat
         /\ (i * b + x) \div b = i + (x \div b) /\ (i * b + x) % b = x % b
         /\ x \div b \in Nat /\ x % b \in Nat
<1> DEFINE y == x \div b
           z == x % b
<1>1. y \in Nat /\ z \in Nat /\ x = b * y + z /\ z < b
  BY DivFacts
<1> HIDE DEF y, z
<1>2. i * b \in Nat /\ i + y \in Nat /\ b * (i + y) = i * b + b * y /\ b * y \in Nat
  BY <1>1
<1>3. i * b + x \in Nat /\ i * b + x = b * (i + y) + z
  BY <1>1, <1>2
<1>4. (i * b + x) \div b = i + y /\ (i * b + x) % b = z
  BY <1>1, <1>2, <1>3, DivUnique
<1> QED BY <1>1, <1>3, <1>4 DEF y, z

\* A byte of a run of n blocks lies in one of them.
LEMMA DivBelow ==
  ASSUME NEW n \in Nat, NEW b \in Nat, NEW x \in Nat, x < n * b
  PROVE  b > 0 /\ n > 0 /\ x \div b \in Nat /\ x \div b < n
<1>1. b > 0 /\ n > 0
  <2>1. b = 0 => n * b = 0
    OBVIOUS
  <2>2. n = 0 => n * b = 0
    OBVIOUS
  <2> QED BY <2>1, <2>2
<1> DEFINE y == x \div b
<1>2. y \in Nat /\ x % b \in Nat /\ x = b * y + (x % b)
  BY <1>1, DivFacts
<1> HIDE DEF y
<1>3. ASSUME n <= y PROVE FALSE
  <2>1. b * n <= b * y /\ b * n = n * b /\ b * y \in Nat /\ b * n \in Nat
    BY <1>2, <1>3, TimesMonotone
  <2> QED BY <1>2, <2>1
<1> QED BY <1>1, <1>2, <1>3 DEF y

\* The bytes of all blocks are what the request wants.
LEMMA AllBytes ==
  ASSUME Typed, NEW r \in Rank
  PROVE  Wanted(r) = Bytes(Req(r), r, OuterSz(r) * Req(r).bsz)
<1> DEFINE q == Req(r)
           n == OuterSz(r)
           Block(b) == {<<b * q.bsz + j, Place(q, r, b) + j>> : j \in 0 .. q.bsz - 1}
<1>1. Sound(q) /\ n \in Nat /\ q.bsz \in Nat
  BY ReqFacts DEF Sound
<1>2. Wanted(r) = UNION {Block(b) : b \in 0 .. n - 1}
  BY DEF Wanted, Place, OuterSz
<1> HIDE DEF q, n
<1>3. ASSUME NEW b \in 0 .. n - 1, NEW j \in 0 .. q.bsz - 1
      PROVE  /\ b * q.bsz + j \in 0 .. n * q.bsz - 1
             /\ <<b * q.bsz + j, Place(q, r, b) + j>> = Byte(q, r, b * q.bsz + j)
  <2>1. b \in Nat /\ j \in Nat /\ q.bsz \in Nat \ {0} /\ j < q.bsz /\ b + 1 <= n
    BY <1>1
  <2>2. j \div q.bsz = 0 /\ j % q.bsz = j
    <3>1. j = q.bsz * 0 + j
      BY <2>1
    <3> QED BY <2>1, <3>1, DivUnique
  <2>3. (b * q.bsz + j) \div q.bsz = b /\ (b * q.bsz + j) % q.bsz = j /\ b * q.bsz + j \in Nat
    <3>1. /\ b * q.bsz + j \in Nat
          /\ (b * q.bsz + j) \div q.bsz = b + (j \div q.bsz)
          /\ (b * q.bsz + j) % q.bsz = j % q.bsz
      BY <2>1, DivShift
    <3>2. b + (j \div q.bsz) = b
      BY <2>1, <2>2
    <3> QED BY <2>2, <3>1, <3>2
  <2>4. q.bsz * (b + 1) <= q.bsz * n /\ q.bsz * (b + 1) = b * q.bsz + q.bsz /\ q.bsz * n = n * q.bsz
    BY <1>1, <2>1, TimesMonotone
  <2>5. n * q.bsz \in Nat
    BY <1>1
  <2> QED BY <2>1, <2>3, <2>4, <2>5 DEF Byte
<1>4. Wanted(r) \subseteq Bytes(q, r, n * q.bsz)
  <2> SUFFICES ASSUME NEW b \in 0 .. n - 1, NEW w \in Block(b)
               PROVE  w \in Bytes(q, r, n * q.bsz)
    BY <1>2
  <2>1. PICK j \in 0 .. q.bsz - 1 : w = <<b * q.bsz + j, Place(q, r, b) + j>>
    OBVIOUS
  <2> QED BY <1>3, <2>1 DEF Bytes
<1>5. Bytes(q, r, n * q.bsz) \subseteq Wanted(r)
  <2> SUFFICES ASSUME NEW k \in 0 .. n * q.bsz - 1
               PROVE  Byte(q, r, k) \in Wanted(r)
    BY DEF Bytes
  <2> DEFINE b == k \div q.bsz
             j == k % q.bsz
  <2>1. k \in Nat /\ k < n * q.bsz
    BY <1>1
  <2>2. q.bsz \in Nat \ {0} /\ b \in 0 .. n - 1
    BY <1>1, <2>1, DivBelow
  <2>3. j \in 0 .. q.bsz - 1 /\ k = q.bsz * b + j
    <3>1. j \in Nat /\ k = q.bsz * b + j /\ j < q.bsz
      BY <2>1, <2>2, DivFacts
    <3> HIDE DEF b, j
    <3> QED BY <2>2, <3>1
  <2>4. Byte(q, r, k) = <<k, Place(q, r, b) + j>>
    BY DEF Byte
  <2> HIDE DEF b, j
  <2>5. k = b * q.bsz + j
    BY <2>2, <2>3
  <2>6. Byte(q, r, k) \in Block(b)
    BY <2>3, <2>4, <2>5
  <2> QED BY <1>2, <2>2, <2>6
<1> QED BY <1>4, <1>5 DEF q, n

\* Through the view of a chunk the bytes of its blocks follow one another.
LEMMA SeenThrough ==
  ASSUME Typed, NEW r \in Rank, Kind(r) # "contig", NEW x \in Nat, x < InnerSz(r)
  PROVE  /\ outer[r].i < OuterSz(r)
         /\ Req(r).bsz \in Nat \ {0}
         /\ Seen(ChunkView(r), x)
              = Place(Req(r), r, outer[r].i + (x \div Req(r).bsz)) + (x % Req(r).bsz)
<1> DEFINE q == Req(r)
           b == Req(r).bsz
           i == outer[r].i
           m == OuterChunk(r)
           y == x \div b
           z == x % b
           V == ChunkView(r)
<1>1. /\ Sound(q) /\ m \in Nat /\ OuterSz(r) \in Nat /\ MaxChunk(q) \in Nat \ {0}
      /\ b \in Nat /\ i \in Nat /\ Kind(r) = q.kind
  BY ReqFacts DEF Sound, Typed, Loop, Kind
<1>2. x < m * b
  BY DEF InnerSz
<1>3. b > 0 /\ m > 0 /\ y \in Nat /\ y < m
  BY <1>1, <1>2, DivBelow
<1>4. i < OuterSz(r) /\ i + m <= OuterSz(r)
  BY <1>1, <1>3 DEF OuterChunk, Chunk
<1>5. z \in Nat
  BY <1>1, <1>3, DivFacts
<1>6. CASE q.kind = "strided"
  <2>1. V = StrideView(q.off[r] + q.osz * i, b, q.osz, m)
    BY <1>1, <1>3, <1>6 DEF ChunkView
  <2>2. V = [k \in 1 .. m * b |->
               (q.off[r] + q.osz * i) + q.osz * ((k - 1) \div b) + ((k - 1) % b)]
    BY <2>1 DEF StrideView
  <2>3. q.off[r] \in Nat /\ q.osz \in Nat
    BY <1>1, <1>6 DEF Sound
  <2> HIDE DEF V, m, b, i, q
  <2>4. m * b \in Nat /\ x + 1 \in 1 .. m * b /\ (x + 1) - 1 = x
    BY <1>1, <1>2
  <2>5. V[x + 1] = (q.off[r] + q.osz * i) + q.osz * y + z
    BY <2>2, <2>4
  <2>6. Len(V) = m * b /\ V # <<>>
    <3>1. \A k \in 1 .. m * b :
            (q.off[r] + q.osz * i) + q.osz * ((k - 1) \div b) + ((k - 1) % b) \in Nat
      <4> SUFFICES ASSUME NEW k \in 1 .. m * b
                   PROVE  (q.off[r] + q.osz * i) + q.osz * ((k - 1) \div b) + ((k - 1) % b) \in Nat
        OBVIOUS
      <4>1. k - 1 \in Nat
        BY <2>4
      <4>2. (k - 1) \div b \in Nat /\ (k - 1) % b \in Nat
        BY <1>1, <1>3, <4>1, DivFacts
      <4> QED BY <1>1, <2>3, <4>2
    <3>2. V \in Seq(Nat) /\ Len(V) = m * b
      BY <2>2, <2>4, <3>1
    <3> QED BY <2>4, <3>2
  <2>7. Seen(V, x) = V[x + 1]
    BY <1>2, <2>6 DEF Seen, Plain
  <2> HIDE DEF y, z
  <2>8. q.osz * (i + y) = q.osz * i + q.osz * y /\ q.osz * i \in Nat /\ q.osz * y \in Nat
    BY <1>1, <1>3, <2>3
  <2>9. Place(q, r, i + y) = q.off[r] + q.osz * (i + y)
    BY <1>6 DEF Place
  <2>10. Seen(V, x) = Place(q, r, i + y) + z
    BY <1>5, <2>3, <2>5, <2>7, <2>8, <2>9
  <2> QED BY <1>1, <1>3, <1>4, <2>10 DEF V, b, i, q, y, z
<1>7. CASE q.kind = "list"
  <2> DEFINE o == SubSeq(q.off[r], i + 1, i + m)
  <2>1. V = RandBlockView(m, b, o)
    BY <1>1, <1>7 DEF ChunkView
  <2>2. V = [k \in 1 .. m * b |-> o[((k - 1) \div b) + 1] + ((k - 1) % b)]
    BY <2>1 DEF RandBlockView
  <2>3. q.off[r] \in Seq(Nat) /\ Len(q.off[r]) = OuterSz(r)
    BY <1>1, <1>7 DEF Sound, OuterSz
  <2>4. \A j \in 0 .. m - 1 : o[j + 1] = q.off[r][(i + j) + 1] /\ o[j + 1] \in Nat
    <3> SUFFICES ASSUME NEW j \in 0 .. m - 1
                 PROVE  o[j + 1] = q.off[r][(i + j) + 1] /\ o[j + 1] \in Nat
      OBVIOUS
    <3> HIDE DEF m, i, q
    <3>1. i + 1 \in 1 .. Len(q.off[r]) + 1 /\ i + m \in i .. Len(q.off[r]) /\ j + 1 \in 1 .. m
      BY <1>1, <1>4, <2>3
    <3>2. o[j + 1] = q.off[r][(i + 1) + (j + 1) - 1]
      BY <1>1, <2>3, <3>1
    <3>3. (i + 1) + (j + 1) - 1 = (i + j) + 1 /\ (i + j) + 1 \in 1 .. Len(q.off[r])
      BY <1>1, <3>1, <2>3
    <3>4. q.off[r][(i + j) + 1] \in Nat
      BY <2>3, <3>3
    <3> QED BY <3>2, <3>3, <3>4
  <2> HIDE DEF o, V, m, b, i, q
  <2>5. m * b \in Nat /\ x + 1 \in 1 .. m * b /\ (x + 1) - 1 = x
    BY <1>1, <1>2
  <2>6. V[x + 1] = o[y + 1] + z
    BY <2>2, <2>5
  <2>7. Len(V) = m * b /\ V # <<>>
    <3>1. ASSUME NEW k \in 1 .. m * b
          PROVE  o[((k - 1) \div b) + 1] + ((k - 1) % b) \in Nat
      <4>1. k - 1 \in Nat /\ k - 1 < m * b
        BY <2>5
      <4>2. (k - 1) \div b \in 0 .. m - 1
        BY <1>1, <4>1, DivBelow
      <4>3. (k - 1) % b \in Nat
        BY <1>1, <1>3, <4>1, DivFacts
      <4>4. o[((k - 1) \div b) + 1] \in Nat
        BY <2>4, <4>2
      <4> QED BY <4>3, <4>4
    <3>2. V \in Seq(Nat) /\ Len(V) = m * b
      BY <2>2, <2>5, <3>1
    <3> QED BY <2>5, <3>2
  <2>8. Seen(V, x) = V[x + 1]
    BY <1>2, <2>7 DEF Seen, Plain
  <2>9. o[y + 1] = q.off[r][(i + y) + 1]
    <3>1. y \in 0 .. m - 1
      BY <1>1, <1>3
    <3> QED BY <2>4, <3>1
  <2>10. Place(q, r, i + y) = q.off[r][(i + y) + 1]
    BY <1>7 DEF Place
  <2>11. Seen(V, x) = Place(q, r, i + y) + z
    BY <2>6, <2>8, <2>9, <2>10
  <2> QED BY <1>1, <1>3, <1>4, <2>11 DEF V, b, i, q
<1> QED BY <1>1, <1>6, <1>7 DEF Sound, Requests

(***************************************************************************)
(* How much is moved, by the place a process is at, and the view it has.   *)
(***************************************************************************)
OuterDone(r) == Least(outer[r].i, OuterSz(r)) * Req(r).bsz
InnerDone(r) == Least(inner[r].i, InnerSz(r))

Done(r) ==
  IF pc[r] \in {"gather", "done"} THEN 0
  ELSE IF pc[r] = "return" THEN OuterSz(r) * Req(r).bsz
  ELSE IF pc[r] = "reset" THEN OuterDone(r) + InnerSz(r)
  ELSE IF pc[r] = "access" /\ Kind(r) = "strided" THEN OuterDone(r) + InnerDone(r)
  ELSE OuterDone(r)

RightView(r) ==
  view[r] = IF Kind(r) # "contig" /\ pc[r] \in {"regather", "access", "reset"}
            THEN ChunkView(r) ELSE Plain

Exact(r) == /\ RightView(r)
            /\ ~err[r].failed => moved[r] = Bytes(Req(r), r, Done(r))

LEMMA LeastAdvances ==
  ASSUME NEW f \in Loop, NEW sz \in Nat, NEW max \in Nat \ {0}
  PROVE  /\ Least(f.i, sz) \in Nat
         /\ Least(Advance(f, sz, max).i, sz) = Least(f.i, sz) + Chunk(f, sz, max)
         /\ ~More(f, sz) => Least(f.i, sz) = sz
         /\ Chunk(f, sz, max) > 0 => Least(f.i, sz) = f.i
<1>1. f.i \in Nat /\ f.rem \in Nat
  BY DEF Loop
<1>2. CASE f.i < sz
  <2>1. Advance(f, sz, max).i = f.i + max
    BY <1>1, <1>2 DEF Advance, Loop
  <2> QED BY <1>1, <1>2, <2>1 DEF Least, Chunk, More
<1>3. CASE ~(f.i < sz)
  <2>1. Advance(f, sz, max).i = f.i
    BY <1>1, <1>3 DEF Advance, Loop
  <2> QED BY <1>1, <1>3, <2>1 DEF Least, Chunk, More
<1> QED BY <1>2, <1>3

LEMMA Times ==
  ASSUME NEW a \in Nat, NEW b \in Nat, NEW c \in Nat
  PROVE  (a + b) * c = a * c + b * c /\ a * c \in Nat /\ b * c \in Nat
BY SMT

\* Bytes that follow those that are there.
LEMMA MoreBytes ==
  ASSUME NEW q, NEW r, NEW d \in Nat, NEW n \in Nat
  PROVE  /\ Bytes(q, r, d) \subseteq Bytes(q, r, d + n)
         /\ \A k \in 0 .. n - 1 : Byte(q, r, d + k) \in Bytes(q, r, d + n)
         /\ \A w \in Bytes(q, r, d + n) :
              w \in Bytes(q, r, d) \/ \E k \in 0 .. n - 1 : w = Byte(q, r, d + k)
<1>1. ASSUME NEW k \in 0 .. (d + n) - 1
      PROVE  k \in 0 .. d - 1 \/ (k - d \in 0 .. n - 1 /\ d + (k - d) = k)
  OBVIOUS
<1>2. \A k \in 0 .. n - 1 : d + k \in 0 .. (d + n) - 1
  OBVIOUS
<1>3. \A k \in 0 .. d - 1 : k \in 0 .. (d + n) - 1
  OBVIOUS
<1>4. ASSUME NEW w \in Bytes(q, r, d + n)
      PROVE  w \in Bytes(q, r, d) \/ \E k \in 0 .. n - 1 : w = Byte(q, r, d + k)
  <2>1. PICK k \in 0 .. (d + n) - 1 : w = Byte(q, r, k)
    BY DEF Bytes
  <2>2. CASE k \in 0 .. d - 1
    BY <2>1, <2>2 DEF Bytes
  <2>3. CASE k - d \in 0 .. n - 1 /\ d + (k - d) = k
    BY <2>1, <2>3
  <2> QED BY <1>1, <2>2, <2>3
<1>5. ASSUME NEW w \in Bytes(q, r, d)
      PROVE  w \in Bytes(q, r, d + n)
  BY <1>3 DEF Bytes
<1>6. ASSUME NEW k \in 0 .. n - 1
      PROVE  Byte(q, r, d + k) \in Bytes(q, r, d + n)
  BY <1>2 DEF Bytes
<1> QED BY <1>4, <1>5, <1>6

\* A data access moves the next bytes of the request.
LEMMA NextBytes ==
  ASSUME Typed, NEW r \in Rank, RightView(r), pc[r] = "access"
  PROVE  /\ Done(r) \in Nat /\ Access(r).n \in Nat
         /\ Bytes(Req(r), r, Done(r)) \cup Transfers(r)
              = Bytes(Req(r), r, Done(r) + Access(r).n)
<1> DEFINE q == Req(r)
           b == Req(r).bsz
           f == outer[r]
           a == Access(r)
           d == Done(r)
<1>1. /\ Sound(q) /\ OuterSz(r) \in Nat /\ MaxChunk(q) \in Nat \ {0} /\ InnerSz(r) \in Nat
      /\ OuterChunk(r) \in Nat /\ InnerChunk(r) \in Nat
      /\ b \in Nat /\ Kind(r) = q.kind
  BY ReqFacts DEF Sound, Kind
<1>2. f \in Loop /\ f.i \in Nat /\ inner[r] \in Loop /\ inner[r].i \in Nat
  BY DEF Typed, Loop
<1>3. /\ Least(f.i, OuterSz(r)) \in Nat
      /\ OuterChunk(r) > 0 => Least(f.i, OuterSz(r)) = f.i
  BY <1>1, <1>2, LeastAdvances DEF OuterChunk
<1>4. /\ InnerDone(r) \in Nat
      /\ InnerChunk(r) > 0 => InnerDone(r) = inner[r].i
  BY <1>1, <1>2, LeastAdvances, MaxSizeAssumption DEF InnerDone, InnerChunk
<1>5. OuterDone(r) \in Nat
  BY <1>1, <1>3 DEF OuterDone
<1>6. d \in Nat
  BY <1>4, <1>5 DEF Done
<1>7. a.n \in Nat
  BY <1>1 DEF Access, Sound, Requests
<1>8. ASSUME NEW k \in 0 .. a.n - 1
      PROVE  <<a.buf + k, Seen(view[r], a.at + k)>> = Byte(q, r, d + k)
  <2>1. k \in Nat /\ k < a.n
    BY <1>7
  <2>2. CASE q.kind = "contig"
    <3>1. b = 1 /\ q.osz = 1 /\ q.off[r] \in Nat
      BY <1>1, <2>2 DEF Sound
    <3>2. a = [at |-> q.off[r] + f.i, buf |-> f.i, n |-> OuterChunk(r)]
      BY <2>2 DEF Access
    <3>3. d = f.i
      <4>1. OuterChunk(r) > 0
        BY <1>1, <2>1, <3>2
      <4> QED BY <1>1, <1>2, <1>3, <2>2, <3>1, <4>1 DEF Done, OuterDone
    <3>4. view[r] = Plain
      BY <1>1, <2>2 DEF RightView
    <3>5. Seen(view[r], a.at + k) = q.off[r] + f.i + k
      BY <3>2, <3>4 DEF Seen
    <3>6. (d + k) \div 1 = d + k /\ (d + k) % 1 = 0
      BY <1>6, <2>1
    <3>7. Byte(q, r, d + k) = <<d + k, (q.off[r] + 1 * (d + k)) + 0>>
      BY <2>2, <3>1, <3>6 DEF Byte, Place
    <3>8. (q.off[r] + 1 * (d + k)) + 0 = q.off[r] + f.i + k /\ a.buf + k = d + k
      BY <1>2, <2>1, <3>1, <3>2, <3>3
    <3> QED BY <3>5, <3>7, <3>8
  <2>3. ASSUME q.kind # "contig", NEW x \in Nat, x < InnerSz(r), a.at + k = x,
               a.buf + k = f.i * b + x, d + k = f.i * b + x
        PROVE  <<a.buf + k, Seen(view[r], a.at + k)>> = Byte(q, r, d + k)
    <3>1. view[r] = ChunkView(r)
      BY <1>1, <2>3 DEF RightView
    <3>2. /\ b \in Nat \ {0}
          /\ Seen(ChunkView(r), x) = Place(q, r, f.i + (x \div b)) + (x % b)
      BY <1>1, <2>3, SeenThrough
    <3>3. (f.i * b + x) \div b = f.i + (x \div b) /\ (f.i * b + x) % b = x % b
      <4> HIDE DEF f, b
      <4> QED BY <1>2, <2>3, <3>2, DivShift
    <3>4. Byte(q, r, f.i * b + x) = <<f.i * b + x, Place(q, r, f.i + (x \div b)) + (x % b)>>
      BY <3>3 DEF Byte
    <3> QED BY <2>3, <3>1, <3>2, <3>4
  <2>4. CASE q.kind = "strided"
    <3> DEFINE x == inner[r].i + k
    <3>1. a = [at |-> inner[r].i, buf |-> f.i * b + inner[r].i, n |-> InnerChunk(r)]
      BY <2>4 DEF Access
    <3>2. InnerChunk(r) > 0 /\ k < InnerChunk(r)
      BY <1>1, <2>1, <3>1
    <3>3. x \in Nat /\ x < InnerSz(r)
      BY <1>1, <1>2, <2>1, <3>2, MaxSizeAssumption DEF InnerChunk, Chunk
    <3>4. OuterChunk(r) > 0
      BY <1>1, <3>3, DivBelow DEF InnerSz
    <3>5. d = f.i * b + inner[r].i
      BY <1>1, <1>3, <1>4, <2>4, <3>2, <3>4 DEF Done, OuterDone
    <3>6. f.i * b \in Nat
      BY <1>1, <1>2
    <3>7. a.at + k = x /\ a.buf + k = f.i * b + x /\ d + k = f.i * b + x
      BY <1>2, <2>1, <3>1, <3>5, <3>6
    <3> QED BY <2>3, <2>4, <3>3, <3>7
  <2>5. CASE q.kind = "list"
    <3>1. a = [at |-> 0, buf |-> f.i * b, n |-> OuterChunk(r) * b]
      BY <2>5 DEF Access
    <3>2. k < InnerSz(r)
      BY <2>1, <3>1 DEF InnerSz
    <3>3. OuterChunk(r) > 0
      BY <1>1, <2>1, <3>1, DivBelow
    <3>4. d = f.i * b
      BY <1>1, <1>3, <2>5, <3>3 DEF Done, OuterDone
    <3>5. a.at + k = k /\ a.buf + k = f.i * b + k /\ d + k = f.i * b + k
      BY <2>1, <3>1, <3>4
    <3> QED BY <2>1, <2>3, <2>5, <3>2, <3>5
  <2> QED BY <1>1, <2>2, <2>4, <2>5 DEF Sound, Requests
<1>9. Transfers(r) = {Byte(q, r, d + k) : k \in 0 .. a.n - 1}
  <2>1. Transfers(r) = {<<a.buf + k, Seen(view[r], a.at + k)>> : k \in 0 .. a.n - 1}
    BY DEF Transfers
  <2> HIDE DEF a, d, q
  <2> QED BY <1>8, <2>1
<1> HIDE DEF a, d, q
<1>10. Bytes(q, r, d) \cup Transfers(r) = Bytes(q, r, d + a.n)
  <2> DEFINE n == a.n
             T == Transfers(r)
  <2>1. /\ n \in Nat
        /\ \A k \in 0 .. n - 1 : Byte(q, r, d + k) \in T
        /\ \A t \in T : \E k \in 0 .. n - 1 : t = Byte(q, r, d + k)
    BY <1>7, <1>9
  <2> HIDE DEF n, T
  <2>2. Bytes(q, r, d) \subseteq Bytes(q, r, d + n)
    BY <1>6, <2>1, MoreBytes
  <2>3. T \subseteq Bytes(q, r, d + n)
    <3>1. \A k \in 0 .. n - 1 : Byte(q, r, d + k) \in Bytes(q, r, d + n)
      BY <1>6, <2>1, MoreBytes
    <3> QED BY <2>1, <3>1
  <2>4. Bytes(q, r, d + n) \subseteq Bytes(q, r, d) \cup T
    <3> SUFFICES ASSUME NEW w \in Bytes(q, r, d + n), w \notin Bytes(q, r, d)
                 PROVE  w \in T
      OBVIOUS
    <3>1. \E k \in 0 .. n - 1 : w = Byte(q, r, d + k)
      BY <1>6, <2>1, MoreBytes
    <3> QED BY <2>1, <3>1
  <2> QED BY <2>2, <2>3, <2>4 DEF n, T
<1> QED BY <1>6, <1>7, <1>10 DEF a, d, q

AllExact == \A r \in Rank : Exact(r)

\* The sizes the loops work with, and what their state says is done.
LEMMA DoneFacts ==
  ASSUME Typed, NEW r \in Rank
  PROVE  /\ Req(r).bsz \in Nat /\ OuterSz(r) \in Nat /\ InnerSz(r) \in Nat
         /\ OuterDone(r) \in Nat /\ InnerDone(r) \in Nat
         /\ Kind(r) \in Requests /\ Kind(r) = Req(r).kind
         /\ Kind(r) = "contig" => Req(r).bsz = 1
         /\ ~More(outer[r], OuterSz(r)) => OuterDone(r) = OuterSz(r) * Req(r).bsz
         /\ ~More(inner[r], InnerSz(r)) => InnerDone(r) = InnerSz(r)
<1>1. /\ Sound(Req(r)) /\ MaxChunk(Req(r)) \in Nat \ {0} /\ Req(r).bsz \in Nat
      /\ OuterSz(r) \in Nat /\ InnerSz(r) \in Nat
      /\ outer[r] \in Loop /\ inner[r] \in Loop
  BY ReqFacts DEF Typed, Sound
<1>2. /\ Least(outer[r].i, OuterSz(r)) \in Nat
      /\ ~More(outer[r], OuterSz(r)) => Least(outer[r].i, OuterSz(r)) = OuterSz(r)
  BY <1>1, LeastAdvances
<1>3. /\ Least(inner[r].i, InnerSz(r)) \in Nat
      /\ ~More(inner[r], InnerSz(r)) => Least(inner[r].i, InnerSz(r)) = InnerSz(r)
  BY <1>1, LeastAdvances, MaxSizeAssumption
<1>4. OuterDone(r) \in Nat
  BY <1>1, <1>2 DEF OuterDone
<1> QED BY <1>1, <1>2, <1>3, <1>4 DEF OuterDone, InnerDone, Sound, Kind

\* A pass of the outer loop is one chunk of blocks.
LEMMA OuterPass ==
  ASSUME Typed, NEW r \in Rank, Req(r)' = Req(r), OuterSz(r)' = OuterSz(r),
         outer'[r] = OuterNext(r)
  PROVE  /\ OuterDone(r)' = OuterDone(r) + InnerSz(r)
         /\ ~More(outer'[r], OuterSz(r)) => OuterDone(r)' = OuterSz(r) * Req(r).bsz
<1>1. /\ MaxChunk(Req(r)) \in Nat \ {0} /\ Req(r).bsz \in Nat /\ OuterSz(r) \in Nat
      /\ OuterChunk(r) \in Nat /\ outer[r] \in Loop
  BY ReqFacts DEF Typed, Sound
<1>2. /\ Least(outer[r].i, OuterSz(r)) \in Nat
      /\ Least(outer'[r].i, OuterSz(r)) = Least(outer[r].i, OuterSz(r)) + OuterChunk(r)
  BY <1>1, LeastAdvances DEF OuterNext, OuterChunk
<1>3. OuterDone(r)' = Least(outer'[r].i, OuterSz(r)) * Req(r).bsz
  BY DEF OuterDone
<1>4. OuterDone(r)' = OuterDone(r) + InnerSz(r)
  BY <1>1, <1>2, <1>3, Times DEF OuterDone, InnerSz
<1>5. ~More(outer'[r], OuterSz(r)) => Least(outer'[r].i, OuterSz(r)) = OuterSz(r)
  <2>1. outer'[r].i \in Nat /\ outer'[r] = Advance(outer[r], OuterSz(r), MaxChunk(Req(r)))
    BY <1>1 DEF OuterNext, Advance, Loop
  <2> QED BY <1>1, <2>1 DEF More, Least
<1> QED BY <1>3, <1>4, <1>5

\* A process that takes no part in a step.
LEMMA Apart ==
  ASSUME NEW r, Exact(r), reqs' = reqs, call'[r] = call[r], pc'[r] = pc[r],
         outer'[r] = outer[r], inner'[r] = inner[r], view'[r] = view[r],
         moved'[r] = moved[r], err'[r] = err[r]
  PROVE  Exact(r)'
<1>1. Req(r)' = Req(r) /\ Kind(r)' = Kind(r) /\ OuterSz(r)' = OuterSz(r)
  BY DEF Req, Kind, OuterSz
<1>2. OuterChunk(r)' = OuterChunk(r) /\ InnerSz(r)' = InnerSz(r)
  BY <1>1 DEF OuterChunk, InnerSz
<1>3. ChunkView(r)' = ChunkView(r)
  BY <1>1, <1>2 DEF ChunkView
<1>4. Done(r)' = Done(r)
  BY <1>1, <1>2 DEF Done, OuterDone, InnerDone
<1> QED BY <1>1, <1>3, <1>4 DEF Exact, RightView

LEMMA GatherExact == IInv /\ AllExact /\ Gather => AllExact'
<1> SUFFICES ASSUME IInv, AllExact, Gather, NEW r \in Rank PROVE Exact(r)'
  BY DEF AllExact
<1>1. PICK most :
        /\ outer'[r] = IF pc[r] = "gather"
                       THEN Begin(OuterSz(r), MaxChunk(Req(r)), most) ELSE outer[r]
        /\ inner'[r] = IF pc[r] = "regather"
                       THEN Begin(InnerSz(r), MaxSize, most) ELSE inner[r]
        /\ pc'[r] = IF pc[r] = "gather" THEN OuterHead(r, outer'[r])
                                        ELSE InnerHead(r, inner'[r])
  BY DEF Gather
<1>2. /\ pc[r] \in {"gather", "regather"} /\ Typed /\ Going(r) /\ Exact(r)
      /\ UNCHANGED <<reqs, call, view, moved, err>>
  BY DEF Gather, IInv, AllExact
<1>3. Req(r)' = Req(r) /\ Kind(r)' = Kind(r) /\ OuterSz(r)' = OuterSz(r)
  BY <1>2, SameRequest
<1>4. /\ Req(r).bsz \in Nat /\ OuterSz(r) \in Nat /\ InnerSz(r) \in Nat /\ OuterDone(r) \in Nat
      /\ Kind(r) \in Requests
  BY <1>2, DoneFacts
<1>5. CASE pc[r] = "gather"
  <2>1. outer'[r].i = 0 /\ (~More(outer'[r], OuterSz(r)) => OuterSz(r) = 0)
    BY <1>1, <1>4, <1>5 DEF Begin, More
  <2>2. OuterDone(r)' = 0 /\ (OuterSz(r) = 0 => OuterSz(r) * Req(r).bsz = 0)
    <3>1. Least(0, OuterSz(r)) = 0
      BY <1>4 DEF Least
    <3> QED BY <1>3, <1>4, <2>1, <3>1 DEF OuterDone
  <2>3. pc'[r] = IF ~More(outer'[r], OuterSz(r)) THEN "return"
                 ELSE IF Kind(r) = "contig" THEN "access" ELSE "view"
    BY <1>1, <1>5 DEF OuterHead
  <2>4. Done(r) = 0 /\ Done(r)' = 0
    BY <1>3, <1>5, <2>1, <2>2, <2>3 DEF Done
  <2>5. view[r] = Plain /\ RightView(r)'
    BY <1>2, <1>3, <1>5, <2>3 DEF Exact, RightView
  <2> QED BY <1>2, <1>3, <2>4, <2>5 DEF Exact
<1>6. CASE pc[r] = "regather"
  <2>1. Kind(r) = "strided" /\ outer'[r] = outer[r]
    BY <1>1, <1>2, <1>6 DEF Going
  <2>2. /\ OuterChunk(r)' = OuterChunk(r) /\ InnerSz(r)' = InnerSz(r)
        /\ OuterDone(r)' = OuterDone(r)
    BY <1>3, <2>1 DEF OuterChunk, InnerSz, OuterDone
  <2>3. ChunkView(r)' = ChunkView(r)
    BY <1>3, <2>1, <2>2 DEF ChunkView
  <2>4. inner'[r].i = 0 /\ (~More(inner'[r], InnerSz(r)) => InnerSz(r) = 0)
    BY <1>1, <1>4, <1>6 DEF Begin, More
  <2>5. InnerDone(r)' = 0
    BY <1>4, <2>2, <2>4 DEF InnerDone, Least
  <2>6. pc'[r] = IF More(inner'[r], InnerSz(r)) THEN "access" ELSE "reset"
    BY <1>1, <1>6 DEF InnerHead
  <2>7. Done(r) = OuterDone(r) /\ Done(r)' = OuterDone(r)
    BY <1>3, <1>4, <1>6, <2>1, <2>2, <2>4, <2>5, <2>6 DEF Done
  <2>8. RightView(r)'
    BY <1>2, <1>3, <1>6, <2>1, <2>3, <2>6 DEF Exact, RightView
  <2> QED BY <1>2, <1>3, <2>7, <2>8 DEF Exact
<1> QED BY <1>2, <1>5, <1>6

LEMMA SetViewExact == IInv /\ AllExact /\ SetView => AllExact'
<1> SUFFICES ASSUME IInv, AllExact, SetView, NEW r \in Rank PROVE Exact(r)'
  BY DEF AllExact
<1>1. /\ view'[r] = IF pc[r] = "view" THEN ChunkView(r) ELSE Plain
      /\ outer'[r] = IF pc[r] = "reset" THEN OuterNext(r) ELSE outer[r]
      /\ pc'[r] = IF pc[r] = "reset" THEN OuterHead(r, outer'[r])
                  ELSE IF Kind(r) = "strided" THEN "regather" ELSE "access"
      /\ pc[r] \in {"view", "reset"}
      /\ UNCHANGED <<reqs, call, inner, moved, err>>
  BY DEF SetView
<1>2. Typed /\ Kind(r) # "contig" /\ Exact(r)
  BY <1>1 DEF IInv, Going, AllExact
<1>3. Req(r)' = Req(r) /\ Kind(r)' = Kind(r) /\ OuterSz(r)' = OuterSz(r)
  BY <1>1, SameRequest
<1>4. CASE pc[r] = "view"
  <2>1. outer'[r] = outer[r]
    BY <1>1, <1>4
  <2>2. OuterChunk(r)' = OuterChunk(r) /\ OuterDone(r)' = OuterDone(r)
    BY <1>3, <2>1 DEF OuterChunk, OuterDone
  <2>3. ChunkView(r)' = ChunkView(r)
    BY <1>3, <2>1, <2>2 DEF ChunkView
  <2>4. pc'[r] = IF Kind(r) = "strided" THEN "regather" ELSE "access"
    BY <1>1, <1>4
  <2>5. Done(r) = OuterDone(r) /\ Done(r)' = OuterDone(r)
    BY <1>3, <1>4, <2>2, <2>4 DEF Done
  <2>6. RightView(r)'
    BY <1>1, <1>2, <1>3, <1>4, <2>3, <2>4 DEF RightView
  <2> QED BY <1>1, <1>2, <1>3, <2>5, <2>6 DEF Exact
<1>5. CASE pc[r] = "reset"
  <2>1. outer'[r] = OuterNext(r) /\ view'[r] = Plain
    BY <1>1, <1>5
  <2>2. /\ OuterDone(r)' = OuterDone(r) + InnerSz(r)
        /\ ~More(outer'[r], OuterSz(r)) => OuterDone(r)' = OuterSz(r) * Req(r).bsz
    BY <1>2, <1>3, <2>1, OuterPass
  <2>3. pc'[r] = IF ~More(outer'[r], OuterSz(r)) THEN "return" ELSE "view"
    BY <1>1, <1>2, <1>5 DEF OuterHead
  <2>4. Done(r)' = Done(r)
    BY <1>3, <1>5, <2>2, <2>3 DEF Done
  <2>5. RightView(r)'
    BY <1>3, <2>1, <2>3 DEF RightView
  <2> QED BY <1>1, <1>2, <1>3, <2>4, <2>5 DEF Exact
<1> QED BY <1>1, <1>4, <1>5

LEMMA AccessExact == IInv /\ AllExact /\ DataAccess => AllExact'
<1> SUFFICES ASSUME IInv, AllExact, DataAccess, NEW r \in Rank PROVE Exact(r)'
  BY DEF AllExact
<1>1. PICK S \in (IF coll THEN {Rank} ELSE {{q} : q \in Rank}) :
        \E F \in SUBSET {q \in S : Kind(q) \in Faulty} : AccessBy(S, F)
  BY DEF DataAccess
<1>2. PICK F \in SUBSET {q \in S : Kind(q) \in Faulty} : AccessBy(S, F)
  BY <1>1
<1>3. /\ r \in S => pc[r] = "access"
      /\ moved'[r] = IF r \in S \ F THEN moved[r] \cup Transfers(r) ELSE moved[r]
      /\ inner'[r] = IF r \in S /\ Kind(r) = "strided" THEN InnerNext(r) ELSE inner[r]
      /\ outer'[r] = IF r \in S /\ Kind(r) = "contig" THEN OuterNext(r) ELSE outer[r]
      /\ pc'[r] = IF r \notin S THEN pc[r]
                  ELSE IF Kind(r) = "contig" THEN OuterHead(r, outer'[r])
                  ELSE IF Kind(r) = "strided" THEN InnerHead(r, inner'[r])
                  ELSE "reset"
      /\ err'[r] = IF r \in S THEN AfterAccess(r, r \in F) ELSE err[r]
      /\ UNCHANGED <<reqs, call, view>>
  BY <1>2 DEF AccessBy
<1>4. Typed /\ Exact(r)
  BY DEF IInv, AllExact
<1>5. CASE r \notin S
  BY <1>3, <1>4, <1>5, Apart
<1>6. CASE r \in S
  <2> DEFINE q == Req(r)
  <2>1. /\ Req(r)' = q /\ Kind(r)' = Kind(r) /\ OuterSz(r)' = OuterSz(r)
        /\ view' = view
    BY <1>3, SameRequest
  <2>2. /\ q.bsz \in Nat /\ OuterSz(r) \in Nat /\ InnerSz(r) \in Nat
        /\ OuterDone(r) \in Nat /\ InnerDone(r) \in Nat
        /\ Kind(r) \in Requests /\ Kind(r) = q.kind
        /\ Kind(r) = "contig" => q.bsz = 1
    BY <1>4, DoneFacts
  <2>3. pc[r] = "access" /\ RightView(r)
    BY <1>3, <1>4, <1>6 DEF Exact
  <2>4. Done(r)' = Done(r) + Access(r).n /\ RightView(r)'
    <3>1. CASE Kind(r) = "contig"
      <4>1. outer'[r] = OuterNext(r) /\ pc'[r] = OuterHead(r, outer'[r])
        BY <1>3, <1>6, <3>1
      <4>2. /\ OuterDone(r)' = OuterDone(r) + InnerSz(r)
            /\ ~More(outer'[r], OuterSz(r)) => OuterDone(r)' = OuterSz(r) * q.bsz
        BY <1>4, <2>1, <4>1, OuterPass
      <4>3. pc'[r] = IF ~More(outer'[r], OuterSz(r)) THEN "return" ELSE "access"
        BY <3>1, <4>1 DEF OuterHead
      <4>4. Access(r).n = InnerSz(r)
        <5>1. OuterChunk(r) \in Nat /\ Access(r).n = OuterChunk(r)
          BY <1>4, <2>2, <3>1, ReqFacts DEF Access
        <5> QED BY <2>2, <3>1, <5>1 DEF InnerSz
      <4>5. Done(r) = OuterDone(r) /\ Done(r)' = OuterDone(r)'
        BY <2>1, <2>3, <3>1, <4>2, <4>3 DEF Done
      <4>6. RightView(r)'
        BY <2>1, <2>3, <3>1 DEF RightView
      <4> QED BY <4>2, <4>4, <4>5, <4>6
    <3>2. ASSUME Kind(r) # "contig"
          PROVE  /\ outer'[r] = outer[r]
                 /\ OuterDone(r)' = OuterDone(r) /\ InnerSz(r)' = InnerSz(r)
                 /\ ChunkView(r)' = ChunkView(r)
      <4>1. outer'[r] = outer[r]
        BY <1>3, <3>2
      <4>2. OuterChunk(r)' = OuterChunk(r)
        BY <2>1, <4>1 DEF OuterChunk
      <4> QED BY <2>1, <4>1, <4>2 DEF OuterDone, InnerSz, ChunkView
    <3>3. CASE Kind(r) = "strided"
      <4>1. inner'[r] = Advance(inner[r], InnerSz(r), MaxSize) /\ pc'[r] = InnerHead(r, inner'[r])
        BY <1>3, <1>6, <3>3 DEF InnerNext
      <4>2. inner[r] \in Loop
        BY <1>4 DEF Typed
      <4>3. Least(inner'[r].i, InnerSz(r)) = InnerDone(r) + InnerChunk(r)
        BY <2>2, <4>1, <4>2, LeastAdvances, MaxSizeAssumption DEF InnerDone, InnerChunk
      <4>4. ~More(inner'[r], InnerSz(r)) => Least(inner'[r].i, InnerSz(r)) = InnerSz(r)
        <5>1. inner'[r].i \in Nat
          BY <4>1, <4>2, MaxSizeAssumption DEF Advance, Loop
        <5> QED BY <2>2, <5>1 DEF More, Least
      <4>5. pc'[r] = IF More(inner'[r], InnerSz(r)) THEN "access" ELSE "reset"
        BY <4>1 DEF InnerHead
      <4>6. Access(r).n = InnerChunk(r) /\ InnerChunk(r) \in Nat
        BY <1>4, <2>2, <3>3, ReqFacts DEF Access
      <4>7. Done(r) = OuterDone(r) + InnerDone(r)
        BY <2>3, <3>3 DEF Done
      <4>8. InnerDone(r)' = InnerDone(r) + InnerChunk(r)
        BY <3>2, <3>3, <4>3 DEF InnerDone
      <4>9. Done(r)' = OuterDone(r) + (InnerDone(r) + InnerChunk(r))
        BY <2>1, <3>2, <3>3, <4>3, <4>4, <4>5, <4>8 DEF Done
      <4>10. RightView(r)'
        BY <2>1, <2>3, <3>2, <3>3, <4>5 DEF RightView
      <4> QED BY <2>2, <4>6, <4>7, <4>9, <4>10
    <3>4. CASE Kind(r) = "list"
      <4>1. pc'[r] = "reset"
        BY <1>3, <1>6, <3>4
      <4>2. Access(r).n = InnerSz(r)
        BY <2>2, <3>4 DEF Access, InnerSz
      <4>3. Done(r) = OuterDone(r) /\ Done(r)' = OuterDone(r) + InnerSz(r)
        BY <2>1, <2>3, <3>2, <3>4, <4>1 DEF Done
      <4>4. RightView(r)'
        BY <2>1, <2>3, <3>2, <3>4, <4>1 DEF RightView
      <4> QED BY <4>2, <4>3, <4>4
    <3> QED BY <2>2, <3>1, <3>3, <3>4 DEF Requests
  <2>5. ASSUME ~err'[r].failed
        PROVE  moved'[r] = Bytes(q, r, Done(r)')
    <3>1. err'[r] = [failed |-> err[r].failed \/ r \in F,
                     logged |-> err[r].logged \/ (r \in F /\ Kind(r) # "list")]
      BY <1>3, <1>6 DEF AfterAccess
    <3>2. ~err[r].failed /\ r \notin F
      <4>1. err'[r].failed = (err[r].failed \/ r \in F)
        BY <3>1
      <4> QED BY <2>5, <4>1
    <3>3. moved[r] = Bytes(q, r, Done(r)) /\ moved'[r] = moved[r] \cup Transfers(r)
      BY <1>3, <1>4, <1>6, <3>2 DEF Exact
    <3>4. Bytes(q, r, Done(r)) \cup Transfers(r) = Bytes(q, r, Done(r) + Access(r).n)
      BY <1>4, <2>3, NextBytes
    <3> QED BY <2>4, <3>3, <3>4
  <2> QED BY <2>1, <2>4, <2>5 DEF Exact
<1> QED BY <1>5, <1>6

LEMMA NoBytes == \A q, r : Bytes(q, r, 0) = {}
<1> SUFFICES ASSUME NEW q, NEW r PROVE Bytes(q, r, 0) = {}
  OBVIOUS
<1>1. 0 .. 0 - 1 = {}
  OBVIOUS
<1> QED BY <1>1 DEF Bytes

LEMMA ReturnExact ==
  ASSUME IInv, AllExact, NEW q \in Rank, Return(q), DOMAIN err = Rank, DOMAIN moved = Rank
  PROVE  AllExact'
<1> SUFFICES ASSUME NEW r \in Rank PROVE Exact(r)'
  BY DEF AllExact
<1>1. /\ pc[q] = "return" /\ Exact(r) /\ Typed
      /\ moved' = [moved EXCEPT ![q] = {}]
      /\ UNCHANGED <<coll, reqs, outer, inner, view>>
      /\ err' = [err EXCEPT ![q] = Clean]
      /\ \/ call' = [call EXCEPT ![q] = @ + 1] /\ pc' = [pc EXCEPT ![q] = "gather"]
         \/ call' = call /\ pc' = [pc EXCEPT ![q] = "done"]
  BY DEF Return, Enter, AllExact, IInv
<1>2. DOMAIN call = Rank /\ DOMAIN pc = Rank
  BY <1>1 DEF Typed
<1>3. CASE r # q
  <2>1. call'[r] = call[r] /\ pc'[r] = pc[r] /\ moved'[r] = moved[r] /\ err'[r] = err[r]
    BY <1>1, <1>2, <1>3
  <2> QED BY <1>1, <2>1, Apart
<1>4. CASE r = q
  <2>1. pc'[r] \in {"gather", "done"} /\ moved'[r] = {}
    BY <1>1, <1>2, <1>4
  <2>2. view'[r] = Plain
    BY <1>1, <1>4 DEF Exact, RightView
  <2>3. Done(r)' = 0
    BY <2>1 DEF Done
  <2>4. RightView(r)'
    BY <2>1, <2>2 DEF RightView
  <2>5. moved'[r] = Bytes(Req(r)', r, Done(r)')
    BY <2>1, <2>3, NoBytes
  <2> QED BY <2>4, <2>5 DEF Exact
<1> QED BY <1>3, <1>4

Arrays == DOMAIN err = Rank /\ DOMAIN moved = Rank

(***************************************************************************)
(* Whatever the sizes, the limit on a call, the chunks and the views, a    *)
(* request that returns without an error has moved the bytes it was asked  *)
(* for between the right places, and no others.                            *)
(***************************************************************************)
THEOREM AlwaysExact == Spec => []ExactTransfer
<1>1. Init => Arrays /\ AllExact
  <2> SUFFICES ASSUME Init, NEW r \in Rank PROVE Arrays /\ Exact(r)
    BY DEF AllExact, Init, Arrays
  <2>1. Arrays /\ pc[r] = "gather" /\ view[r] = Plain /\ moved[r] = {}
    BY DEF Init, Enter, Arrays
  <2>2. RightView(r) /\ Done(r) = 0
    BY <2>1 DEF RightView, Done
  <2> QED BY <2>1, <2>2, NoBytes DEF Exact
<1>2. IInv /\ Arrays /\ AllExact /\ [Next]_vars => Arrays' /\ AllExact'
  <2> SUFFICES ASSUME IInv, Arrays, AllExact, [Next]_vars PROVE Arrays' /\ AllExact'
    OBVIOUS
  <2>1. CASE Gather
    BY <2>1, GatherExact DEF Gather, Arrays
  <2>2. CASE SetView
    BY <2>2, SetViewExact DEF SetView, Arrays
  <2>3. CASE DataAccess
    BY <2>3, AccessExact DEF DataAccess, AccessBy, Arrays
  <2>4. ASSUME NEW q \in Rank, Return(q) PROVE Arrays' /\ AllExact'
    BY <2>4, ReturnExact DEF Return, Arrays
  <2>5. CASE UNCHANGED vars
    BY <2>5, Apart DEF vars, Arrays, AllExact
  <2> QED BY <2>1, <2>2, <2>3, <2>4, <2>5 DEF Next, Finished
<1>3. IInv /\ AllExact => ExactTransfer
  <2> SUFFICES ASSUME IInv, AllExact, NEW r \in Rank, pc[r] = "return", ~err[r].failed
               PROVE  moved[r] = Wanted(r)
    BY DEF ExactTransfer
  <2>1. moved[r] = Bytes(Req(r), r, Done(r))
    BY DEF AllExact, Exact
  <2>2. Done(r) = OuterSz(r) * Req(r).bsz
    BY DEF Done
  <2> QED BY <2>1, <2>2, AllBytes DEF IInv
<1> QED BY <1>1, <1>2, <1>3, MeetAtBarriers, PTL DEF Spec
=============================================================================
