--------------------------- MODULE SegyFileProofs ---------------------------
(***************************************************************************)
(* A SEG-Y file written by any number of processes, with any bounds on     *)
(* what is written and any numbers of samples: the processes agree on      *)
(* their way through the destructor and on the size they give the file,    *)
(* the file implements TraceFile, and a reader gets what was written.      *)
(*                                                                         *)
(* The argument: callers make the same calls, and every call changes the   *)
(* flags of all processes alike.  Where the counts differ the flag that    *)
(* they are stale is set on all, and the collective maximum comes first.   *)
(* A place in bytes determines the part of a trace that lies there.        *)
(***************************************************************************)
EXTENDS SegyFile, SharedFacts, FiniteSetTheorems, TLAPS

\* Where a process goes when it comes to its destructor.
Entry(r) == IF isErr THEN "close"
            ELSE IF stalent[r] THEN "nt" ELSE AfterNt(resize[r])

\* Callers make the same calls on all processes, whose flags agree.  After
\* an error they need not: a stale count may be the one that is announced.
SameFlags ==
  \A r, s \in Rank : /\ stalent[r] = stalent[s]
                     /\ ~isErr => resize[r] = resize[s]
                     /\ ~isErr /\ ~nsSet => nt[r] = nt[s]

\* In the destructor a process waits at its entry for the others, and then
\* they go on together.
InStep == \/ \A r \in Rank : pc[r] \in {"open", Entry(r)}
          \/ \A r, s \in Rank : pc[r] = pc[s]

\* Once given, the number of samples is known; the file is to be resized.
Given == /\ nsSet => ns \in Samples /\ \A r \in Rank : resize[r]
         /\ ~nsSet => ns = 0

\* Without samples there are no parts of traces but their headers.
Parts == \A l \in DOMAIN content : content[l].part = "trc" => ns > 0

\* A file whose size is final has its header object.
Sized  == ~isErr /\ nsSet /\ Resized => size >= HOSz
Headed == ~isErr /\ (\E r \in Rank : pc[r] \in {"close", "closed"})
            => header = [ns |-> ns, about |-> about] /\ size >= HOSz

Inv == /\ TypeOK /\ CountKnown
       /\ SameFlags /\ InStep /\ Given /\ Parts /\ Sized /\ Headed

-----------------------------------------------------------------------------
(***************************************************************************)
(* The greatest member of a bounded set of numbers.                        *)
(***************************************************************************)
LEMMA MaxIs ==
  ASSUME NEW S \in SUBSET Nat, S # {}, NEW b \in Nat, \A x \in S : x <= b
  PROVE  Max(S) \in S /\ \A x \in S : x <= Max(S)
<1>1. PICK x \in S : \A y \in S : y <= x
  BY GreatestNat
<1>2. \A y \in S : x >= y
  BY <1>1
<1> QED BY <1>1, <1>2 DEF Max

LEMMA MostIs ==
  ASSUME NEW f \in [Rank -> 0 .. MaxNt]
  PROVE  LET m == Max({f[s] : s \in Rank})
         IN  /\ m \in 0 .. MaxNt
             /\ \A s \in Rank : f[s] <= m
             /\ \E s \in Rank : f[s] = m
<1> DEFINE S == {f[s] : s \in Rank}
<1>1. S \in SUBSET Nat /\ \A x \in S : x <= MaxNt
  BY BoundsAssumption
<1>2. S # {}
  <2>1. 0 \in Rank
    BY NumRankAssumption DEF Rank
  <2> QED BY <2>1
<1>3. Max(S) \in S /\ \A x \in S : x <= Max(S)
  BY <1>1, <1>2, MaxIs, BoundsAssumption
<1> QED BY <1>3

\* A count that some process has and none exceeds is the greatest.
LEMMA MostUnique ==
  ASSUME NEW f \in [Rank -> 0 .. MaxNt], NEW s \in Rank,
         \A r \in Rank : f[r] <= f[s]
  PROVE  Max({f[r] : r \in Rank}) = f[s]
<1> DEFINE m == Max({f[r] : r \in Rank})
<1>1. m \in 0 .. MaxNt /\ \A r \in Rank : f[r] <= m
  BY MostIs
<1>2. PICK r \in Rank : f[r] = m
  BY MostIs
<1> HIDE DEF m
<1>3. m = f[s]
  <2>1. m <= f[s] /\ f[s] <= m /\ m \in Int /\ f[s] \in Int
    BY <1>1, <1>2
  <2> QED BY <2>1
<1> QED BY <1>3 DEF m

(***************************************************************************)
(* The layout.  Traces lie end to end, headers before samples.             *)
(***************************************************************************)
LEMMA FileSzFacts ==
  ASSUME NEW t \in Nat, NEW u \in Nat, NEW n \in Nat
  PROVE  /\ DOSz(n) \in Nat /\ DOSz(n) >= 240
         /\ FileSz(t, n) \in Nat /\ FileSz(t, n) >= HOSz
         /\ FileSz(t + 1, n) = FileSz(t, n) + DOSz(n)
         /\ t <= u => FileSz(t, n) <= FileSz(u, n)
         /\ (FileSz(t, n) - HOSz) \div DOSz(n) = t
<1> DEFINE d == DOSz(n)
<1>1. d \in Nat /\ d >= 240
  BY DEF DOSz, MDSz
<1> HIDE DEF d
<1>2. t * d \in Nat /\ u * d \in Nat /\ (t + 1) * d = t * d + d
  BY <1>1, SMT
<1>3. t <= u => t * d <= u * d
  BY <1>1, SMT
<1>4. ((HOSz + t * d) - HOSz) \div d = t
  <2>1. (HOSz + t * d) - HOSz = d * t + 0
    BY <1>1, <1>2, SMT DEF HOSz
  <2>2. d * t + 0 \in Nat
    BY <1>1, SMT
  <2> QED BY <2>1, <2>2, <1>1, DivUnique
<1> QED BY <1>1, <1>2, <1>3, <1>4 DEF FileSz, HOSz, d

\* c may lie in a file whose traces have n samples.
Fits(c, n) == c \in Cell /\ (c.part = "trc" => n > 0)

LEMMA LocFacts ==
  ASSUME NEW n \in Nat, NEW c, Fits(c, n)
  PROVE  /\ Loc(c, n) \in Nat /\ Behind(c, n) \in Nat
         /\ FileSz(c.place, n) <= Loc(c, n) /\ HOSz <= Loc(c, n)
         /\ Loc(c, n) < Behind(c, n)
         /\ Behind(c, n) <= FileSz(c.place + 1, n)
<1>1. c.place \in Nat /\ c.part \in {"prm", "trc"}
  BY BoundsAssumption DEF Fits, Cell, Place
<1>2. /\ FileSz(c.place, n) \in Nat /\ FileSz(c.place, n) >= HOSz
      /\ FileSz(c.place + 1, n) = FileSz(c.place, n) + DOSz(n)
  BY <1>1, FileSzFacts
<1> QED BY <1>1, <1>2 DEF Loc, Behind, DOSz, MDSz, HOSz, Fits

\* What lies before the trace behind the last is what is not behind the last.
LEMMA LocBefore ==
  ASSUME NEW n \in Nat, NEW c, Fits(c, n), NEW t \in Nat
  PROVE  Loc(c, n) < FileSz(t, n) <=> c.place < t
<1>1. c.place \in Nat
  BY BoundsAssumption DEF Fits, Cell, Place
<1>2. /\ Loc(c, n) \in Nat /\ Behind(c, n) \in Nat
      /\ FileSz(c.place, n) <= Loc(c, n)
      /\ Loc(c, n) < Behind(c, n)
      /\ Behind(c, n) <= FileSz(c.place + 1, n)
  BY LocFacts
<1>3. /\ FileSz(c.place, n) \in Nat /\ FileSz(t, n) \in Nat
      /\ t <= c.place => FileSz(t, n) <= FileSz(c.place, n)
  BY <1>1, FileSzFacts
<1>4. /\ FileSz(c.place + 1, n) \in Nat
      /\ c.place + 1 <= t => FileSz(c.place + 1, n) <= FileSz(t, n)
  <2>1. c.place + 1 \in Nat
    BY <1>1
  <2> QED BY <2>1, FileSzFacts
<1> QED BY <1>1, <1>2, <1>3, <1>4

(***************************************************************************)
(* A place in bytes belongs to one part of one trace.                      *)
(***************************************************************************)
LEMMA LocInjective ==
  ASSUME NEW n \in Nat, NEW c, Fits(c, n), NEW d, Fits(d, n),
         Loc(c, n) = Loc(d, n)
  PROVE  c = d
<1>1. /\ c.place \in Nat /\ d.place \in Nat
      /\ c.part \in {"prm", "trc"} /\ d.part \in {"prm", "trc"}
      /\ c = [part |-> c.part, place |-> c.place]
      /\ d = [part |-> d.part, place |-> d.place]
  BY BoundsAssumption DEF Fits, Cell, Place
<1>2. /\ Loc(c, n) < FileSz(d.place + 1, n) <=> c.place < d.place + 1
      /\ Loc(d, n) < FileSz(d.place + 1, n) <=> d.place < d.place + 1
      /\ Loc(c, n) < FileSz(c.place + 1, n) <=> c.place < c.place + 1
      /\ Loc(d, n) < FileSz(c.place + 1, n) <=> d.place < c.place + 1
  BY <1>1, LocBefore
<1>3. c.place = d.place
  BY <1>1, <1>2
<1>4. FileSz(c.place, n) \in Nat
  BY <1>1, FileSzFacts
<1>5. c.part = d.part
  BY <1>1, <1>3, <1>4 DEF Loc, MDSz
<1> QED BY <1>1, <1>3, <1>5

-----------------------------------------------------------------------------
(***************************************************************************)
(* Writing: what a call puts into the file gets to its places, and what    *)
(* was there stays, since nothing else lies in those places.               *)
(***************************************************************************)
Covered(q, parts) == {c \in Cell : /\ c.part \in parts /\ (c.part = "trc" => ns > 0)
                                   /\ \E r \in Rank : c.place \in q.places[r]}

LEMMA WritePuts ==
  ASSUME TypeOK, Parts, NEW q, NEW parts, Write(q, parts)
  PROVE  /\ \A c \in Covered(q, parts) :
              /\ Loc(c, ns) \in DOMAIN content'
              /\ content'[Loc(c, ns)] = c
         /\ \A l \in DOMAIN content : l \in DOMAIN content' /\ content'[l] = content[l]
         /\ \A l \in DOMAIN content' :
              /\ Fits(content'[l], ns) /\ l = Loc(content'[l], ns)
              /\ l \in DOMAIN content \/ content'[l] \in Covered(q, parts)
<1> DEFINE cells == Covered(q, parts)
           locs  == {Loc(c, ns) : c \in cells}
           at(l) == CHOOSE c \in cells : Loc(c, ns) = l
<1>1. /\ ns \in Nat
      /\ \A c \in cells : Fits(c, ns)
      /\ \A l \in DOMAIN content : Fits(content[l], ns) /\ l = Loc(content[l], ns)
  BY SamplesAssumption DEF TypeOK, Parts, Covered, Fits
<1>2. content' = [l \in DOMAIN content \cup locs |-> IF l \in locs THEN at(l) ELSE content[l]]
  BY DEF Write, Covered
<1> HIDE DEF cells
<1>3. \A l \in locs : at(l) \in cells /\ Loc(at(l), ns) = l
  OBVIOUS
<1>4. \A c \in cells : at(Loc(c, ns)) = c
  <2> TAKE c \in cells
  <2>1. Loc(c, ns) \in locs
    OBVIOUS
  <2>2. at(Loc(c, ns)) \in cells /\ Loc(at(Loc(c, ns)), ns) = Loc(c, ns)
    BY <2>1, <1>3
  <2> HIDE DEF at
  <2> QED BY <2>2, <1>1, LocInjective
<1> HIDE DEF at
<1>5. \A c \in cells : Loc(c, ns) \in DOMAIN content' /\ content'[Loc(c, ns)] = c
  BY <1>2, <1>4
<1>6. ASSUME NEW l \in DOMAIN content
      PROVE  l \in DOMAIN content' /\ content'[l] = content[l]
  <2>1. CASE l \in locs
    <3>1. /\ at(l) \in cells /\ Loc(at(l), ns) = l
          /\ Fits(at(l), ns) /\ Fits(content[l], ns) /\ Loc(content[l], ns) = l
      BY <2>1, <1>1, <1>3, <1>6
    <3>2. at(l) = content[l]
      BY <3>1, <1>1, LocInjective
    <3> QED BY <2>1, <3>2, <1>2
  <2>2. CASE l \notin locs
    BY <2>2, <1>2, <1>6
  <2> QED BY <2>1, <2>2
<1>7. ASSUME NEW l \in DOMAIN content'
      PROVE  /\ Fits(content'[l], ns) /\ l = Loc(content'[l], ns)
             /\ l \in DOMAIN content \/ content'[l] \in cells
  <2>1. CASE l \in DOMAIN content
    BY <2>1, <1>1, <1>6
  <2>2. CASE l \notin DOMAIN content
    <3>1. l \in locs /\ content'[l] = at(l)
      BY <2>2, <1>2, <1>7
    <3> QED BY <3>1, <1>1, <1>3
  <2> QED BY <2>1, <2>2
<1> QED BY <1>5, <1>6, <1>7 DEF cells

LEMMA WriteGrows ==
  ASSUME TypeOK, NEW q, NEW parts, Write(q, parts)
  PROVE  /\ size' \in Nat /\ size <= size'
         /\ \A c \in Covered(q, parts) : Behind(c, ns) <= size'
<1> DEFINE cells == Covered(q, parts)
           S == {size} \cup {Behind(c, ns) : c \in cells}
           b == size + FileSz(MaxNt, ns)
<1>1. ns \in Nat /\ size \in Nat /\ MaxNt \in Nat
  BY SamplesAssumption, BoundsAssumption DEF TypeOK
<1>2. FileSz(MaxNt, ns) \in Nat
  BY <1>1, FileSzFacts
<1>3. ASSUME NEW c \in cells
      PROVE  Behind(c, ns) \in Nat /\ Behind(c, ns) <= FileSz(MaxNt, ns)
  <2>1. Fits(c, ns)
    BY DEF Covered, Fits
  <2>2. c.place + 1 \in Nat /\ c.place + 1 <= MaxNt
    BY <2>1, <1>1 DEF Fits, Cell, Place
  <2>3. /\ FileSz(c.place + 1, ns) \in Nat
        /\ FileSz(c.place + 1, ns) <= FileSz(MaxNt, ns)
    BY <2>2, <1>1, FileSzFacts
  <2>4. Behind(c, ns) \in Nat /\ Behind(c, ns) <= FileSz(c.place + 1, ns)
    BY <2>1, <1>1, LocFacts
  <2> QED BY <2>3, <2>4, <1>2
<1>4. size' = Max(S)
  BY DEF Write, Covered
<1> HIDE DEF cells
<1>5. S \in SUBSET Nat /\ S # {} /\ b \in Nat /\ \A x \in S : x <= b
  BY <1>1, <1>2, <1>3
<1>6. Max(S) \in S /\ \A x \in S : x <= Max(S)
  BY <1>5, MaxIs
<1> HIDE DEF S
<1>7. size \in S /\ \A c \in cells : Behind(c, ns) \in S
  BY DEF S
<1> QED BY <1>4, <1>5, <1>6, <1>7 DEF cells

\* Every process knows of the traces it has written.
LEMMA WriteCounts ==
  ASSUME TypeOK, NEW q, q.top \in [Rank -> 0 .. MaxNt], NEW parts, Write(q, parts)
  PROVE  /\ nt' \in [Rank -> 0 .. MaxNt]
         /\ \A r \in Rank : nt'[r] = IF nt[r] < q.top[r] THEN q.top[r] ELSE nt[r]
<1>1. ASSUME NEW a \in 0 .. MaxNt, NEW b \in 0 .. MaxNt
      PROVE  Max({a, b}) = IF b < a THEN a ELSE b
  <2>1. {a, b} \in SUBSET Nat /\ {a, b} # {} /\ \A x \in {a, b} : x <= MaxNt
    BY BoundsAssumption
  <2>2. Max({a, b}) \in {a, b} /\ \A x \in {a, b} : x <= Max({a, b})
    BY <2>1, MaxIs, BoundsAssumption
  <2> DEFINE m == Max({a, b})
  <2>3. (m = a \/ m = b) /\ a <= m /\ b <= m
    BY <2>2
  <2> HIDE DEF m
  <2>4. m = IF b < a THEN a ELSE b
    BY <2>3, BoundsAssumption
  <2> QED BY <2>4 DEF m
<1>2. \A r \in Rank : nt[r] \in 0 .. MaxNt /\ q.top[r] \in 0 .. MaxNt
  BY DEF TypeOK
<1>3. nt' = [r \in Rank |-> Max({q.top[r], nt[r]})]
  BY DEF Write
<1>4. \A r \in Rank : Max({q.top[r], nt[r]}) = IF nt[r] < q.top[r] THEN q.top[r] ELSE nt[r]
  BY <1>1, <1>2
<1> QED BY <1>2, <1>3, <1>4

-----------------------------------------------------------------------------
(***************************************************************************)
(* The invariant.                                                          *)
(***************************************************************************)
LEMMA FoundIsNat ==
  ASSUME NEW sz \in Nat, NEW h \in [ns : Nat, about : Abouts]
  PROVE  (IF sz >= HOSz THEN (sz - HOSz) \div DOSz(h.ns) ELSE 0) \in Nat
<1>1. DOSz(h.ns) \in Nat \ {0}
  BY FileSzFacts
<1>2. CASE sz >= HOSz
  <2>1. sz - HOSz \in Nat
    BY <1>2 DEF HOSz
  <2> QED BY <1>2, <2>1, <1>1, DivFacts
<1> QED BY <1>2

LEMMA InitInv == Init => Inv
<1> SUFFICES ASSUME Init
             PROVE  Inv
  OBVIOUS
<1>1. 0 \in Rank /\ \A r \in Rank : pc[r] = "open"
  BY NumRankAssumption DEF Rank, Init
<1>2. nt = [r \in Rank |-> 0] /\ nt \in [Rank -> 0 .. MaxNt]
  BY BoundsAssumption DEF Init
<1>3. Max({nt[s] : s \in Rank}) = nt[0]
  BY <1>1, <1>2, MostUnique
<1>4. size \in Nat /\ header \in [ns : Nat, about : Abouts]
  BY OldFilesAssumption DEF Init
<1>5. DOMAIN content = {}
  BY DEF Init
<1>6. TypeOK
  <2>1. FoundNt \in Nat
    BY <1>4, FoundIsNat DEF FoundNt
  <2>2. stalent \in [Rank -> BOOLEAN] /\ resize \in [Rank -> BOOLEAN]
        /\ pc \in [Rank -> {"open", "nt", "size", "header", "close", "closed"}]
    BY DEF Init
  <2>3. /\ DOMAIN content \subseteq HOSz .. size - 1
        /\ \A l \in DOMAIN content : content[l] \in Cell /\ l = Loc(content[l], ns)
    BY <1>5
  <2>4. calls \in 0 .. MaxCalls /\ ns \in {0} \cup Samples
    BY BoundsAssumption DEF Init
  <2>5. about \in Abouts
    BY AboutsAssumption DEF Init
  <2>6. nsSet \in BOOLEAN /\ isErr \in BOOLEAN
    BY Zenon DEF Init
  <2> QED BY <2>1, <2>2, <2>3, <2>4, <2>5, <2>6, <1>2, <1>4 DEF TypeOK
<1>7. CountKnown
  BY <1>1, <1>2, <1>3 DEF CountKnown
<1>8. SameFlags /\ InStep /\ Given
  BY <1>1, <1>2 DEF Init, SameFlags, InStep, Given
<1>9. Parts /\ Sized /\ Headed
  BY <1>1, <1>5 DEF Parts, Sized, Headed, Resized
<1> QED BY <1>6, <1>7, <1>8, <1>9 DEF Inv

\* A call finds all processes before their destructors, and leaves them there.
LEMMA CallKeepsOpen ==
  ASSUME Inv, Call
  PROVE  /\ \A r \in Rank : pc[r] = "open" /\ pc'[r] = "open"
         /\ 0 \in Rank
         /\ calls' \in 0 .. MaxCalls /\ pc' = pc /\ header' = header
         /\ InStep' /\ Sized' /\ Headed'
         /\ \A r \in Rank : pc'[r] = "size" => ~stalent'[r]
<1>1. 0 \in Rank
  BY NumRankAssumption DEF Rank
<1>2. \A r \in Rank : pc[r] = "open" /\ pc'[r] = "open"
  BY DEF Call
<1>3. calls' \in 0 .. MaxCalls
  BY BoundsAssumption DEF Inv, TypeOK, Call
<1>4. InStep' /\ Sized' /\ Headed'
  BY <1>1, <1>2 DEF InStep, Sized, Headed, Resized
<1> QED BY <1>1, <1>2, <1>3, <1>4 DEF Call

LEMMA WriteNsInv ==
  ASSUME Inv, NEW n \in Samples, WriteNs(n)
  PROVE  Inv'
<1>1. Call
  BY DEF WriteNs
<1>2. /\ calls' \in 0 .. MaxCalls /\ pc' = pc /\ header' = header
      /\ InStep' /\ Sized' /\ Headed'
      /\ \A r \in Rank : pc'[r] = "size" => ~stalent'[r]
  BY <1>1, CallKeepsOpen
<1>3. content' = <<>> /\ content = <<>> /\ DOMAIN content' = {}
  BY DEF WriteNs
<1>4. UNCHANGED <<about, nt, stalent, size>>
  BY DEF WriteNs
<1>5. ns' \in {0} \cup Samples /\ nsSet' \in BOOLEAN /\ isErr' \in BOOLEAN
      /\ resize' \in [Rank -> BOOLEAN]
  BY DEF WriteNs, Inv, TypeOK
<1>6. TypeOK'
  <2>1. FoundNt' = FoundNt
    BY <1>2, <1>4 DEF FoundNt
  <2> QED BY <1>2, <1>3, <1>4, <1>5, <2>1 DEF Inv, TypeOK
<1>7. CountKnown'
  BY <1>2, <1>4 DEF Inv, CountKnown
<1>8. SameFlags'
  BY <1>4 DEF WriteNs, Inv, SameFlags
<1>9. Given'
  BY SamplesAssumption DEF WriteNs, Inv, Given, TypeOK
<1>10. Parts'
  BY <1>3 DEF Parts
<1> QED BY <1>2, <1>6, <1>7, <1>8, <1>9, <1>10 DEF Inv

LEMMA WriteNtInv ==
  ASSUME Inv, NEW n \in 0 .. MaxNt, WriteNt(n)
  PROVE  Inv'
<1>1. Call
  BY DEF WriteNt
<1>2. /\ calls' \in 0 .. MaxCalls /\ pc' = pc /\ header' = header
      /\ InStep' /\ Sized' /\ Headed' /\ 0 \in Rank
      /\ \A r \in Rank : pc'[r] = "size" => ~stalent'[r]
  BY <1>1, CallKeepsOpen
<1>3. /\ UNCHANGED <<ns, nsSet, about, isErr, size, content>>
      /\ nt' = [r \in Rank |-> n] /\ stalent' = [r \in Rank |-> FALSE]
      /\ resize' = [r \in Rank |-> resize[r] \/ nt[r] # n]
  BY DEF WriteNt, told
<1>4. TypeOK'
  <2>1. FoundNt' = FoundNt
    BY <1>2, <1>3 DEF FoundNt
  <2> QED BY <1>2, <1>3, <2>1 DEF Inv, TypeOK
<1>5. CountKnown'
  <2>1. nt' \in [Rank -> 0 .. MaxNt] /\ \A r \in Rank : nt'[r] = n
    BY <1>3
  <2>2. Max({nt'[r] : r \in Rank}) = nt'[0]
    BY <2>1, <1>2, MostUnique
  <2> QED BY <1>2, <2>1, <2>2 DEF CountKnown
<1>6. SameFlags'
  <2>1. ASSUME NEW r \in Rank, NEW s \in Rank, ~isErr
        PROVE  resize'[r] = resize'[s]
    <3>1. CASE nsSet
      BY <3>1, <1>3 DEF Inv, Given
    <3>2. CASE ~nsSet
      BY <3>2, <2>1, <1>3 DEF Inv, SameFlags
    <3> QED BY <3>1, <3>2
  <2> QED BY <2>1, <1>3 DEF SameFlags
<1>7. Given' /\ Parts'
  BY <1>3 DEF Inv, Given, Parts
<1> QED BY <1>2, <1>4, <1>5, <1>6, <1>7 DEF Inv

LEMMA WriteAboutInv ==
  ASSUME Inv, NEW a \in Abouts, WriteAbout(a)
  PROVE  Inv'
<1>1. Call
  BY DEF WriteAbout
<1>2. /\ calls' \in 0 .. MaxCalls /\ pc' = pc /\ header' = header
      /\ InStep' /\ Sized' /\ Headed'
      /\ \A r \in Rank : pc'[r] = "size" => ~stalent'[r]
  BY <1>1, CallKeepsOpen
<1>3. /\ UNCHANGED <<ns, nsSet, nt, stalent, resize, size, content>>
      /\ about' \in Abouts /\ isErr' \in BOOLEAN /\ (isErr => isErr')
  <2>1. about \in Abouts /\ isErr \in BOOLEAN
    BY DEF Inv, TypeOK
  <2>2. (about' = a /\ isErr' = isErr) \/ (isErr' = TRUE /\ about' = about)
    BY DEF WriteAbout
  <2> QED BY <2>1, <2>2 DEF WriteAbout
<1>4. TypeOK'
  <2>1. FoundNt' = FoundNt
    BY <1>2, <1>3 DEF FoundNt
  <2> QED BY <1>2, <1>3, <2>1 DEF Inv, TypeOK
<1>5. CountKnown' /\ SameFlags'
  BY <1>2, <1>3 DEF Inv, CountKnown, SameFlags
<1>6. Given' /\ Parts'
  BY <1>3 DEF Inv, Given, Parts
<1> QED BY <1>2, <1>4, <1>5, <1>6 DEF Inv

\* A call in which somebody writes; the top of a process is behind its last.
Written(q) ==
  /\ q.top \in [Rank -> 0 .. MaxNt]
  /\ \A r \in Rank : /\ q.places[r] \subseteq Place
                     /\ \A p \in q.places[r] : p < q.top[r]
                     /\ q.top[r] > 0 => q.top[r] - 1 \in q.places[r]
  /\ \E r \in Rank : q.top[r] > 0

LEMMA ContiguousWritten ==
  ASSUME NEW offset \in [Rank -> 0 .. MaxNt], NEW sz \in [Rank -> 0 .. MaxNt],
         \A r \in Rank : /\ offset[r] + sz[r] <= MaxNt
                         /\ sz[r] = 0 => offset[r] = 0,
         \E r \in Rank : sz[r] # 0
  PROVE  Written(Contiguous(offset, sz))
<1> DEFINE q == Contiguous(offset, sz)
<1>1. ASSUME NEW r \in Rank
      PROVE  /\ offset[r] \in Nat /\ sz[r] \in Nat
             /\ q.places[r] = offset[r] .. offset[r] + sz[r] - 1
             /\ q.top[r] = offset[r] + sz[r] /\ q.top[r] \in 0 .. MaxNt
  BY BoundsAssumption DEF Contiguous
<1>2. q.top \in [Rank -> 0 .. MaxNt]
  <2>1. q.top = [r \in Rank |-> offset[r] + sz[r]]
    BY DEF Contiguous
  <2>2. \A r \in Rank : offset[r] + sz[r] \in 0 .. MaxNt
    BY <1>1
  <2> QED BY <2>1, <2>2
<1> HIDE DEF q
<1>3. ASSUME NEW r \in Rank
      PROVE  /\ q.places[r] \subseteq Place
             /\ \A p \in q.places[r] : p < q.top[r]
             /\ q.top[r] > 0 => q.top[r] - 1 \in q.places[r]
  <2>1. /\ offset[r] \in Nat /\ sz[r] \in Nat /\ MaxNt \in Nat
        /\ offset[r] + sz[r] <= MaxNt /\ (sz[r] = 0 => offset[r] = 0)
    BY <1>1, BoundsAssumption
  <2> DEFINE a == offset[r]
             b == sz[r]
  <2>2. q.places[r] = a .. a + b - 1 /\ q.top[r] = a + b
    BY <1>1
  <2> HIDE DEF a, b
  <2>3. a \in Nat /\ b \in Nat /\ a + b <= MaxNt /\ (b = 0 => a = 0)
    BY <2>1 DEF a, b
  <2>4. \A p \in q.places[r] : p \in Place /\ p < q.top[r]
    BY <2>1, <2>2, <2>3 DEF Place
  <2>5. q.top[r] > 0 => q.top[r] - 1 \in q.places[r]
    BY <2>2, <2>3
  <2> QED BY <2>4, <2>5
<1>4. \E r \in Rank : q.top[r] > 0
  <2>1. PICK r \in Rank : sz[r] # 0
    OBVIOUS
  <2>2. q.top[r] > 0
    BY <2>1, <1>1
  <2> QED BY <2>2
<1> QED BY <1>2, <1>3, <1>4 DEF Written, q

LEMMA ListedWritten ==
  ASSUME NEW P \in [Rank -> SUBSET Place], \E r \in Rank : P[r] # {}
  PROVE  Written(Listed(P))
<1> DEFINE q == Listed(P)
           top(r) == IF P[r] = {} THEN 0 ELSE Max(P[r]) + 1
<1>1. ASSUME NEW r \in Rank
      PROVE  /\ P[r] \subseteq Place /\ top(r) \in 0 .. MaxNt
             /\ \A p \in P[r] : p < top(r)
             /\ top(r) > 0 => top(r) - 1 \in P[r]
             /\ P[r] # {} => top(r) > 0
  <2>1. P[r] \subseteq Place
    OBVIOUS
  <2>2. CASE P[r] = {}
    BY <2>2, BoundsAssumption
  <2>3. CASE P[r] # {}
    <3>1. P[r] \in SUBSET Nat /\ \A x \in P[r] : x <= MaxNt
      BY <2>1, BoundsAssumption DEF Place
    <3>2. Max(P[r]) \in P[r] /\ \A x \in P[r] : x <= Max(P[r])
      BY <3>1, <2>3, MaxIs, BoundsAssumption
    <3> DEFINE m == Max(P[r])
    <3>3. m \in P[r] /\ m \in Place /\ \A x \in P[r] : x <= m
      BY <2>1, <3>2
    <3>4. top(r) = m + 1
      BY <2>3
    <3> HIDE DEF m
    <3>5. m \in Nat /\ m + 1 <= MaxNt
      BY <3>3, BoundsAssumption DEF Place
    <3>6. \A p \in P[r] : p < m + 1
      BY <3>1, <3>3, <3>5
    <3> HIDE DEF top
    <3>7. top(r) - 1 = m /\ top(r) > 0 /\ top(r) \in 0 .. MaxNt
      BY <3>4, <3>5, BoundsAssumption
    <3> QED BY <2>1, <3>3, <3>4, <3>6, <3>7
  <2> QED BY <2>2, <2>3
<1>2. /\ \A r \in Rank : q.places[r] = P[r] /\ q.top[r] = top(r)
      /\ q.top = [r \in Rank |-> top(r)]
  BY DEF Listed
<1> HIDE DEF q, top
<1>3. q.top \in [Rank -> 0 .. MaxNt]
  BY <1>1, <1>2
<1>4. \E r \in Rank : q.top[r] > 0
  BY <1>1, <1>2
<1> QED BY <1>1, <1>2, <1>3, <1>4 DEF Written, q

\* What a step that writes does: the call, and who writes what.
LEMMA WriteStep ==
  ASSUME WriteTrace \/ WriteTraceNonContiguous
  PROVE  /\ Call
         /\ \E q : \E p \in (SUBSET {"prm", "trc"}) \ {{}} : Written(q) /\ Write(q, p)
<1>1. CASE WriteTrace
  <2>1. PICK offset \in [Rank -> 0 .. MaxNt], sz \in [Rank -> 0 .. MaxNt],
             p \in (SUBSET {"prm", "trc"}) \ {{}} :
          /\ \A r \in Rank : /\ offset[r] + sz[r] <= MaxNt
                             /\ sz[r] = 0 => offset[r] = 0
          /\ \E r \in Rank : sz[r] # 0
          /\ Write(Contiguous(offset, sz), p)
    BY <1>1 DEF WriteTrace
  <2>2. Written(Contiguous(offset, sz))
    BY <2>1, ContiguousWritten
  <2> QED BY <1>1, <2>1, <2>2 DEF WriteTrace
<1>2. CASE WriteTraceNonContiguous
  <2>1. PICK P \in [Rank -> SUBSET Place], p \in (SUBSET {"prm", "trc"}) \ {{}} :
          /\ \E r \in Rank : P[r] # {}
          /\ Write(Listed(P), p)
    BY <1>2 DEF WriteTraceNonContiguous
  <2>2. Written(Listed(P))
    BY <2>1, ListedWritten
  <2> QED BY <1>2, <2>1, <2>2 DEF WriteTraceNonContiguous
<1> QED BY <1>1, <1>2

LEMMA WriteInv ==
  ASSUME Inv, Call, NEW q, Written(q), NEW parts, Write(q, parts)
  PROVE  Inv'
<1>1. /\ calls' \in 0 .. MaxCalls /\ pc' = pc /\ header' = header
      /\ InStep' /\ Sized' /\ Headed'
      /\ \A r \in Rank : pc'[r] = "size" => ~stalent'[r]
  BY CallKeepsOpen
<1>2. TypeOK /\ Parts /\ ns \in Nat
  BY SamplesAssumption DEF Inv, TypeOK
<1>3. /\ UNCHANGED <<ns, nsSet, about, resize>>
      /\ isErr' = (isErr \/ ~nsSet)
      /\ stalent' = [r \in Rank |-> stalent[r] \/ TRUE]
  BY DEF Write, Stale
<1>4. /\ size' \in Nat /\ size <= size'
      /\ \A c \in Covered(q, parts) : Behind(c, ns) <= size'
  BY <1>2, WriteGrows
<1>5. nt' \in [Rank -> 0 .. MaxNt]
  BY <1>2, WriteCounts DEF Written
<1>6. /\ \A c \in Covered(q, parts) :
              Loc(c, ns) \in DOMAIN content' /\ content'[Loc(c, ns)] = c
      /\ \A l \in DOMAIN content : l \in DOMAIN content' /\ content'[l] = content[l]
      /\ \A l \in DOMAIN content' :
           /\ Fits(content'[l], ns) /\ l = Loc(content'[l], ns)
           /\ l \in DOMAIN content \/ content'[l] \in Covered(q, parts)
  BY <1>2, WritePuts
<1>7. ASSUME NEW l \in DOMAIN content'
      PROVE  l \in HOSz .. size' - 1
  <2>1. CASE l \in DOMAIN content
    <3>1. l \in HOSz .. size - 1 /\ size \in Nat
      BY <2>1, <1>2 DEF TypeOK
    <3> QED BY <3>1, <1>4 DEF HOSz
  <2>2. CASE content'[l] \in Covered(q, parts)
    <3>1. /\ Fits(content'[l], ns) /\ l = Loc(content'[l], ns)
          /\ Behind(content'[l], ns) <= size'
      BY <1>4, <1>6, <1>7, <2>2
    <3>2. l \in Nat /\ HOSz <= l /\ l < Behind(content'[l], ns) /\ Behind(content'[l], ns) \in Nat
      BY <3>1, <1>2, LocFacts
    <3> QED BY <3>1, <3>2, <1>4 DEF HOSz
  <2> QED BY <1>6, <1>7, <2>1, <2>2
<1>8. TypeOK'
  <2>1. FoundNt' \in Nat
    BY <1>1, <1>2, <1>4, FoundIsNat DEF FoundNt, TypeOK
  <2>2. isErr' \in BOOLEAN
    BY <1>2, <1>3 DEF TypeOK
  <2>3. stalent' \in [Rank -> BOOLEAN]
    BY <1>3
  <2>4. \A l \in DOMAIN content' : content'[l] \in Cell /\ l = Loc(content'[l], ns')
    BY <1>3, <1>6 DEF Fits
  <2> QED BY <1>1, <1>2, <1>3, <1>4, <1>5, <1>7, <2>1, <2>2, <2>3, <2>4 DEF TypeOK
<1>9. CountKnown'
  BY <1>1, <1>3 DEF CountKnown
<1>10. SameFlags'
  <2>1. ASSUME ~isErr'
        PROVE  nsSet /\ nsSet' /\ \A r \in Rank : resize'[r]
    BY <2>1, <1>3 DEF Inv, Given
  <2> QED BY <1>3, <2>1 DEF SameFlags, Inv, TypeOK
<1>11. Given'
  BY <1>3 DEF Inv, Given
<1>12. Parts'
  BY <1>3, <1>6 DEF Parts, Fits
<1> QED BY <1>1, <1>8, <1>9, <1>10, <1>11, <1>12 DEF Inv

\* Where one that is told alike goes in the destructor.
LEMMA EntryIs ==
  ASSUME Inv, NEW r \in Rank
  PROVE  /\ Entry(r) \in {"close", "nt", "size", "header"}
         /\ isErr => Entry(r) = "close"
         /\ ~isErr => Entry(r) # "close"
         /\ ~isErr /\ nsSet => Entry(r) \in {"nt", "size"}
         /\ Entry(r) = "size" => ~stalent[r]
  BY DEF Inv, Given, Entry, AfterNt

LEMMA DestroyInv ==
  ASSUME Inv, NEW r \in Rank, Destroy(r)
  PROVE  /\ Inv'
         /\ ~isErr /\ nsSet => pc'[r] \in {"nt", "size"}
<1>1. /\ UNCHANGED <<calls, ns, nsSet, about, isErr, nt, stalent, resize, size, header, content>>
      /\ pc[r] = "open" /\ pc' = [pc EXCEPT ![r] = Entry(r)]
      /\ \A s \in Rank : Entry(s)' = Entry(s)
  BY DEF Destroy, told, Entry
<1>2. pc \in [Rank -> {"open", "nt", "size", "header", "close", "closed"}]
  BY DEF Inv, TypeOK
<1>3. \A s \in Rank : pc'[s] = IF s = r THEN Entry(r) ELSE pc[s]
  BY <1>1, <1>2
<1>4. /\ pc'[r] \in {"close", "nt", "size", "header"}
      /\ ~isErr => pc'[r] # "close"
      /\ ~isErr /\ nsSet => pc'[r] \in {"nt", "size"}
      /\ pc'[r] = "size" => ~stalent[r]
  BY <1>3, EntryIs
<1>5. TypeOK'
  <2>1. FoundNt' = FoundNt
    BY <1>1 DEF FoundNt
  <2>2. pc' \in [Rank -> {"open", "nt", "size", "header", "close", "closed"}]
    BY <1>1, <1>2, <1>3, <1>4
  <2> QED BY <1>1, <2>1, <2>2 DEF Inv, TypeOK
<1>6. CountKnown' /\ SameFlags' /\ Given' /\ Parts'
  BY <1>1, <1>3, <1>4 DEF Inv, CountKnown, SameFlags, Given, Parts
<1>7. \A s \in Rank : pc[s] \in {"open", Entry(s)}
  BY <1>1 DEF Inv, InStep
<1>8. \A s \in Rank : pc'[s] \in {"open", Entry(s)}
  BY <1>3, <1>7
<1>9. InStep'
  BY <1>1, <1>8 DEF InStep
<1>10. Sized'
  BY <1>1, <1>4 DEF Sized, Resized
<1>11. Headed'
  <2>1. ASSUME ~isErr, NEW s \in Rank
        PROVE  pc'[s] \notin {"close", "closed"}
    BY <1>8, <2>1, EntryIs
  <2> QED BY <1>1, <2>1 DEF Headed
<1> QED BY <1>4, <1>5, <1>6, <1>9, <1>10, <1>11 DEF Inv

\* After a call that all have made they are all at the next.
LEMMA TogetherKeeps ==
  ASSUME Inv, NEW from,
         NEW to \in {"open", "nt", "size", "header", "close", "closed"}, Together(from, to)
  PROVE  /\ UNCHANGED <<calls, ns, nsSet, about, isErr>>
         /\ 0 \in Rank
         /\ \A r \in Rank : pc[r] = from /\ pc'[r] = to
         /\ pc' \in [Rank -> {"open", "nt", "size", "header", "close", "closed"}]
         /\ InStep'
<1>1. 0 \in Rank
  BY NumRankAssumption DEF Rank
<1> QED BY <1>1 DEF Together, told, InStep

LEMMA CalcNtInv ==
  ASSUME Inv, CalcNt
  PROVE  /\ Inv'
         /\ Max({nt'[r] : r \in Rank}) = Max({nt[r] : r \in Rank})
<1> DEFINE m == Max({nt[r] : r \in Rank})
<1>1. /\ UNCHANGED <<calls, ns, nsSet, about, isErr, size, header, content>>
      /\ 0 \in Rank
      /\ \A r \in Rank : pc[r] = "nt" /\ pc'[r] = "size"
      /\ pc' \in [Rank -> {"open", "nt", "size", "header", "close", "closed"}]
      /\ InStep'
  <2>1. Together("nt", "size")
    BY DEF CalcNt, AfterNt
  <2> QED BY <2>1, TogetherKeeps DEF CalcNt
<1>2. m \in 0 .. MaxNt
  BY MostIs DEF Inv, TypeOK
<1>3. nt' = [r \in Rank |-> m] /\ stalent' = [r \in Rank |-> FALSE] /\ resize' = [r \in Rank |-> TRUE]
  BY DEF CalcNt, MostNt
<1> HIDE DEF m
<1>4. nt' \in [Rank -> 0 .. MaxNt] /\ \A r \in Rank : nt'[r] = m
  BY <1>2, <1>3
<1>5. Max({nt'[r] : r \in Rank}) = m
  <2>1. Max({nt'[r] : r \in Rank}) = nt'[0]
    BY <1>1, <1>2, <1>4, MostUnique
  <2> QED BY <2>1, <1>1, <1>4
<1>6. TypeOK'
  <2>1. FoundNt' = FoundNt
    BY <1>1 DEF FoundNt
  <2> QED BY <1>1, <1>3, <1>4, <2>1 DEF Inv, TypeOK
<1>7. CountKnown' /\ SameFlags'
  BY <1>3, <1>4, <1>5 DEF CountKnown, SameFlags
<1>8. Given' /\ Parts'
  BY <1>1, <1>3 DEF Inv, Given, Parts
<1>9. Sized' /\ Headed'
  BY <1>1 DEF Sized, Headed, Resized
<1> QED BY <1>1, <1>5, <1>6, <1>7, <1>8, <1>9 DEF Inv, m

\* The size all of them pass is that of all traces.
LEMMA SetFileSzInv ==
  ASSUME Inv, SetFileSz
  PROVE  /\ Inv'
         /\ nt[0] \in Nat /\ nt[0] = Max({nt[r] : r \in Rank})
         /\ size' = FileSz(nt[0], ns)
         /\ DOMAIN content' = {l \in DOMAIN content : l < size'}
         /\ \A l \in DOMAIN content' : content'[l] = content[l]
<1>1. /\ UNCHANGED <<calls, ns, nsSet, about, isErr, nt, stalent, resize, header>>
      /\ 0 \in Rank
      /\ \A r \in Rank : pc[r] = "size" /\ pc'[r] = "header"
      /\ pc' \in [Rank -> {"open", "nt", "size", "header", "close", "closed"}]
      /\ InStep'
  <2>1. Together("size", "header")
    BY DEF SetFileSz
  <2> QED BY <2>1, TogetherKeeps DEF SetFileSz
<1>2. nt[0] = Max({nt[r] : r \in Rank})
  BY <1>1 DEF Inv, CountKnown
<1>3. nt[0] \in Nat /\ ns \in Nat
  BY <1>1, BoundsAssumption, SamplesAssumption DEF Inv, TypeOK
<1>4. size' = FileSz(nt[0], ns) /\ size' \in Nat /\ size' >= HOSz
  BY <1>3, FileSzFacts DEF SetFileSz
<1>5. /\ DOMAIN content' = {l \in DOMAIN content : l < size'}
      /\ \A l \in DOMAIN content' : content'[l] = content[l]
  BY DEF SetFileSz
<1>6. TypeOK'
  <2>1. FoundNt' \in Nat
    BY <1>1, <1>4, FoundIsNat DEF Inv, TypeOK, FoundNt
  <2>2. \A l \in DOMAIN content' : content'[l] \in Cell /\ l = Loc(content'[l], ns')
    BY <1>1, <1>5 DEF Inv, TypeOK
  <2>3. DOMAIN content' \subseteq HOSz .. size' - 1
    <3>1. DOMAIN content \subseteq HOSz .. size - 1
      BY DEF Inv, TypeOK
    <3> QED BY <3>1, <1>4, <1>5 DEF HOSz
  <2> QED BY <1>1, <1>4, <2>1, <2>2, <2>3 DEF Inv, TypeOK
<1>7. CountKnown' /\ SameFlags' /\ Given'
  BY <1>1 DEF Inv, CountKnown, SameFlags, Given
<1>8. Parts'
  BY <1>1, <1>5 DEF Inv, Parts
<1>9. Sized' /\ Headed'
  BY <1>1, <1>4 DEF Sized, Headed
<1> QED BY <1>1, <1>2, <1>3, <1>4, <1>5, <1>6, <1>7, <1>8, <1>9 DEF Inv

LEMMA WriteHOInv ==
  ASSUME Inv, WriteHO
  PROVE  /\ Inv'
         /\ ~isErr /\ nsSet => size' = size
<1>1. /\ UNCHANGED <<calls, ns, nsSet, about, isErr, nt, stalent, resize, content>>
      /\ 0 \in Rank
      /\ \A r \in Rank : pc[r] = "header" /\ pc'[r] = "close"
      /\ pc' \in [Rank -> {"open", "nt", "size", "header", "close", "closed"}]
      /\ InStep'
  <2>1. Together("header", "close")
    BY DEF WriteHO
  <2> QED BY <2>1, TogetherKeeps DEF WriteHO
<1>2. size \in Nat /\ ns \in Nat /\ about \in Abouts
  BY SamplesAssumption DEF Inv, TypeOK
<1>3. size' \in Nat /\ size <= size' /\ HOSz <= size' /\ size' \in {size, HOSz}
  <2>1. {size, HOSz} \in SUBSET Nat /\ size + HOSz \in Nat
        /\ \A x \in {size, HOSz} : x <= size + HOSz
    BY <1>2 DEF HOSz
  <2>2. /\ Max({size, HOSz}) \in {size, HOSz}
        /\ \A x \in {size, HOSz} : x <= Max({size, HOSz})
    BY <2>1, MaxIs
  <2> QED BY <2>1, <2>2 DEF WriteHO
<1>4. header' = [ns |-> ns, about |-> about] /\ header' \in [ns : Nat, about : Abouts]
  BY <1>2 DEF WriteHO
<1>5. ~isErr /\ nsSet => size' = size
  <2>1. ~isErr /\ nsSet => size >= HOSz
    BY <1>1 DEF Inv, Sized, Resized
  <2> QED BY <2>1, <1>2, <1>3 DEF HOSz
<1>6. TypeOK'
  <2>1. FoundNt' \in Nat
    BY <1>3, <1>4, FoundIsNat DEF FoundNt
  <2>2. \A l \in DOMAIN content' : content'[l] \in Cell /\ l = Loc(content'[l], ns')
    BY <1>1 DEF Inv, TypeOK
  <2>3. DOMAIN content' \subseteq HOSz .. size' - 1
    <3>1. DOMAIN content \subseteq HOSz .. size - 1
      BY DEF Inv, TypeOK
    <3> QED BY <3>1, <1>1, <1>2, <1>3 DEF HOSz
  <2> QED BY <1>1, <1>3, <1>4, <2>1, <2>2, <2>3 DEF Inv, TypeOK
<1>7. CountKnown' /\ SameFlags' /\ Given' /\ Parts'
  BY <1>1 DEF Inv, CountKnown, SameFlags, Given, Parts
<1>8. Sized' /\ Headed'
  BY <1>1, <1>3, <1>4 DEF Sized, Headed, HOSz
<1> QED BY <1>1, <1>5, <1>6, <1>7, <1>8 DEF Inv

LEMMA CloseFileInv ==
  ASSUME Inv, CloseFile
  PROVE  Inv'
<1>1. /\ UNCHANGED <<calls, ns, nsSet, about, isErr, nt, stalent, resize, size, header, content>>
      /\ 0 \in Rank
      /\ \A r \in Rank : pc[r] = "close" /\ pc'[r] = "closed"
      /\ pc' \in [Rank -> {"open", "nt", "size", "header", "close", "closed"}]
      /\ InStep'
  <2>1. Together("close", "closed")
    BY DEF CloseFile
  <2> QED BY <2>1, TogetherKeeps DEF CloseFile
<1>2. TypeOK'
  <2>1. FoundNt' = FoundNt
    BY <1>1 DEF FoundNt
  <2> QED BY <1>1, <2>1 DEF Inv, TypeOK
<1>3. CountKnown' /\ SameFlags' /\ Given' /\ Parts'
  BY <1>1 DEF Inv, CountKnown, SameFlags, Given, Parts
<1>4. Sized' /\ Headed'
  BY <1>1 DEF Inv, Sized, Headed, Resized
<1> QED BY <1>1, <1>2, <1>3, <1>4 DEF Inv

LEMMA StutterInv ==
  ASSUME Inv, UNCHANGED vars
  PROVE  Inv'
<1>1. UNCHANGED <<calls, pc, ns, nsSet, about, isErr, nt, stalent, resize, size, header, content>>
  BY DEF vars, told
<1> QED BY <1>1 DEF Inv, TypeOK, FoundNt, CountKnown, SameFlags, InStep, Entry, Given, Parts,
                    Sized, Headed, Resized

LEMMA NextInv == Inv /\ [Next]_vars => Inv'
<1> SUFFICES ASSUME Inv, [Next]_vars
             PROVE  Inv'
  OBVIOUS
<1>1. ASSUME NEW n \in Samples, WriteNs(n) PROVE Inv'
  BY <1>1, WriteNsInv
<1>2. ASSUME NEW n \in 0 .. MaxNt, WriteNt(n) PROVE Inv'
  BY <1>2, WriteNtInv
<1>3. ASSUME NEW a \in Abouts, WriteAbout(a) PROVE Inv'
  BY <1>3, WriteAboutInv
<1>4. CASE WriteTrace \/ WriteTraceNonContiguous
  BY <1>4, WriteStep, WriteInv
<1>5. ASSUME NEW r \in Rank, Destroy(r) PROVE Inv'
  BY <1>5, DestroyInv
<1>6. CASE CalcNt
  BY <1>6, CalcNtInv
<1>7. CASE SetFileSz
  BY <1>7, SetFileSzInv
<1>8. CASE WriteHO
  BY <1>8, WriteHOInv
<1>9. CASE CloseFile
  BY <1>9, CloseFileInv
<1>10. CASE Finished \/ UNCHANGED vars
  BY <1>10, StutterInv DEF Finished
<1> QED BY <1>1, <1>2, <1>3, <1>4, <1>5, <1>6, <1>7, <1>8, <1>9, <1>10 DEF Next

(***************************************************************************)
(* The inductive invariant holds in every reachable state.                 *)
(***************************************************************************)
THEOREM Inductive == Spec => []Inv
  BY InitInv, NextInv, PTL DEF Spec

(***************************************************************************)
(* The types of the variables: no part of a trace lies in the header or    *)
(* behind the end, and each lies where the layout says (TypeOK).           *)
(***************************************************************************)
THEOREM TypesKept == Spec => []TypeOK
<1>1. Inv => TypeOK
  BY DEF Inv
<1> QED BY <1>1, Inductive, PTL

(***************************************************************************)
(* ~WriteSEGY: whoever takes its count for current has the count of all,   *)
(* whatever was written where, so that all pass the same size of the file. *)
(***************************************************************************)
THEOREM CountAlwaysKnown == Spec => []CountKnown
<1>1. Inv => CountKnown
  BY DEF Inv
<1> QED BY <1>1, Inductive, PTL

(***************************************************************************)
(* No process waits in its destructor for a call that another one leaves   *)
(* out: those who are in theirs are at the same call.                      *)
(***************************************************************************)
SameCall == \A r, s \in Rank : pc[r] # "open" /\ pc[s] # "open" => pc[r] = pc[s]

THEOREM DestructorsMeet == Spec => []SameCall
<1>1. ASSUME Inv, NEW r \in Rank, NEW s \in Rank, pc[r] # "open", pc[s] # "open"
      PROVE  pc[r] = pc[s]
  <2>1. CASE \A t, u \in Rank : pc[t] = pc[u]
    BY <2>1
  <2>2. CASE \A t \in Rank : pc[t] \in {"open", Entry(t)}
    <3>1. pc[r] = Entry(r) /\ pc[s] = Entry(s)
      BY <1>1, <2>2
    <3>2. Entry(r) = Entry(s)
      BY <1>1 DEF Inv, SameFlags, Entry
    <3> QED BY <3>1, <3>2
  <2> QED BY <1>1, <2>1, <2>2 DEF Inv, InStep
<1>2. Inv => SameCall
  BY <1>1 DEF SameCall
<1> QED BY <1>2, Inductive, PTL

-----------------------------------------------------------------------------
(***************************************************************************)
(* The file implements TraceFile.  What Promise takes for the count and    *)
(* for the state:                                                          *)
(***************************************************************************)
PCount == IF Resized /\ ~Garbage THEN (size - HOSz) \div DOSz(ns)
          ELSE Max({nt[r] : r \in Rank})
PState == IF Garbage THEN "failed" ELSE IF Resized THEN "closed" ELSE "open"

LEMMA PromiseInit == Init => Promise!Init
<1> SUFFICES ASSUME Init
             PROVE  Promise!Init
  OBVIOUS
<1>1. 0 \in Rank /\ \A r \in Rank : pc[r] = "open"
  BY NumRankAssumption DEF Rank, Init
<1>2. ~Resized /\ ~Garbage
  BY <1>1 DEF Resized, Garbage, Init
<1>3. Max({nt[r] : r \in Rank}) = 0
  <2>1. nt \in [Rank -> 0 .. MaxNt] /\ \A r \in Rank : nt[r] = 0
    BY BoundsAssumption DEF Init
  <2> QED BY <2>1, <1>1, MostUnique
<1>4. Held = {}
  BY DEF Held, Init
<1> QED BY <1>2, <1>3, <1>4 DEF Promise!Init

LEMMA PromiseFail ==
  ASSUME PState # "closed", PState' = "failed"
  PROVE  Promise!Next
  BY DEF Promise!Next, Promise!Fail, PState

LEMMA PromiseStutter ==
  ASSUME UNCHANGED <<Held, PCount, PState>>
  PROVE  UNCHANGED Promise!vars
  BY DEF Promise!vars, PCount, PState

\* While the processes make calls.
LEMMA PromiseOpen ==
  ASSUME Inv, Call
  PROVE  /\ PState = (IF isErr THEN "failed" ELSE "open")
         /\ PState' = (IF isErr' THEN "failed" ELSE "open")
         /\ PCount = Max({nt[r] : r \in Rank})
         /\ PCount' = Max({nt'[r] : r \in Rank})
<1>1. 0 \in Rank /\ \A r \in Rank : pc[r] = "open" /\ pc'[r] = "open"
  BY CallKeepsOpen
<1>2. ~Resized /\ ~Resized'
  BY <1>1 DEF Resized
<1>3. (Garbage <=> isErr) /\ (Garbage' <=> isErr')
  BY <1>1 DEF Garbage
<1> QED BY <1>2, <1>3 DEF PState, PCount

LEMMA PromiseTold ==
  ASSUME Inv,
         \/ \E n \in Samples : WriteNs(n)
         \/ \E a \in Abouts : WriteAbout(a)
  PROVE  Promise!Next \/ UNCHANGED Promise!vars
<1>1. Call /\ UNCHANGED <<nt, content>> /\ (isErr => isErr')
  BY DEF WriteNs, WriteAbout
<1>2. CASE isErr'
  BY <1>1, <1>2, PromiseOpen, PromiseFail
<1>3. CASE ~isErr'
  <2>1. UNCHANGED <<Held, PCount, PState>>
    BY <1>1, <1>3, PromiseOpen DEF Held
  <2> QED BY <2>1, PromiseStutter
<1> QED BY <1>2, <1>3

LEMMA PromiseAnnounce ==
  ASSUME Inv, NEW n \in 0 .. MaxNt, WriteNt(n)
  PROVE  Promise!Next
<1>1. Call /\ UNCHANGED <<isErr, content>> /\ nt' = [r \in Rank |-> n]
  BY DEF WriteNt, told
<1>2. CASE isErr
  BY <1>1, <1>2, PromiseOpen, PromiseFail
<1>3. CASE ~isErr
  <2>1. Held' = Held /\ PState = "open" /\ PState' = "open"
    BY <1>1, <1>3, PromiseOpen DEF Held
  <2>2. PCount' \in 0 .. MaxNt
    <3>1. nt' \in [Rank -> 0 .. MaxNt]
      BY <1>1
    <3>2. Max({nt'[r] : r \in Rank}) \in 0 .. MaxNt
      BY <3>1, MostIs
    <3> QED BY <3>2, <1>1, PromiseOpen
  <2> QED BY <2>1, <2>2 DEF Promise!Next, Promise!Announce, PCount, PState
<1> QED BY <1>2, <1>3

\* The greatest count, when every process knows of what it has written.
LEMMA MostAfterWrite ==
  ASSUME Inv, NEW q, Written(q), NEW parts, Write(q, parts)
  PROVE  LET m == Max({nt[r] : r \in Rank})
             t == Max({q.top[r] : r \in Rank})
         IN  /\ t \in 1 .. MaxNt
             /\ \A r \in Rank : q.top[r] <= t
             /\ \E r \in Rank : q.top[r] = t
             /\ Max({nt'[r] : r \in Rank}) = IF m < t THEN t ELSE m
<1> DEFINE m == Max({nt[r] : r \in Rank})
           t == Max({q.top[r] : r \in Rank})
<1>1. nt \in [Rank -> 0 .. MaxNt] /\ q.top \in [Rank -> 0 .. MaxNt] /\ TypeOK
  BY DEF Inv, TypeOK, Written
<1>2. m \in 0 .. MaxNt /\ (\A r \in Rank : nt[r] <= m) /\ (\E r \in Rank : nt[r] = m)
  BY <1>1, MostIs
<1>3. t \in 0 .. MaxNt /\ (\A r \in Rank : q.top[r] <= t) /\ (\E r \in Rank : q.top[r] = t)
  BY <1>1, MostIs
<1>4. /\ nt' \in [Rank -> 0 .. MaxNt]
      /\ \A r \in Rank : nt'[r] = IF nt[r] < q.top[r] THEN q.top[r] ELSE nt[r]
  BY <1>1, WriteCounts
<1> HIDE DEF m, t
<1>5. t > 0
  <2>1. PICK r \in Rank : q.top[r] > 0
    BY DEF Written
  <2> QED BY <2>1, <1>1, <1>3
<1>6. \A r \in Rank : nt'[r] <= IF m < t THEN t ELSE m
  <2> TAKE r \in Rank
  <2>1. nt[r] \in Int /\ q.top[r] \in Int /\ nt[r] <= m /\ q.top[r] <= t /\ m \in Int /\ t \in Int
    BY <1>1, <1>2, <1>3
  <2> QED BY <2>1, <1>4
<1>7. \E r \in Rank : nt'[r] = IF m < t THEN t ELSE m
  <2>1. CASE m < t
    <3>1. PICK r \in Rank : q.top[r] = t
      BY <1>3
    <3>2. nt[r] \in Int /\ nt[r] <= m /\ m \in Int /\ t \in Int
      BY <1>1, <1>2, <1>3
    <3> QED BY <2>1, <3>1, <3>2, <1>4
  <2>2. CASE ~(m < t)
    <3>1. PICK r \in Rank : nt[r] = m
      BY <1>2
    <3>2. q.top[r] \in Int /\ q.top[r] <= t /\ m \in Int /\ t \in Int
      BY <1>1, <1>2, <1>3
    <3> QED BY <2>2, <3>1, <3>2, <1>4
  <2> QED BY <2>1, <2>2
<1>8. Max({nt'[r] : r \in Rank}) = IF m < t THEN t ELSE m
  <2>1. PICK s \in Rank : nt'[s] = IF m < t THEN t ELSE m
    BY <1>7
  <2>2. \A r \in Rank : nt'[r] <= nt'[s]
    BY <2>1, <1>6
  <2>3. Max({nt'[r] : r \in Rank}) = nt'[s]
    BY <2>2, <1>4, MostUnique
  <2> QED BY <2>1, <2>3
<1>9. /\ t \in 1 .. MaxNt
      /\ \A r \in Rank : q.top[r] <= t
      /\ \E r \in Rank : q.top[r] = t
      /\ Max({nt'[r] : r \in Rank}) = IF m < t THEN t ELSE m
  BY <1>3, <1>5, <1>8, BoundsAssumption
<1> QED BY <1>9 DEF m, t

LEMMA PromisePut ==
  ASSUME Inv, Call, NEW q, Written(q),
         NEW parts \in (SUBSET {"prm", "trc"}) \ {{}}, Write(q, parts)
  PROVE  Promise!Next
<1> DEFINE t == Max({q.top[r] : r \in Rank})
<1>1. /\ t \in 1 .. MaxNt
      /\ \A r \in Rank : q.top[r] <= t
      /\ \E r \in Rank : q.top[r] = t
      /\ PCount' = IF PCount < t THEN t ELSE PCount
  <2>1. /\ PCount = Max({nt[r] : r \in Rank})
        /\ PCount' = Max({nt'[r] : r \in Rank})
    BY PromiseOpen
  <2> QED BY <2>1, MostAfterWrite
<1> HIDE DEF t
<1>2. CASE isErr'
  <2>1. PState # "closed" /\ PState' = "failed"
    BY <1>2, PromiseOpen
  <2> QED BY <2>1, PromiseFail
<1>3. CASE ~isErr'
  <2>1. ~isErr /\ nsSet /\ PState = "open" /\ PState' = "open"
    BY <1>3, PromiseOpen DEF Write
  <2>2. ns \in Nat /\ ns > 0
    <3>1. ns \in Samples
      BY <2>1 DEF Inv, Given
    <3> QED BY <3>1, SamplesAssumption
  <2>3. /\ \A c \in Covered(q, parts) :
              Loc(c, ns) \in DOMAIN content' /\ content'[Loc(c, ns)] = c
        /\ \A l \in DOMAIN content : l \in DOMAIN content' /\ content'[l] = content[l]
        /\ \A l \in DOMAIN content' :
             /\ Fits(content'[l], ns) /\ l = Loc(content'[l], ns)
             /\ l \in DOMAIN content \/ content'[l] \in Covered(q, parts)
    BY WritePuts DEF Inv
  <2>4. Held \subseteq Held' /\ Held' \subseteq Promise!Cell
    BY <2>3 DEF Held, Fits, Cell, Place, Promise!Cell
  <2>5. ASSUME NEW c \in Held' \ Held
        PROVE  c.place < t
    <3>1. PICK l \in DOMAIN content' : c = content'[l]
      BY DEF Held
    <3>2. l \notin DOMAIN content
      BY <2>3, <2>5, <3>1 DEF Held
    <3>3. c \in Covered(q, parts)
      BY <2>3, <3>1, <3>2
    <3>4. PICK r \in Rank : c.place \in q.places[r]
      BY <3>3 DEF Covered
    <3>5. c.place < q.top[r] /\ q.top[r] \in Int /\ q.top[r] <= t /\ c.place \in Int
      BY <3>3, <3>4, <1>1, BoundsAssumption DEF Written, Covered, Cell, Place
    <3> QED BY <3>5, <1>1
  <2>6. \E c \in Held' : c.place = t - 1
    <3>1. PICK r \in Rank : q.top[r] = t
      BY <1>1
    <3>2. t - 1 \in q.places[r] /\ t - 1 \in Place
      BY <3>1, <1>1 DEF Written
    <3>3. PICK part \in parts : part \in {"prm", "trc"}
      <4>1. parts # {} /\ parts \subseteq {"prm", "trc"}
        OBVIOUS
      <4> QED BY <4>1
    <3> DEFINE c == [part |-> part, place |-> t - 1]
    <3>4. c \in Covered(q, parts) /\ c.place = t - 1
      BY <3>2, <3>3, <2>2 DEF Covered, Cell
    <3> HIDE DEF c
    <3>5. c \in Held'
      BY <3>4, <2>3 DEF Held
    <3> QED BY <3>4, <3>5
  <2> QED BY <1>1, <2>1, <2>4, <2>5, <2>6 DEF Promise!Next, Promise!Put, PCount, PState
<1> QED BY <1>2, <1>3

\* In the destructor nothing is promised after an error or without samples.
LEMMA PromiseFailed ==
  ASSUME Inv, UNCHANGED <<isErr, nsSet>>, NEW r \in Rank, pc'[r] # "open",
         isErr \/ ~nsSet, ~Resized \/ pc[r] # "open"
  PROVE  Promise!Next
<1>1. Garbage' /\ PState' = "failed"
  BY DEF Garbage, PState
<1>2. PState # "closed"
  BY DEF Garbage, PState
<1> QED BY <1>1, <1>2, PromiseFail

LEMMA PromiseDestroy ==
  ASSUME Inv, NEW r \in Rank, Destroy(r)
  PROVE  Promise!Next \/ UNCHANGED Promise!vars
<1>1. /\ UNCHANGED <<ns, nsSet, isErr, nt, size, content>> /\ pc[r] = "open"
      /\ ~Resized
  BY DEF Destroy, told, Resized
<1>2. pc'[r] # "open"
  <2>1. pc' = [pc EXCEPT ![r] = Entry(r)] /\ Entry(r) # "open"
    BY EntryIs DEF Destroy, Entry
  <2> QED BY <2>1 DEF Inv, TypeOK
<1>3. CASE isErr \/ ~nsSet
  BY <1>1, <1>2, <1>3, PromiseFailed
<1>4. CASE ~isErr /\ nsSet
  <2>1. ~Resized'
    BY <1>4, DestroyInv DEF Resized
  <2>2. ~Garbage /\ ~Garbage'
    BY <1>1, <1>4 DEF Garbage
  <2>3. UNCHANGED <<Held, PCount, PState>>
    BY <1>1, <2>1, <2>2 DEF Held, PCount, PState
  <2> QED BY <2>3, PromiseStutter
<1> QED BY <1>3, <1>4

LEMMA PromiseCalcNt ==
  ASSUME Inv, CalcNt
  PROVE  Promise!Next \/ UNCHANGED Promise!vars
<1>1. /\ UNCHANGED <<ns, nsSet, isErr, size, content>> /\ 0 \in Rank
      /\ \A r \in Rank : pc[r] = "nt" /\ pc'[r] = "size"
  <2>1. Together("nt", "size")
    BY DEF CalcNt, AfterNt
  <2> QED BY <2>1, TogetherKeeps DEF CalcNt
<1>2. ~Resized /\ ~Resized'
  BY <1>1 DEF Resized
<1>3. CASE isErr \/ ~nsSet
  BY <1>1, <1>2, <1>3, PromiseFailed
<1>4. CASE ~isErr /\ nsSet
  <2>1. ~Garbage /\ ~Garbage'
    BY <1>1, <1>4 DEF Garbage
  <2>2. UNCHANGED <<Held, PCount, PState>>
    BY <1>1, <1>2, <2>1, CalcNtInv DEF Held, PCount, PState
  <2> QED BY <2>2, PromiseStutter
<1> QED BY <1>3, <1>4

LEMMA PromiseClose ==
  ASSUME Inv, SetFileSz
  PROVE  Promise!Next
<1>1. /\ UNCHANGED <<ns, nsSet, isErr, nt>> /\ 0 \in Rank
      /\ \A r \in Rank : pc[r] = "size" /\ pc'[r] = "header"
  <2>1. Together("size", "header")
    BY DEF SetFileSz
  <2> QED BY <2>1, TogetherKeeps DEF SetFileSz
<1>2. ~Resized /\ Resized'
  BY <1>1 DEF Resized
<1>3. CASE isErr \/ ~nsSet
  BY <1>1, <1>2, <1>3, PromiseFailed
<1>4. CASE ~isErr /\ nsSet
  <2>1. ~Garbage /\ ~Garbage'
    BY <1>1, <1>4 DEF Garbage
  <2>2. /\ nt[0] \in Nat /\ nt[0] = Max({nt[r] : r \in Rank})
        /\ size' = FileSz(nt[0], ns)
        /\ DOMAIN content' = {l \in DOMAIN content : l < size'}
        /\ \A l \in DOMAIN content' : content'[l] = content[l]
    BY SetFileSzInv
  <2>3. ns \in Nat
    BY SamplesAssumption DEF Inv, TypeOK
  <2>4. PCount = nt[0] /\ PCount' = nt[0]
    <3>1. (FileSz(nt[0], ns) - HOSz) \div DOSz(ns) = nt[0]
      BY <2>2, <2>3, FileSzFacts
    <3> QED BY <1>1, <1>2, <2>1, <2>2, <3>1 DEF PCount
  <2>5. \A l \in DOMAIN content : Fits(content[l], ns) /\ l = Loc(content[l], ns)
    BY DEF Inv, TypeOK, Parts, Fits
  <2>6. \A l \in DOMAIN content : l < size' <=> content[l].place < nt[0]
    BY <2>2, <2>3, <2>5, LocBefore
  <2>7. Held' = {c \in Held : c.place < nt[0]}
    BY <2>2, <2>6 DEF Held
  <2>8. PState = "open" /\ PState' = "closed"
    BY <1>2, <2>1 DEF PState
  <2> QED BY <2>4, <2>7, <2>8 DEF Promise!Next, Promise!Close, PCount, PState
<1> QED BY <1>3, <1>4

\* Once the size is set nothing changes any more.
LEMMA PromiseEnd ==
  ASSUME Inv, WriteHO \/ CloseFile
  PROVE  Promise!Next \/ UNCHANGED Promise!vars
<1>1. /\ UNCHANGED <<ns, nsSet, isErr, nt, content>> /\ 0 \in Rank
      /\ \A r \in Rank : pc[r] # "open" /\ pc'[r] # "open"
      /\ Resized /\ Resized'
      /\ ~isErr /\ nsSet => size' = size
  <2>1. CASE WriteHO
    <3>1. Together("header", "close")
      BY <2>1 DEF WriteHO
    <3>2. /\ UNCHANGED <<ns, nsSet, isErr>> /\ 0 \in Rank
          /\ \A r \in Rank : pc[r] = "header" /\ pc'[r] = "close"
      BY <3>1, TogetherKeeps
    <3>3. UNCHANGED <<nt, content>>
      BY <2>1 DEF WriteHO
    <3> QED BY <2>1, <3>2, <3>3, WriteHOInv DEF Resized
  <2>2. CASE CloseFile
    <3>1. Together("close", "closed")
      BY <2>2 DEF CloseFile
    <3>2. /\ UNCHANGED <<ns, nsSet, isErr>> /\ 0 \in Rank
          /\ \A r \in Rank : pc[r] = "close" /\ pc'[r] = "closed"
      BY <3>1, TogetherKeeps
    <3>3. UNCHANGED <<nt, content, size>>
      BY <2>2 DEF CloseFile
    <3> QED BY <3>2, <3>3 DEF Resized
  <2> QED BY <2>1, <2>2
<1>2. CASE isErr \/ ~nsSet
  BY <1>1, <1>2, PromiseFailed
<1>3. CASE ~isErr /\ nsSet
  <2>1. ~Garbage /\ ~Garbage'
    BY <1>1, <1>3 DEF Garbage
  <2>2. UNCHANGED <<Held, PCount, PState>>
    BY <1>1, <1>3, <2>1 DEF Held, PCount, PState
  <2> QED BY <2>2, PromiseStutter
<1> QED BY <1>2, <1>3

LEMMA PromiseStep == Inv /\ [Next]_vars => [Promise!Next]_(Promise!vars)
<1> SUFFICES ASSUME Inv, [Next]_vars
             PROVE  Promise!Next \/ UNCHANGED Promise!vars
  OBVIOUS
<1>1. CASE (\E n \in Samples : WriteNs(n)) \/ (\E a \in Abouts : WriteAbout(a))
  BY <1>1, PromiseTold
<1>2. ASSUME NEW n \in 0 .. MaxNt, WriteNt(n)
      PROVE  Promise!Next
  BY <1>2, PromiseAnnounce
<1>3. CASE WriteTrace \/ WriteTraceNonContiguous
  <2>1. Call
    BY <1>3, WriteStep
  <2>2. PICK q : \E p \in (SUBSET {"prm", "trc"}) \ {{}} : Written(q) /\ Write(q, p)
    BY <1>3, WriteStep
  <2> QED BY <2>1, <2>2, PromisePut
<1>4. ASSUME NEW r \in Rank, Destroy(r)
      PROVE  Promise!Next \/ UNCHANGED Promise!vars
  BY <1>4, PromiseDestroy
<1>5. CASE CalcNt
  BY <1>5, PromiseCalcNt
<1>6. CASE SetFileSz
  BY <1>6, PromiseClose
<1>7. CASE WriteHO \/ CloseFile
  BY <1>7, PromiseEnd
<1>8. CASE Finished \/ UNCHANGED vars
  <2>1. UNCHANGED <<pc, ns, nsSet, isErr, nt, size, content>>
    BY <1>8 DEF Finished, vars, told
  <2>2. UNCHANGED <<Held, PCount, PState>>
    BY <2>1 DEF Held, PCount, PState, Resized, Garbage
  <2> QED BY <2>2, PromiseStutter
<1> QED BY <1>1, <1>2, <1>3, <1>4, <1>5, <1>6, <1>7, <1>8 DEF Next

(***************************************************************************)
(* Whatever the processes write, in whatever calls, the file they make is  *)
(* that of TraceFile: it holds what they put, and as many traces as were   *)
(* put or announced.                                                       *)
(***************************************************************************)
THEOREM KeepsPromise == Spec => ImplementsPromise
  BY PromiseInit, PromiseStep, Inductive, PTL DEF Spec, ImplementsPromise, Promise!Spec

-----------------------------------------------------------------------------
(***************************************************************************)
(* A finite set can be counted in the order of a key, if no two members    *)
(* have the same key.                                                      *)
(***************************************************************************)
LEMMA InOrder ==
  ASSUME NEW T, IsFiniteSet(T), NEW key \in [T -> Nat],
         \A x, y \in T : key[x] = key[y] => x = y
  PROVE  \E f \in [1 .. Cardinality(T) -> T] :
           \A i, j \in 1 .. Cardinality(T) : i < j => key[f[i]] < key[f[j]]
<1> DEFINE n == Cardinality(T)
           low == [x \in T |-> {y \in T : key[y] < key[x]}]
           f == [k \in 1 .. n |-> CHOOSE x \in T : Cardinality(low[x]) = k - 1]
<1>1. n \in Nat
  BY FS_CardinalityType
<1>2. /\ low \in [T -> SUBSET T] /\ key \in [T -> Int]
      /\ \A x, y \in T : y \in low[x] <=> key[y] < key[x]
  OBVIOUS
<1> HIDE DEF low
<1>3. /\ \A x, y \in T : key[x] < key[y] <=> Cardinality(low[x]) < Cardinality(low[y])
      /\ \A k \in 0 .. n - 1 : \E x \in T : Cardinality(low[x]) = k
  BY <1>2, Ranking
<1>4. ASSUME NEW k \in 1 .. n
      PROVE  f[k] \in T /\ Cardinality(low[f[k]]) = k - 1
  <2>1. k - 1 \in 0 .. n - 1
    BY <1>1
  <2> QED BY <2>1, <1>3
<1>5. f \in [1 .. n -> T]
  BY <1>4
<1> HIDE DEF f, n
<1>6. ASSUME NEW i \in 1 .. n, NEW j \in 1 .. n, i < j
      PROVE  key[f[i]] < key[f[j]]
  <2>1. i - 1 < j - 1
    BY <1>1, <1>6
  <2> QED BY <2>1, <1>3, <1>4
<1> QED BY <1>5, <1>6 DEF n

\* A set of numbers in ascending order.
LEMMA AscendingIs ==
  ASSUME NEW S \in SUBSET Nat, IsFiniteSet(S)
  PROVE  /\ Ascending(S) \in [1 .. Cardinality(S) -> S]
         /\ \A i, j \in 1 .. Cardinality(S) : i < j => Ascending(S)[i] < Ascending(S)[j]
<1> DEFINE key == [x \in S |-> x]
<1>1. key \in [S -> Nat] /\ \A x, y \in S : key[x] = key[y] => x = y
  OBVIOUS
<1>2. PICK f \in [1 .. Cardinality(S) -> S] :
        \A i, j \in 1 .. Cardinality(S) : i < j => key[f[i]] < key[f[j]]
  <2> HIDE DEF key
  <2> QED BY <1>1, InOrder
<1>3. \A i, j \in DOMAIN f : i < j => f[i] < f[j]
  <2> TAKE i, j \in DOMAIN f
  <2> HAVE i < j
  <2>1. key[f[i]] < key[f[j]] /\ f[i] \in S /\ f[j] \in S
    BY <1>2
  <2> QED BY <2>1
<1> DEFINE a == Ascending(S)
<1>4. a \in [1 .. Cardinality(S) -> S] /\ \A i, j \in DOMAIN a : i < j => a[i] < a[j]
  BY <1>3 DEF Ascending
<1> HIDE DEF a
<1>5. DOMAIN a = 1 .. Cardinality(S)
  BY <1>4
<1> QED BY <1>4, <1>5 DEF a

\* The places of a list in the order of what they ask for.
LEMMA SortIndexIs ==
  ASSUME NEW m \in Nat, NEW list \in [1 .. m -> Nat]
  PROVE  /\ SortIndex(list) \in [1 .. m -> 1 .. m]
         /\ \A i, j \in 1 .. m : i < j => list[SortIndex(list)[i]] <= list[SortIndex(list)[j]]
         /\ \A i, j \in 1 .. m : SortIndex(list)[i] = SortIndex(list)[j] => i = j
         /\ \A k \in 1 .. m : \E j \in 1 .. m : SortIndex(list)[j] = k
<1> DEFINE D == 1 .. m
           M == m + 1
           key == [i \in D |-> M * list[i] + i]
<1>1. IsFiniteSet(D) /\ Cardinality(D) = m
  BY FS_Interval
<1>2. ASSUME NEW i \in D
      PROVE  /\ list[i] \in Nat /\ i \in Nat /\ i < M /\ M \in Nat \ {0}
             /\ key[i] = M * list[i] + i /\ key[i] \in Nat
  <2>1. list[i] \in Nat /\ i \in Nat /\ i < M /\ M \in Nat \ {0}
    OBVIOUS
  <2>2. M * list[i] \in Nat
    BY <2>1, SMT
  <2> QED BY <2>1, <2>2
<1>3. ASSUME NEW i \in D, NEW j \in D, key[i] = key[j]
      PROVE  i = j
  <2>1. /\ key[i] % M = i /\ key[j] % M = j
    BY <1>2, DivUnique
  <2> QED BY <2>1, <1>3
<1>4. key \in [D -> Nat]
  BY <1>2
<1> HIDE DEF key, D, M
<1>5. ASSUME NEW i \in D, NEW j \in D, key[i] < key[j]
      PROVE  list[i] <= list[j]
  <2> DEFINE a == list[i]
             b == list[j]
  <2>1. /\ a \in Nat /\ b \in Nat /\ M \in Nat /\ i \in Nat /\ j \in Nat /\ j < M
        /\ key[i] = M * a + i /\ key[j] = M * b + j
    BY <1>2
  <2> HIDE DEF a, b
  <2>2. ASSUME b + 1 <= a PROVE FALSE
    <3> DEFINE p == M * a
               q == M * b
    <3>1. q + M <= p
      BY <2>1, <2>2, TimesStep
    <3>2. p \in Nat /\ q \in Nat
      BY <2>1, TimesNat
    <3>3. key[i] = p + i /\ key[j] = q + j
      BY <2>1
    <3> HIDE DEF p, q
    <3> QED BY <1>5, <2>1, <3>1, <3>2, <3>3
  <2>3. a <= b
    BY <2>1, <2>2
  <2> QED BY <2>3 DEF a, b
<1>6. PICK f \in [1 .. m -> D] : \A i, j \in 1 .. m : i < j => key[f[i]] < key[f[j]]
  <2>1. \E f \in [1 .. Cardinality(D) -> D] :
          \A i, j \in 1 .. Cardinality(D) : i < j => key[f[i]] < key[f[j]]
    BY <1>1, <1>3, <1>4, InOrder
  <2> QED BY <2>1, <1>1
<1>7. ASSUME NEW i \in D, NEW j \in D, f[i] = f[j]
      PROVE  i = j
  <2>1. i \in 1 .. m /\ j \in 1 .. m /\ f[i] \in D /\ f[j] \in D
    BY <1>6 DEF D
  <2>2. key[f[i]] \in Nat /\ key[f[j]] = key[f[i]]
    BY <1>4, <1>7, <2>1
  <2>3. ~(i < j) /\ ~(j < i)
    BY <2>1, <2>2, <1>6
  <2> QED BY <2>1, <2>3
<1>8. DOMAIN list = D
  BY DEF D
<1>9. f \in [D -> D] /\ IsInjective(f) /\ \A i, j \in D : i < j => list[f[i]] <= list[f[j]]
  BY <1>5, <1>6, <1>7 DEF D, IsInjective
<1> DEFINE g == SortIndex(list)
<1>10. g \in [D -> D] /\ IsInjective(g) /\ \A i, j \in D : i < j => list[g[i]] <= list[g[j]]
  BY <1>8, <1>9 DEF SortIndex
<1> HIDE DEF g
<1>11. \A i, j \in D : g[i] = g[j] => i = j
  BY <1>10 DEF IsInjective
<1>12. g \in Injection(D, D)
  BY <1>10 DEF Injection
<1>13. g \in Surjection(D, D)
  BY <1>1, <1>12, FS_Injection
<1>14. \A k \in D : \E j \in D : g[j] = k
  BY <1>13 DEF Surjection
<1> QED BY <1>10, <1>11, <1>14 DEF g, D

-----------------------------------------------------------------------------
(***************************************************************************)
(* Reading what was written.                                               *)
(***************************************************************************)
LEMMA ClosedFinds ==
  ASSUME Inv, Closed
  PROVE  /\ header = [ns |-> ns, about |-> about]
         /\ FoundNs = ns /\ FoundNt \in Nat /\ ns \in Nat
<1>1. 0 \in Rank /\ ns \in Nat /\ FoundNt \in Nat
  BY NumRankAssumption, SamplesAssumption DEF Rank, Inv, TypeOK
<1>2. header = [ns |-> ns, about |-> about] /\ size >= HOSz
  BY <1>1 DEF Inv, Headed, Closed
<1> QED BY <1>1, <1>2 DEF FoundNs

\* A part that is in the file is found in its place.
LEMMA CellFound ==
  ASSUME Inv, Closed, NEW part, NEW p, [part |-> part, place |-> p] \in Held
  PROVE  CellAt(part, p) = [part |-> part, place |-> p]
<1> DEFINE c == [part |-> part, place |-> p]
<1>1. PICK l \in DOMAIN content : content[l] = c
  BY DEF Held
<1>2. l = Loc(c, ns)
  BY <1>1 DEF Inv, TypeOK
<1>3. l = FileSz(p, FoundNs) + (IF part = "trc" THEN MDSz ELSE 0)
  BY <1>2, ClosedFinds DEF Loc
<1> QED BY <1>1, <1>3 DEF CellAt

LEMMA TraceReads ==
  ASSUME Inv, Closed, NEW part, NEW offset \in 0 .. FoundNt, NEW sz \in 0 .. MaxNt
  PROVE  LET got == ReadTrace(part, offset, sz)
         IN  /\ Len(got) = Cardinality((offset .. offset + sz - 1) \cap (0 .. FoundNt - 1))
             /\ \A k \in DOMAIN got : got[k] = CellAt(part, offset + k - 1)
<1> DEFINE ntz == IF offset + sz > FoundNt THEN FoundNt - offset ELSE sz
           got == ReadTrace(part, offset, sz)
<1>1. FoundNt \in Nat /\ MaxNt \in Nat
  BY ClosedFinds, BoundsAssumption
<1>2. offset \in Nat /\ sz \in Nat /\ offset <= FoundNt
  BY <1>1
<1> HIDE DEF ntz
<1>3. ntz \in Nat /\ ntz = IF offset + sz > FoundNt THEN FoundNt - offset ELSE sz
  BY <1>1, <1>2 DEF ntz
<1>4. got = [k \in 1 .. ntz |-> CellAt(part, offset + k - 1)]
  BY DEF ReadTrace, ntz
<1>5. (offset .. offset + sz - 1) \cap (0 .. FoundNt - 1) = offset .. offset + ntz - 1
  BY <1>1, <1>2, <1>3
<1>6. Cardinality(offset .. offset + ntz - 1) = ntz
  <2>1. offset \in Int /\ offset + ntz - 1 \in Int
    BY <1>2, <1>3
  <2>2. Cardinality(offset .. offset + ntz - 1) =
          IF offset > offset + ntz - 1 THEN 0 ELSE (offset + ntz - 1) - offset + 1
    BY <2>1, FS_Interval
  <2> QED BY <2>2, <1>2, <1>3
<1> HIDE DEF got
<1>7. Len(got) = ntz /\ DOMAIN got = 1 .. ntz
  BY <1>3, <1>4
<1> QED BY <1>4, <1>5, <1>6, <1>7 DEF got

(***************************************************************************)
(* Every entry of a list that is in no order is told what lies where it    *)
(* asks: its number among those without repeats is how many of them do not *)
(* exceed it.                                                              *)
(***************************************************************************)
LEMMA ListReads ==
  ASSUME NEW m \in Nat, NEW list \in [1 .. m -> Nat], NEW part
  PROVE  Reordered(part, list) = [k \in 1 .. m |-> CellAt(part, list[k])]
<1> DEFINE D == 1 .. m
           R == Range(list)
           n == Cardinality(R)
           nodups == Ascending(R)
           idx == SortIndex(list)
           strc == ReadListed(part, nodups)
           asks(k) == CHOOSE j \in DOMAIN idx : idx[j] = k
<1>1. R \in SUBSET Nat /\ (\A v \in R : \E k \in D : v = list[k]) /\ \A k \in D : list[k] \in R
  BY DEF Range
<1>2. IsFiniteSet(R)
  <2>1. IsFiniteSet(D)
    BY FS_Interval
  <2>2. list \in Surjection(D, R)
    BY <1>1 DEF Surjection
  <2> HIDE DEF D, R
  <2> QED BY <2>1, <2>2, FS_Surjection
<1> HIDE DEF R
<1>3. n \in Nat
  BY <1>2, FS_CardinalityType
<1>4. /\ nodups \in [1 .. n -> R]
      /\ \A i, j \in 1 .. n : i < j => nodups[i] < nodups[j]
  BY <1>1, <1>2, AscendingIs
<1>5. /\ idx \in [D -> D]
      /\ \A i, j \in D : i < j => list[idx[i]] <= list[idx[j]]
      /\ \A i, j \in D : idx[i] = idx[j] => i = j
      /\ \A k \in D : \E j \in D : idx[j] = k
  BY SortIndexIs
<1> HIDE DEF n, nodups, idx
<1>6. \A i, j \in 1 .. n : nodups[i] = nodups[j] => i = j
  <2> SUFFICES ASSUME NEW i \in 1 .. n, NEW j \in 1 .. n, nodups[i] = nodups[j]
               PROVE  i = j
    OBVIOUS
  <2>1. nodups[i] \in Nat /\ nodups[j] \in Nat
    BY <1>1, <1>4
  <2>2. ~(i < j) /\ ~(j < i)
    BY <2>1, <1>4
  <2> QED BY <2>2
<1>7. \A v \in R : \E i \in 1 .. n : nodups[i] = v
  <2>1. IsFiniteSet(1 .. n) /\ Cardinality(1 .. n) = n
    BY <1>3, FS_Interval
  <2>2. nodups \in Injection(1 .. n, R)
    BY <1>4, <1>6 DEF Injection, IsInjective
  <2>3. nodups \in Surjection(1 .. n, R)
    BY <2>1, <2>2, <1>2, FS_Injection DEF n
  <2> QED BY <2>3 DEF Surjection
<1>8. ASSUME NEW k \in D
      PROVE  Number(list, idx, asks(k)) \in 1 .. n /\ nodups[Number(list, idx, asks(k))] = list[k]
  <2> DEFINE j == asks(k)
             A == {list[idx[i]] : i \in 1 .. j}
  <2>1. j \in D /\ idx[j] = k
    BY <1>5, <1>8
  <2> HIDE DEF j
  <2>2. PICK p \in 1 .. n : nodups[p] = list[k]
    BY <1>1, <1>7, <1>8
  <2>3. ASSUME NEW i \in 1 .. p
        PROVE  nodups[i] \in A
    <3>1. i \in 1 .. n /\ p \in 1 .. n /\ (i = p \/ i < p)
      BY <1>3, <2>2
    <3>2. nodups[i] \in Nat /\ nodups[i] <= list[k] /\ nodups[i] \in R /\ list[k] \in Nat
      <4>1. nodups[i] \in R /\ nodups[p] \in R /\ nodups[p] = list[k]
        BY <3>1, <1>4, <2>2
      <4>2. nodups[i] \in Nat /\ nodups[p] \in Nat
        BY <4>1, <1>1
      <4>3. i = p \/ nodups[i] < nodups[p]
        BY <3>1, <1>4
      <4> QED BY <4>1, <4>2, <4>3
    <3>3. PICK h \in D : nodups[i] = list[h]
      BY <3>2, <1>1
    <3>4. PICK g \in D : idx[g] = h
      BY <1>5
    <3>5. CASE g <= j
      <4>1. g \in 1 .. j
        BY <3>4, <3>5, <2>1
      <4> QED BY <4>1, <3>3, <3>4
    <3>6. CASE ~(g <= j)
      <4>1. j < g
        BY <3>6, <2>1
      <4>2. list[k] <= list[h]
        BY <4>1, <1>5, <2>1, <3>4
      <4>3. nodups[i] = list[idx[j]]
        BY <4>2, <3>2, <3>3, <2>1
      <4>4. j \in 1 .. j
        BY <2>1
      <4> QED BY <4>3, <4>4
    <3> QED BY <3>5, <3>6
  <2>4. ASSUME NEW v \in A
        PROVE  \E i \in 1 .. p : nodups[i] = v
    <3>1. PICK i \in 1 .. j : v = list[idx[i]]
      OBVIOUS
    <3>2. i \in D /\ (i = j \/ i < j)
      BY <2>1
    <3>3. v \in R /\ v \in Nat /\ v <= list[k] /\ list[k] \in Nat
      <4>1. idx[i] \in D /\ idx[j] \in D /\ v = list[idx[i]] /\ list[k] = list[idx[j]]
        BY <3>1, <3>2, <1>5, <2>1
      <4>2. v \in R /\ list[k] \in R
        BY <4>1, <1>1
      <4>3. i = j \/ list[idx[i]] <= list[idx[j]]
        BY <3>2, <1>5, <2>1
      <4>4. v \in Nat /\ list[k] \in Nat
        BY <4>2, <1>1
      <4> QED BY <4>1, <4>2, <4>3, <4>4
    <3>4. PICK q \in 1 .. n : nodups[q] = v
      BY <3>3, <1>7
    <3>5. ~(p < q)
      <4>1. p < q => nodups[p] < nodups[q]
        BY <1>4, <2>2
      <4> QED BY <4>1, <2>2, <3>3, <3>4
    <3>6. q \in 1 .. p
      BY <3>4, <3>5, <2>2, <1>3
    <3> QED BY <3>4, <3>6
  <2>5. Cardinality(A) = p
    <3> DEFINE f == [i \in 1 .. p |-> nodups[i]]
    <3>1. p \in Nat /\ \A i \in 1 .. p : i \in 1 .. n
      BY <1>3, <2>2
    <3>2. f \in [1 .. p -> A] /\ \A a, b \in 1 .. p : f[a] = f[b] => a = b
      BY <2>3, <3>1, <1>6
    <3>3. \A v \in A : \E i \in 1 .. p : f[i] = v
      BY <2>4
    <3>4. IsFiniteSet(1 .. p) /\ Cardinality(1 .. p) = p
      BY <3>1, FS_Interval
    <3> HIDE DEF f, A
    <3>5. f \in Injection(1 .. p, A) /\ f \in Surjection(1 .. p, A)
      BY <3>2, <3>3 DEF Injection, IsInjective, Surjection
    <3>6. f \in Bijection(1 .. p, A)
      BY <3>5 DEF Bijection
    <3> QED BY <3>4, <3>5, FS_Surjection
  <2>6. Number(list, idx, j) = p
    BY <2>5 DEF Number
  <2> QED BY <2>2, <2>6 DEF j
<1>9. DOMAIN list = D /\ Len(nodups) = n
  BY <1>3, <1>4
<1>10. \A i \in 1 .. n : strc[i] = CellAt(part, nodups[i])
  BY <1>9 DEF ReadListed
<1>11. \A k \in D : strc[Number(list, idx, asks(k))] = CellAt(part, list[k])
  <2> HIDE DEF strc, asks
  <2> QED BY <1>8, <1>10
<1>12. Reordered(part, list) = [k \in D |-> strc[Number(list, idx, asks(k))]]
  BY <1>9 DEF Reordered, idx, nodups, R
<1> HIDE DEF strc, asks
<1> QED BY <1>11, <1>12

LEMMA ReadsRight == Inv => ReadsBack
<1> SUFFICES ASSUME Inv, Closed
             PROVE  ReadsBack
  BY DEF ReadsBack
<1>1. header = [ns |-> ns, about |-> about]
  BY ClosedFinds
<1>2. ASSUME NEW part \in {"prm", "trc"}, NEW offset \in 0 .. FoundNt, NEW sz \in 0 .. MaxNt
      PROVE  LET got == ReadTrace(part, offset, sz)
             IN  /\ Len(got) = Cardinality((offset .. offset + sz - 1) \cap (0 .. FoundNt - 1))
                 /\ \A k \in DOMAIN got : Right(part, offset + k - 1, got[k])
  <2> DEFINE got == ReadTrace(part, offset, sz)
  <2>1. /\ Len(got) = Cardinality((offset .. offset + sz - 1) \cap (0 .. FoundNt - 1))
        /\ \A k \in DOMAIN got : got[k] = CellAt(part, offset + k - 1)
    BY TraceReads
  <2> HIDE DEF got
  <2>2. \A k \in DOMAIN got : Right(part, offset + k - 1, got[k])
    BY <2>1, CellFound DEF Right
  <2> QED BY <2>1, <2>2 DEF got
<1>3. ASSUME NEW parts \in {{"prm"}, {"prm", "trc"}}, NEW list \in Lists
      PROVE  RightInAnyOrder(parts, list)
  <2> DEFINE got == ReadNonMonotonic(parts, list)
  <2>1. PICK m \in 0 .. MaxNt : list \in [1 .. m -> Place \cap (0 .. FoundNt - 1)]
    BY DEF Lists, BoundedSeq, SeqOf
  <2>2. m \in Nat /\ list \in [1 .. m -> Nat] /\ DOMAIN list = 1 .. m
    BY <2>1, BoundsAssumption DEF Place
  <2>3. got = [part \in parts |-> Reordered(part, list)] /\ "prm" \in parts
    BY DEF ReadNonMonotonic, Lists
  <2>4. \A part \in parts : got[part] = [k \in 1 .. m |-> CellAt(part, list[k])]
    BY <2>2, <2>3, ListReads
  <2>5. got # Died
    <3>1. DOMAIN got # {}
      BY <2>3
    <3>2. DOMAIN Died = {}
      BY DEF Died
    <3> QED BY <3>1, <3>2
  <2>6. ASSUME NEW part \in parts, NEW k \in DOMAIN list
        PROVE  Right(part, list[k], got[part][k])
    <3>1. got[part][k] = CellAt(part, list[k])
      BY <2>2, <2>4
    <3> HIDE DEF got
    <3> QED BY <3>1, CellFound DEF Right
  <2> HIDE DEF got
  <2>7. got = ReadNonMonotonic(parts, list)
    BY DEF got
  <2> QED BY <2>5, <2>6, <2>7 DEF RightInAnyOrder
<1> QED BY <1>1, <1>2, <1>3 DEF ReadsBack

(***************************************************************************)
(* Whatever was written, in whatever calls of whatever processes, a reader *)
(* of the closed file gets it, by an offset or, where headers are asked    *)
(* for, by a list in any order and with repeats, however std::sort orders  *)
(* those that ask for the same.                                            *)
(***************************************************************************)
THEOREM AlwaysReadsBack == Spec => []ReadsBack
  BY ReadsRight, Inductive, PTL

=============================================================================
