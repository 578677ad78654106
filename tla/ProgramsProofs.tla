---------------------------- MODULE ProgramsProofs ---------------------------
(***************************************************************************)
(* Two programs that use the library, for any number of processes.         *)
(*                                                                         *)
(* Lifetimes, for programs of any length: MPI is started once and all      *)
(* other calls of MPI lie between its start and its end, and programs that *)
(* delete their handles have printed every error when they end.  What is   *)
(* invariant is invariant of every process by itself: a step that all      *)
(* processes make together does to each of them what the step at the head  *)
(* of its own list says.                                                   *)
(*                                                                         *)
(* FourD, for files of any length and chunks of any size: the two files    *)
(* that the binning utility writes belong together, and what is written    *)
(* for a trace is as close as every candidate inside of a part.  The       *)
(* invariant is a proof outline: the processes meet in every call, and it  *)
(* says what holds when they come to each of them.                         *)
(***************************************************************************)
EXTENDS Lifetimes, FourD, SharedFacts, SequenceTheorems, TLAPS

StepNames == {"init", "finalize", "sizes", "open", "head", "io", "close", "free", "end"}
Steps     == StepNames \X Nat
ObjKinds  == {"ReadDirect", "WriteDirect", "ExSeis", "Rule", "Param"}
CallNames == {"Init", "manage", "Finalize", "new", "use", "about", "delete", "isErr", "return"}
CallKinds == ObjKinds \cup {"", "yes", "no"}
ProgramCalls == [op : CallNames, kind : CallKinds, of : Nat]

Types ==
  /\ script \in Seq(ProgramCalls)
  /\ at \in [Rank -> Nat]
  /\ todo \in [Rank -> Seq(Steps)]
  /\ managing \in [Rank -> {"unset", "yes", "no"}]
  /\ manager \in [Rank -> {"none", "made", "gone"}]
  /\ mpi \in [Rank -> {"not", "on", "off"}]
  /\ handles \in [Rank -> SUBSET Nat]
  /\ alive \in [Rank -> SUBSET Nat]
  /\ open \in [Rank -> SUBSET Nat]
  /\ err \in [Rank -> BOOLEAN]
  /\ unsaid \in [Rank -> Nat]
  /\ ended \in [Rank -> {"no", "returned", "aborted", "killed"}]
  /\ reckless \in BOOLEAN

(***************************************************************************)
(* Lists of steps: whether a step of some name is in them, and which lists *)
(* steps have that end something.                                          *)
(***************************************************************************)
Has(s, name) == \E i \in 1 .. Len(s) : s[i][1] = name

Inits == <<"init", 0>>
Fin   == <<"finalize", 0>>
End   == <<"end", 0>>

Pending(p, name) == Has(todo[p], name)
Op(n)            == script[n].op
Needy(p)         == \E h \in alive[p] : Kind(h) \in Files \cup {"ExSeis"}
NoPiolYet(p)     == \A n \in 1 .. at[p] : Op(n) = "new" => Kind(n) # "ExSeis"
Returns(p)       == at[p] = Len(script) /\ at[p] # 0 /\ Op(at[p]) = "return"

\* What is alive points to what is alive, and a handle keeps it so.
Objects(p) ==
  /\ at[p] <= Len(script)
  /\ handles[p] \subseteq alive[p]
  /\ alive[p] \subseteq 1 .. at[p] /\ open[p] \subseteq 1 .. at[p]
  /\ \A h \in alive[p] :
       /\ Of(h) \in 0 .. at[p]
       /\ Of(h) # 0 => Kind(Of(h)) \in {"ExSeis", "Rule"}
       /\ Kind(h) \in Files => Of(h) # 0 /\ Of(h) \in alive[p] /\ Kind(Of(h)) = "ExSeis"
  /\ \A h \in open[p] : Kind(h) \in Files
  /\ ~Pending(p, "free") => alive[p] \subseteq Reach(handles[p])

\* MPI is on while there is a PIOL or a file, but for the two moments in which
\* it is about to be started for a PIOL, and ended at the end of the program.
Library(p) ==
  /\ manager[p] = "made" => mpi[p] # "not" \/ Pending(p, "init")
  /\ manager[p] = "none" => NoPiolYet(p)
  /\ manager[p] = "gone" => ended[p] # "no"
  /\ managing[p] = "no" => mpi[p] # "not"
  /\ Needy(p) /\ ended[p] = "no" => mpi[p] = "on" \/ Pending(p, "init") \/ Pending(p, "end")

\* The steps that p has yet to make.
Work(p) ==
  /\ Pending(p, "init") => todo[p] = <<Inits>> /\ mpi[p] = "not"
  /\ Pending(p, "finalize") =>
       mpi[p] = "on" /\ ((todo[p] = <<Fin>> /\ ~Needy(p)) \/ todo[p] = <<Fin, End>>)
  /\ Pending(p, "end") => /\ todo[p] = <<End>> \/ todo[p] = <<Fin, End>>
                          /\ Returns(p)
                          /\ todo[p] = <<End>> /\ mpi[p] = "on" => NoPiolYet(p)
  /\ \A i \in 1 .. Len(todo[p]) :
       /\ todo[p][i][1] = "free" => i = Len(todo[p])
       /\ todo[p][i][1] \in {"sizes", "open", "head", "io", "close"} => mpi[p] = "on"
       /\ todo[p][i][1] \in {"open", "head", "io", "close"} =>
            todo[p][i][2] \in alive[p] /\ Kind(todo[p][i][2]) \in Files

\* Nothing follows a return, and errors have a PIOL to print them.
Ends(p) ==
  /\ ended[p] = "no" /\ ~Pending(p, "end") => at[p] = 0 \/ Op(at[p]) # "return"
  /\ ended[p] = "returned" => todo[p] = <<>> /\ Returns(p) /\ (mpi[p] = "on" => NoPiolYet(p))
  /\ ended[p] = "aborted" => unsaid[p] = 0
  /\ unsaid[p] > 0 => Piol(p) # {}

Process(p) == Objects(p) /\ Library(p) /\ Work(p) /\ Ends(p)

ReturnIsLast == \A n \in 1 .. Len(script) : Op(n) = "return" => n = Len(script)

IInv == Types /\ ReturnIsLast /\ \A p \in Rank : Process(p)
-----------------------------------------------------------------------------
(***************************************************************************)
(* Sequences.                                                              *)
(***************************************************************************)
LEMMA Rest ==
  ASSUME NEW T, NEW s \in Seq(T), s # <<>>
  PROVE  /\ Tail(s) \in Seq(T) /\ Len(s) \in Nat \ {0} /\ Len(Tail(s)) = Len(s) - 1
         /\ \A i \in 1 .. Len(s) - 1 : Tail(s)[i] = s[i + 1]
         /\ Head(s) = s[1] /\ s[1] \in T
<1>1. Len(s) \in Nat \ {0}
  OBVIOUS
<1>2. Tail(s) \in Seq(T) /\ Len(Tail(s)) = Len(s) - 1
  BY <1>1
<1>3. \A i \in 1 .. Len(s) - 1 : Tail(s)[i] = s[i + 1]
  BY <1>1
<1>4. Head(s) = s[1] /\ s[1] \in T
  BY <1>1
<1> QED BY <1>1, <1>2, <1>3, <1>4

LEMMA Joined ==
  ASSUME NEW T, NEW a \in Seq(T), NEW b \in Seq(T)
  PROVE  /\ a \o b \in Seq(T) /\ Len(a \o b) = Len(a) + Len(b)
         /\ \A i \in 1 .. Len(a) + Len(b) :
              \/ i \in 1 .. Len(a) /\ (a \o b)[i] = a[i]
              \/ i - Len(a) \in 1 .. Len(b) /\ (a \o b)[i] = b[i - Len(a)]
<1>1. a \o b \in Seq(T) /\ Len(a \o b) = Len(a) + Len(b) /\ Len(a) \in Nat /\ Len(b) \in Nat
  OBVIOUS
<1>2. \A i \in 1 .. Len(a) + Len(b) : (a \o b)[i] = IF i <= Len(a) THEN a[i] ELSE b[i - Len(a)]
  OBVIOUS
<1> QED BY <1>1, <1>2

LEMMA Longer ==
  ASSUME NEW T, NEW s \in Seq(T), NEW x \in T
  PROVE  /\ Append(s, x) \in Seq(T) /\ Len(Append(s, x)) = Len(s) + 1 /\ Len(s) \in Nat
         /\ \A i \in 1 .. Len(s) : Append(s, x)[i] = s[i]
         /\ Append(s, x)[Len(s) + 1] = x
OBVIOUS

\* Short lists of steps.
LEMMA NoSteps == <<>> \in Seq(Steps) /\ Len(<<>>) = 0 /\ \A name : ~Has(<<>>, name)
BY DEF Has

LEMMA OneStep ==
  ASSUME NEW x \in Steps
  PROVE  /\ <<x>> \in Seq(Steps) /\ Len(<<x>>) = 1 /\ <<x>>[1] = x
         /\ \A name : Has(<<x>>, name) <=> x[1] = name
         /\ Tail(<<x>>) = <<>> /\ <<x>> # <<>>
BY DEF Has

LEMMA TwoSteps ==
  ASSUME NEW x \in Steps, NEW y \in Steps, NEW s, s = <<x, y>>
  PROVE  /\ s \in Seq(Steps) /\ Len(s) = 2 /\ s[1] = x /\ s[2] = y
         /\ \A name : Has(s, name) <=> x[1] = name \/ y[1] = name
         /\ Tail(s) = <<y>> /\ s # <<>>
<1>1. s \in Seq(Steps) /\ Len(s) = 2 /\ s[1] = x /\ s[2] = y
  OBVIOUS
<1>2. \A i \in 1 .. 2 : i = 1 \/ i = 2
  OBVIOUS
<1>3. \A name : Has(s, name) <=> x[1] = name \/ y[1] = name
  BY <1>1, <1>2 DEF Has
<1>4. Tail(s) = <<y>> /\ s # <<>>
  OBVIOUS
<1> QED BY <1>1, <1>3, <1>4

LEMMA StepsAre ==
  /\ Inits \in Steps /\ Fin \in Steps /\ End \in Steps /\ Sizes \in Steps
  /\ Inits[1] = "init" /\ Fin[1] = "finalize" /\ End[1] = "end" /\ Sizes[1] = "sizes"
  /\ \A h \in Nat : /\ <<"open", h>> \in Steps /\ <<"head", h>> \in Steps
                    /\ <<"io", h>> \in Steps /\ <<"close", h>> \in Steps
                    /\ <<"free", h>> \in Steps
BY DEF Inits, Fin, End, Sizes, Steps, StepNames

LEMMA HasRest ==
  ASSUME NEW s \in Seq(Steps), s # <<>>, NEW name, Has(Tail(s), name)
  PROVE  Has(s, name)
<1>1. PICK i \in 1 .. Len(Tail(s)) : Tail(s)[i][1] = name
  BY DEF Has
<1>2. i + 1 \in 1 .. Len(s) /\ Tail(s)[i] = s[i + 1]
  BY <1>1, Rest
<1> QED BY <1>1, <1>2 DEF Has
-----------------------------------------------------------------------------
(***************************************************************************)
(* What p leaves alone: the script only grows, and never behind a return.  *)
(***************************************************************************)
Grows ==
  /\ script' \in Seq(ProgramCalls) /\ Len(script) <= Len(script')
  /\ \A n \in 1 .. Len(script) : script'[n] = script[n]
  /\ Len(script') = Len(script) \/ \A q \in Rank : ~Returns(q)

Same(q) ==
  /\ at'[q] = at[q] /\ todo'[q] = todo[q] /\ managing'[q] = managing[q]
  /\ manager'[q] = manager[q] /\ mpi'[q] = mpi[q] /\ handles'[q] = handles[q]
  /\ alive'[q] = alive[q] /\ open'[q] = open[q] /\ unsaid'[q] = unsaid[q]
  /\ ended'[q] = ended[q]

LEMMA Stays ==
  ASSUME script \in Seq(ProgramCalls), script' = script
  PROVE  Grows
BY DEF Grows

\* What is known of the calls that q has made remains so.
LEMMA CallsKept ==
  ASSUME Types, Grows, NEW q \in Rank, at[q] <= Len(script)
  PROVE  /\ \A n \in 1 .. at[q] : Kind(n)' = Kind(n) /\ Of(n)' = Of(n) /\ Op(n)' = Op(n)
         /\ at[q] \in Nat /\ Len(script) \in Nat /\ Len(script') \in Nat
<1>1. at[q] \in Nat /\ Len(script) \in Nat /\ Len(script') \in Nat
  BY DEF Types, Grows
<1>2. ASSUME NEW n \in 1 .. at[q]
      PROVE  script'[n] = script[n]
  <2>1. n \in 1 .. Len(script)
    BY <1>1
  <2> QED BY <2>1 DEF Grows
<1> QED BY <1>1, <1>2 DEF Kind, Of, Op

LEMMA ObjectsKept ==
  ASSUME Types, Grows, NEW q \in Rank, Objects(q), at'[q] \in Nat, at[q] <= at'[q],
         at'[q] <= Len(script'),
         handles'[q] \subseteq handles[q], alive'[q] = alive[q], open'[q] = open[q],
         Has(todo'[q], "free") \/ (handles'[q] = handles[q] /\ ~Pending(q, "free"))
  PROVE  Objects(q)'
<1>1. /\ \A n \in 1 .. at[q] : Kind(n)' = Kind(n) /\ Of(n)' = Of(n)
      /\ at[q] \in Nat /\ at[q] <= Len(script)
  BY CallsKept DEF Objects
<1>2. handles'[q] \subseteq alive'[q]
  BY DEF Objects
<1>3. alive'[q] \subseteq 1 .. at[q] /\ open'[q] \subseteq 1 .. at[q] /\ 1 .. at[q] \subseteq 1 .. at'[q]
      /\ 0 .. at[q] \subseteq 0 .. at'[q]
  BY <1>1 DEF Objects
<1>4. ASSUME NEW h \in alive'[q]
      PROVE  /\ Of(h)' \in 0 .. at'[q]
             /\ Of(h)' # 0 => Kind(Of(h))' \in {"ExSeis", "Rule"}
             /\ Kind(h)' \in Files => /\ Of(h)' # 0 /\ Of(h)' \in alive'[q]
                                      /\ Kind(Of(h))' = "ExSeis"
  <2>1. /\ h \in alive[q] /\ h \in 1 .. at[q]
        /\ Of(h) \in 0 .. at[q]
        /\ Of(h) # 0 => Kind(Of(h)) \in {"ExSeis", "Rule"}
        /\ Kind(h) \in Files => Of(h) # 0 /\ Of(h) \in alive[q] /\ Kind(Of(h)) = "ExSeis"
    BY <1>3 DEF Objects
  <2>2. Of(h)' = Of(h) /\ Kind(h)' = Kind(h)
    BY <2>1, <1>1
  <2>3. Of(h) # 0 => Of(h) \in 1 .. at[q]
    BY <2>1, <1>1
  <2>4. Of(h) # 0 => Kind(Of(h))' = Kind(Of(h))
    <3>1. ASSUME NEW n \in 1 .. at[q], n = Of(h)
          PROVE  script'[Of(h)'].kind = script[Of(h)].kind
      BY <3>1, <2>2, <1>1 DEF Kind
    <3> QED BY <3>1, <2>3 DEF Kind
  <2> QED BY <2>1, <2>2, <2>4, <1>3
<1>5. \A h \in open'[q] : Kind(h)' \in Files
  BY <1>1, <1>3 DEF Objects
<1>6. handles'[q] = handles[q] => Reach(handles[q])' = Reach(handles[q])
  <2>1. \A h \in handles[q] : Of(h)' = Of(h)
    BY <1>1 DEF Objects
  <2> QED BY <2>1 DEF Reach
<1>7. ~Has(todo'[q], "free") => alive'[q] \subseteq Reach(handles[q])'
  BY <1>6 DEF Objects
<1> QED BY <1>2, <1>3, <1>4, <1>5, <1>7 DEF Objects, Pending

LEMMA NeedyKept ==
  ASSUME Types, Grows, NEW q \in Rank, Objects(q), alive'[q] = alive[q]
  PROVE  Needy(q)' <=> Needy(q)
<1>1. /\ \A n \in 1 .. at[q] : Kind(n)' = Kind(n)
      /\ alive[q] \subseteq 1 .. at[q]
  BY CallsKept DEF Objects
<1> QED BY <1>1 DEF Needy

LEMMA PiolKept ==
  ASSUME Types, Grows, NEW q \in Rank, Objects(q), alive'[q] = alive[q]
  PROVE  Piol(q)' = Piol(q)
<1>1. /\ \A n \in 1 .. at[q] : Kind(n)' = Kind(n)
      /\ alive[q] \subseteq 1 .. at[q]
  BY CallsKept DEF Objects
<1> QED BY <1>1 DEF Piol

LEMMA NoPiolKept ==
  ASSUME Types, Grows, NEW q \in Rank, Objects(q), at'[q] = at[q]
  PROVE  NoPiolYet(q)' <=> NoPiolYet(q)
<1>1. \A n \in 1 .. at[q] : Kind(n)' = Kind(n) /\ Op(n)' = Op(n)
  BY CallsKept DEF Objects
<1> QED BY <1>1 DEF NoPiolYet

LEMMA ReturnsKept ==
  ASSUME Types, Grows, NEW q \in Rank, Objects(q), at'[q] = at[q], Returns(q)
  PROVE  Returns(q)'
<1>1. Len(script') = Len(script)
  BY DEF Grows
<1>2. at[q] \in 1 .. at[q] /\ Op(at[q])' = Op(at[q])
  <2>1. at[q] \in 1 .. at[q] /\ at[q] \in 1 .. Len(script)
    BY CallsKept DEF Objects, Returns
  <2>2. script'[at[q]] = script[at[q]]
    BY <2>1 DEF Grows
  <2> QED BY <2>1, <2>2 DEF Op
<1> QED BY <1>1, <1>2 DEF Returns

\* The steps that wait at q, when no step of q has been made.
LEMMA WorkKept ==
  ASSUME Types, Grows, NEW q \in Rank, Objects(q), Work(q),
         at'[q] = at[q], todo'[q] = todo[q], mpi'[q] = mpi[q], alive'[q] = alive[q]
  PROVE  Work(q)'
<1>1. \A n \in 1 .. at[q] : Kind(n)' = Kind(n)
  BY CallsKept DEF Objects
<1>2. \A h \in alive[q] : Kind(h)' = Kind(h)
  BY <1>1 DEF Objects
<1>3. /\ Needy(q)' <=> Needy(q)
      /\ NoPiolYet(q)' <=> NoPiolYet(q)
      /\ Returns(q) => Returns(q)'
      /\ \A name : Pending(q, name)' <=> Pending(q, name)
  BY NeedyKept, NoPiolKept, ReturnsKept DEF Pending
<1>4. \A i \in 1 .. Len(todo'[q]) :
         /\ todo'[q][i][1] = "free" => i = Len(todo'[q])
         /\ todo'[q][i][1] \in {"sizes", "open", "head", "io", "close"} => mpi'[q] = "on"
         /\ todo'[q][i][1] \in {"open", "head", "io", "close"} =>
              todo'[q][i][2] \in alive'[q] /\ Kind(todo[q][i][2])' \in Files
  BY <1>2 DEF Work
<1>5. \A i : Kind(todo[q][i][2])' = script'[todo'[q][i][2]].kind
  BY DEF Kind
<1> QED BY <1>3, <1>4, <1>5 DEF Work, Kind

LEMMA Untouched ==
  ASSUME Types, Grows, NEW q \in Rank, Process(q), Same(q)
  PROVE  Process(q)'
<1>1. Objects(q) /\ Library(q) /\ Work(q) /\ Ends(q) /\ at[q] \in Nat /\ Len(script) <= Len(script')
      /\ at[q] <= Len(script) /\ Len(script) \in Nat /\ Len(script') \in Nat
  BY DEF Process, Types, Objects, Grows
<1>2. Objects(q)'
  <2>1. at'[q] \in Nat /\ at[q] <= at'[q] /\ at'[q] <= Len(script')
    BY <1>1 DEF Same
  <2>2. Has(todo'[q], "free") \/ ~Pending(q, "free")
    BY DEF Same, Pending
  <2> QED BY <1>1, <2>1, <2>2, ObjectsKept DEF Same
<1>3. /\ Needy(q)' <=> Needy(q)
      /\ NoPiolYet(q)' <=> NoPiolYet(q)
      /\ Returns(q) => Returns(q)'
      /\ \A name : Pending(q, name)' <=> Pending(q, name)
      /\ Piol(q)' = Piol(q)
  BY <1>1, NeedyKept, NoPiolKept, ReturnsKept, PiolKept DEF Pending, Same
<1>4. Library(q)'
  BY <1>1, <1>3 DEF Library, Same
<1>5. Work(q)'
  BY <1>1, WorkKept DEF Same
<1>6. Ends(q)'
  <2>1. at[q] # 0 => Op(at[q])' = Op(at[q])
    <3>1. at[q] # 0 => at[q] \in 1 .. Len(script)
      BY <1>1
    <3>2. at[q] # 0 => script'[at[q]] = script[at[q]]
      BY <3>1 DEF Grows
    <3> QED BY <3>2 DEF Op, Same
  <2> QED BY <1>1, <1>3, <2>1 DEF Ends, Same
<1> QED BY <1>2, <1>4, <1>5, <1>6 DEF Process

\* The processes that are not named do nothing.
LEMMA Assembled ==
  ASSUME IInv, Grows, Types', ReturnIsLast', NEW p \in Rank, Process(p)',
         \A q \in Rank : q # p => Same(q)
  PROVE  IInv'
<1>1. ASSUME NEW q \in Rank, q # p
      PROVE  Process(q)'
  BY <1>1, Untouched DEF IInv
<1>2. \A q \in Rank : Process(q)'
  BY <1>1
<1> QED BY <1>2 DEF IInv
-----------------------------------------------------------------------------
(***************************************************************************)
(* A process begins a call.                                                *)
(***************************************************************************)
Begins(p, c) ==
  /\ Grows /\ ReturnIsLast'
  /\ at' \in [Rank -> Nat] /\ at'[p] = at[p] + 1 /\ (\A q \in Rank : q # p => at'[q] = at[q])
  /\ at'[p] <= Len(script') /\ script'[at'[p]] = c
  /\ todo' \in [Rank -> Seq(Steps)] /\ (\A q \in Rank : q # p => todo'[q] = todo[q])
  /\ reckless' \in BOOLEAN
  /\ ended[p] = "no" /\ todo[p] = <<>>

LEMMA BeginIs ==
  ASSUME IInv, NEW p \in Rank, NEW c \in ProgramCalls, NEW s \in Seq(Steps), BeginCall(p, c, s)
  PROVE  Begins(p, c) /\ todo'[p] = s
<1>1. /\ script \in Seq(ProgramCalls) /\ at \in [Rank -> Nat] /\ todo \in [Rank -> Seq(Steps)]
      /\ reckless \in BOOLEAN /\ err \in [Rank -> BOOLEAN]
      /\ Len(script) \in Nat /\ \A q \in Rank : at[q] <= Len(script) /\ at[q] \in Nat
  BY DEF IInv, Types, Process, Objects
<1>2. ended[p] = "no" /\ todo[p] = <<>>
  BY DEF BeginCall
<1>3. at' = [at EXCEPT ![p] = @ + 1] /\ todo' = [todo EXCEPT ![p] = s]
  BY DEF BeginCall
<1>4. /\ at' \in [Rank -> Nat] /\ at'[p] = at[p] + 1 /\ \A q \in Rank : q # p => at'[q] = at[q]
      /\ todo' \in [Rank -> Seq(Steps)] /\ todo'[p] = s
      /\ \A q \in Rank : q # p => todo'[q] = todo[q]
  BY <1>1, <1>3
<1>5. reckless' \in BOOLEAN
  BY DEF BeginCall
<1>6. \/ at[p] < Len(script) /\ script[at[p] + 1] = c /\ script' = script
      \/ at[p] = Len(script) /\ script' = Append(script, c)
  <2>1. at[p] < Len(script) \/ at[p] = Len(script)
    BY <1>1
  <2> QED BY <2>1 DEF BeginCall
<1>7. Grows /\ ReturnIsLast' /\ at'[p] <= Len(script') /\ script'[at'[p]] = c
  <2>1. CASE at[p] < Len(script) /\ script[at[p] + 1] = c /\ script' = script
    <3>1. Grows
      BY <1>1, <2>1 DEF Grows
    <3>2. ReturnIsLast'
      BY <2>1 DEF IInv, ReturnIsLast, Op
    <3> QED BY <3>1, <3>2, <2>1, <1>1, <1>4
  <2>2. CASE at[p] = Len(script) /\ script' = Append(script, c)
    <3>1. /\ script' \in Seq(ProgramCalls) /\ Len(script') = Len(script) + 1
          /\ \A i \in 1 .. Len(script) : script'[i] = script[i]
          /\ script'[Len(script) + 1] = c
      BY <1>1, <2>2, Longer
    <3>2. at[p] = 0 \/ Op(at[p]) # "return"
      <4>1. ~Pending(p, "end")
        BY <1>2, NoSteps DEF Pending
      <4> QED BY <1>2, <4>1 DEF IInv, Process, Ends
    <3>3. \A q \in Rank : ~Returns(q)
      BY <2>2, <3>2 DEF Returns
    <3>4. Grows
      BY <3>1, <3>3, <1>1 DEF Grows
    <3>5. \A n \in 1 .. Len(script) : Op(n) # "return"
      <4>1. ASSUME NEW n \in 1 .. Len(script), Op(n) = "return"
            PROVE  FALSE
        <5>1. n = Len(script) /\ n # 0
          BY <4>1, <1>1 DEF IInv, ReturnIsLast
        <5> QED BY <5>1, <4>1, <3>2, <2>2
      <4> QED BY <4>1
    <3>6. ReturnIsLast'
      <4>1. ASSUME NEW n \in 1 .. Len(script'), script'[n].op = "return"
            PROVE  n = Len(script')
        <5>1. n \in 1 .. Len(script) \/ n = Len(script) + 1
          BY <3>1, <1>1
        <5>2. n \notin 1 .. Len(script)
          BY <4>1, <3>1, <3>5 DEF Op
        <5> QED BY <5>1, <5>2, <3>1
      <4> QED BY <4>1 DEF ReturnIsLast, Op
    <3> QED BY <3>1, <3>4, <3>6, <2>2, <1>1, <1>4
  <2> QED BY <1>6, <2>1, <2>2
<1> QED BY <1>2, <1>4, <1>5, <1>7 DEF Begins

\* p has had nothing to do.
LEMMA WasIdle ==
  ASSUME NEW p \in Rank, NEW c, Begins(p, c)
  PROVE  \A name : ~Pending(p, name)
BY NoSteps DEF Begins, Pending

\* The new call is the last p knows, the others are what they were.
LEMMA CallsAfter ==
  ASSUME IInv, NEW p \in Rank, NEW c, Begins(p, c)
  PROVE  /\ \A n \in 1 .. at[p] : Kind(n)' = Kind(n) /\ Of(n)' = Of(n) /\ Op(n)' = Op(n)
         /\ \A n : n = at'[p] => Kind(n)' = c.kind /\ Of(n)' = c.of /\ Op(n)' = c.op
         /\ at[p] \in Nat /\ at'[p] = at[p] + 1
         /\ \A n \in 1 .. at'[p] : n \in 1 .. at[p] \/ n = at'[p]
<1>1. at[p] \in Nat /\ at[p] <= Len(script)
  BY DEF IInv, Types, Process, Objects
<1>2. Types /\ Grows /\ at'[p] = at[p] + 1 /\ script'[at'[p]] = c
  BY DEF IInv, Begins
<1>3. \A n \in 1 .. at[p] : Kind(n)' = Kind(n) /\ Of(n)' = Of(n) /\ Op(n)' = Op(n)
  BY <1>1, <1>2, CallsKept
<1>4. \A n : n = at'[p] => Kind(n)' = c.kind /\ Of(n)' = c.of /\ Op(n)' = c.op
  BY <1>2 DEF Kind, Of, Op
<1> QED BY <1>1, <1>2, <1>3, <1>4

LEMMA NoPiolAfter ==
  ASSUME IInv, NEW p \in Rank, NEW c, Begins(p, c), NoPiolYet(p),
         c.op = "new" => c.kind # "ExSeis"
  PROVE  NoPiolYet(p)'
BY CallsAfter DEF NoPiolYet

\* A list of steps that neither starts nor ends anything but an object.
PlainNames == {"sizes", "open", "head", "io", "close", "free"}

LEMMA WorkPlain ==
  ASSUME NEW p \in Rank,
         \A i \in 1 .. Len(todo'[p]) :
           /\ todo'[p][i][1] \in PlainNames
           /\ todo'[p][i][1] = "free" => i = Len(todo'[p])
           /\ todo'[p][i][1] # "free" => mpi'[p] = "on"
           /\ todo'[p][i][1] \in {"open", "head", "io", "close"} =>
                todo'[p][i][2] \in alive'[p] /\ script'[todo'[p][i][2]].kind \in Files
  PROVE  Work(p)' /\ \A name : Has(todo'[p], name) => name \in PlainNames
<1>1. \A name : Has(todo'[p], name) => name \in PlainNames
  BY DEF Has
<1>2. ~Pending(p, "init")' /\ ~Pending(p, "finalize")' /\ ~Pending(p, "end")'
  BY <1>1 DEF Pending, PlainNames
<1>3. \A i \in 1 .. Len(todo'[p]) :
         /\ todo'[p][i][1] = "free" => i = Len(todo'[p])
         /\ todo'[p][i][1] \in {"sizes", "open", "head", "io", "close"} => mpi'[p] = "on"
         /\ todo'[p][i][1] \in {"open", "head", "io", "close"} =>
              todo'[p][i][2] \in alive'[p] /\ script'[todo'[p][i][2]].kind \in Files
  OBVIOUS
<1> QED BY <1>1, <1>2, <1>3 DEF Work, Kind

\* Calls that make no object and start nothing by themselves.
LEMMA BeginKeeps ==
  ASSUME IInv, NEW p \in Rank, NEW c, Begins(p, c), Types',
         \A q \in Rank : q # p => Same(q),
         handles'[p] \subseteq handles[p], alive'[p] = alive[p], open'[p] = open[p],
         Has(todo'[p], "free") \/ handles'[p] = handles[p],
         manager'[p] = manager[p], mpi'[p] = mpi[p], managing'[p] = "no" => mpi[p] # "not",
         \/ ended'[p] = ended[p] /\ unsaid'[p] = unsaid[p]
         \/ ended'[p] = "aborted" /\ unsaid'[p] = 0,
         c.op # "new", c.op = "return" => Has(todo'[p], "end"),
         Work(p)'
  PROVE  IInv'
<1>0. at[p] \in Nat /\ at'[p] = at[p] + 1
  BY DEF IInv, Types, Begins
<1>1. /\ Types /\ Grows /\ ReturnIsLast' /\ Process(p) /\ Objects(p) /\ Library(p) /\ Ends(p)
      /\ ended[p] = "no" /\ at'[p] <= Len(script') /\ at'[p] \in Nat /\ at[p] <= at'[p]
  BY <1>0 DEF IInv, Begins, Process
<1>2. \A name : ~Pending(p, name)
  BY WasIdle
<1>3. Objects(p)'
  BY <1>1, <1>2, ObjectsKept
<1>4. (Needy(p)' <=> Needy(p)) /\ Piol(p)' = Piol(p)
  BY <1>1, NeedyKept, PiolKept
<1>5. NoPiolYet(p) => NoPiolYet(p)'
  BY NoPiolAfter
<1>6. Library(p)'
  BY <1>1, <1>2, <1>4, <1>5 DEF Library
<1>7. Ends(p)'
  <2>1. Op(at[p])' = script'[at'[p]].op
    BY DEF Op
  <2>2. script'[at'[p]] = c
    BY DEF Begins
  <2>3. ended'[p] = "no" /\ ~Pending(p, "end")' => Op(at[p])' # "return"
    BY <2>1, <2>2 DEF Pending
  <2> QED BY <2>3, <1>1, <1>4 DEF Ends
<1> QED BY <1>1, <1>3, <1>6, <1>7, Assembled DEF Process

LEMMA QuietBegin ==
  ASSUME IInv, NEW p \in Rank, NEW c \in ProgramCalls, NEW s \in Seq(Steps), BeginCall(p, c, s),
         UNCHANGED <<library, objects, ended>>,
         c.op # "new", c.op = "return" => Has(s, "end"),
         todo'[p] = s => Work(p)'
  PROVE  IInv'
<1>1. Begins(p, c) /\ todo'[p] = s
  BY BeginIs
<1>2. Types'
  BY <1>1 DEF IInv, Types, Begins, Grows, library, objects
<1>3. \A q \in Rank : q # p => Same(q)
  BY <1>1 DEF Begins, Same, library, objects
<1>4. IInv /\ Library(p) /\ mpi[p] \in {"not", "on", "off"}
  BY DEF IInv, Process, Types
<1> QED BY <1>1, <1>2, <1>3, <1>4, BeginKeeps DEF library, objects, Library

\* No steps at all.
LEMMA WorkNone ==
  ASSUME NEW p \in Rank, todo'[p] = <<>>
  PROVE  Work(p)'
BY NoSteps, WorkPlain

LEMMA WorkSizes ==
  ASSUME NEW p \in Rank, todo'[p] = <<Sizes>>, mpi'[p] = "on"
  PROVE  Work(p)'
<1>1. Len(todo'[p]) = 1 /\ todo'[p][1][1] = "sizes"
  BY StepsAre, OneStep
<1>2. ASSUME NEW i \in 1 .. Len(todo'[p])
      PROVE  todo'[p][i][1] = "sizes"
  <2>1. i = 1
    BY <1>1
  <2> QED BY <2>1, <1>1
<1> QED BY <1>2, WorkPlain DEF PlainNames

\* The steps of a transfer: all of the file, which is open and alive.
FileNames == {"sizes", "open", "head", "io", "close"}

FileSteps(p, s) ==
  /\ s \in Seq(Steps)
  /\ \A i \in 1 .. Len(s) :
       /\ s[i][1] \in FileNames
       /\ s[i][1] # "sizes" => s[i][2] \in alive[p] /\ Kind(s[i][2]) \in Files

LEMMA TransferIs ==
  ASSUME NEW p \in Rank, NEW h \in alive[p], h \in Nat, Kind(h) \in Files
  PROVE  FileSteps(p, Transfer(p, h))
<1>1. ASSUME Transfer(p, h) = <<Sizes>>
      PROVE  FileSteps(p, Transfer(p, h))
  <2>1. Len(Transfer(p, h)) = 1 /\ Transfer(p, h)[1][1] = "sizes" /\ Transfer(p, h) \in Seq(Steps)
    BY <1>1, StepsAre, OneStep
  <2>2. \A i \in 1 .. 1 : i = 1
    OBVIOUS
  <2> QED BY <2>1, <2>2 DEF FileSteps, FileNames
<1>2. ASSUME Transfer(p, h) = <<Sizes, <<"io", h>>>>
      PROVE  FileSteps(p, Transfer(p, h))
  <2>0. Sizes \in Steps /\ <<"io", h>> \in Steps /\ Sizes[1] = "sizes"
    BY StepsAre
  <2>1. /\ Len(Transfer(p, h)) = 2 /\ Transfer(p, h)[1] = Sizes
        /\ Transfer(p, h)[2] = <<"io", h>> /\ Transfer(p, h) \in Seq(Steps)
    BY <1>2, <2>0, TwoSteps
  <2>2. \A i \in 1 .. 2 : i = 1 \/ i = 2
    OBVIOUS
  <2>3. <<"io", h>>[1] = "io" /\ <<"io", h>>[2] = h
    OBVIOUS
  <2> QED BY <2>0, <2>1, <2>2, <2>3 DEF FileSteps, FileNames
<1> QED BY <1>1, <1>2 DEF Transfer

LEMMA NoFileSteps ==
  ASSUME NEW p \in Rank
  PROVE  FileSteps(p, <<>>)
BY NoSteps DEF FileSteps

LEMMA CloseIs ==
  ASSUME NEW p \in Rank, NEW h \in alive[p], h \in Nat, Kind(h) \in Files
  PROVE  FileSteps(p, <<<<"close", h>>>>)
<1>1. <<"close", h>> \in Steps /\ <<"close", h>>[1] = "close" /\ <<"close", h>>[2] = h
  BY StepsAre
<1>2. \A i \in 1 .. 1 : i = 1
  OBVIOUS
<1>3. /\ <<<<"close", h>>>> \in Seq(Steps) /\ Len(<<<<"close", h>>>>) = 1
      /\ <<<<"close", h>>>>[1] = <<"close", h>>
  BY <1>1, OneStep
<1> QED BY <1>1, <1>2, <1>3 DEF FileSteps, FileNames

LEMMA JoinedFile ==
  ASSUME NEW p \in Rank, NEW a, NEW b, FileSteps(p, a), FileSteps(p, b)
  PROVE  FileSteps(p, a \o b)
<1>1. a \in Seq(Steps) /\ b \in Seq(Steps)
  BY DEF FileSteps
<1>2. /\ a \o b \in Seq(Steps) /\ Len(a \o b) = Len(a) + Len(b)
      /\ \A i \in 1 .. Len(a) + Len(b) :
           \/ i \in 1 .. Len(a) /\ (a \o b)[i] = a[i]
           \/ i - Len(a) \in 1 .. Len(b) /\ (a \o b)[i] = b[i - Len(a)]
  BY <1>1, Joined
<1>3. ASSUME NEW i \in 1 .. Len(a \o b)
      PROVE  /\ (a \o b)[i][1] \in FileNames
             /\ (a \o b)[i][1] # "sizes" =>
                  (a \o b)[i][2] \in alive[p] /\ Kind((a \o b)[i][2]) \in Files
  <2>1. \/ i \in 1 .. Len(a) /\ (a \o b)[i] = a[i]
        \/ i - Len(a) \in 1 .. Len(b) /\ (a \o b)[i] = b[i - Len(a)]
    BY <1>2
  <2> QED BY <2>1 DEF FileSteps
<1> QED BY <1>2, <1>3 DEF FileSteps

\* Steps of files begun by p, while MPI is on and the files are what they were.
LEMMA WorkFile ==
  ASSUME NEW p \in Rank, NEW s, FileSteps(p, s), todo'[p] = s, mpi'[p] = "on",
         alive'[p] = alive[p], \A h \in alive[p] : Kind(h)' = Kind(h)
  PROVE  Work(p)'
<1>1. \A h \in alive[p] : script'[h].kind = Kind(h)
  BY DEF Kind
<1>2. ASSUME NEW i \in 1 .. Len(todo'[p])
      PROVE  /\ todo'[p][i][1] \in FileNames
             /\ todo'[p][i][1] # "sizes" =>
                  todo'[p][i][2] \in alive'[p] /\ script'[todo'[p][i][2]].kind \in Files
  BY <1>1 DEF FileSteps
<1> QED BY <1>2, WorkPlain DEF FileNames, PlainNames

\* The lists that start or end MPI or the program.
LEMMA WorkInit ==
  ASSUME NEW p \in Rank, todo'[p] = <<Inits>>, mpi'[p] = "not"
  PROVE  Work(p)'
<1>1. /\ Len(todo'[p]) = 1 /\ todo'[p][1][1] = "init"
      /\ \A name : Has(todo'[p], name) <=> "init" = name
  BY StepsAre, OneStep
<1>2. \A i \in 1 .. Len(todo'[p]) : todo'[p][i][1] = "init"
  <2>1. \A i \in 1 .. 1 : i = 1
    OBVIOUS
  <2> QED BY <1>1, <2>1
<1> QED BY <1>1, <1>2 DEF Work, Pending

LEMMA WorkFin ==
  ASSUME NEW p \in Rank, todo'[p] = <<Fin>>, mpi'[p] = "on", ~Needy(p)'
  PROVE  Work(p)'
<1>1. /\ Len(todo'[p]) = 1 /\ todo'[p][1][1] = "finalize"
      /\ \A name : Has(todo'[p], name) <=> "finalize" = name
  BY StepsAre, OneStep
<1>2. \A i \in 1 .. Len(todo'[p]) : todo'[p][i][1] = "finalize"
  <2>1. \A i \in 1 .. 1 : i = 1
    OBVIOUS
  <2> QED BY <1>1, <2>1
<1> QED BY <1>1, <1>2 DEF Work, Pending

LEMMA WorkEnd ==
  ASSUME NEW p \in Rank, todo'[p] = <<End>>, Returns(p)', mpi'[p] = "on" => NoPiolYet(p)'
  PROVE  Work(p)'
<1>1. /\ Len(todo'[p]) = 1 /\ todo'[p][1][1] = "end"
      /\ \A name : Has(todo'[p], name) <=> "end" = name
  BY StepsAre, OneStep
<1>2. \A i \in 1 .. Len(todo'[p]) : todo'[p][i][1] = "end"
  <2>1. \A i \in 1 .. 1 : i = 1
    OBVIOUS
  <2> QED BY <1>1, <2>1
<1> QED BY <1>1, <1>2 DEF Work, Pending

LEMMA WorkFinEnd ==
  ASSUME NEW p \in Rank, todo'[p] = <<Fin, End>>, Returns(p)', mpi'[p] = "on"
  PROVE  Work(p)'
<1>0. Fin \in Steps /\ End \in Steps /\ Fin[1] = "finalize" /\ End[1] = "end"
  BY StepsAre
<1>1. /\ Len(todo'[p]) = 2 /\ todo'[p][1] = Fin /\ todo'[p][2] = End
      /\ \A name : Has(todo'[p], name) <=> Fin[1] = name \/ End[1] = name
  <2>1. ASSUME NEW x \in Steps, NEW y \in Steps, todo'[p] = <<x, y>>
        PROVE  /\ Len(todo'[p]) = 2 /\ todo'[p][1] = x /\ todo'[p][2] = y
               /\ \A name : Has(todo'[p], name) <=> x[1] = name \/ y[1] = name
    BY <2>1, TwoSteps
  <2> QED BY <2>1, <1>0
<1>2. \A i \in 1 .. Len(todo'[p]) : todo'[p][i][1] = "finalize" \/ todo'[p][i][1] = "end"
  <2>1. \A i \in 1 .. 2 : i = 1 \/ i = 2
    OBVIOUS
  <2> QED BY <1>0, <1>1, <2>1
<1>3. todo'[p] # <<End>>
  BY <1>1, <1>0
<1> QED BY <1>0, <1>1, <1>2, <1>3 DEF Work, Pending

\* Before a call MPI is on, if there is a PIOL or a file.
LEMMA IdleOn ==
  ASSUME IInv, NEW p \in Rank, NEW c, Begins(p, c), Needy(p)
  PROVE  mpi[p] = "on"
<1>1. \A name : ~Pending(p, name)
  BY WasIdle
<1> QED BY <1>1 DEF IInv, Process, Library, Begins

LEMMA NeedyIs ==
  ASSUME IInv, NEW p \in Rank, NEW kinds, kinds \subseteq Files \cup {"ExSeis"},
         NEW h \in Some(p, kinds)
  PROVE  Needy(p)
BY DEF IInv, Process, Objects, Some, Needy

LEMMA CallIs ==
  ASSUME NEW op \in CallNames, NEW kind \in CallKinds, NEW of \in Nat
  PROVE  /\ Call(op, kind, of) \in ProgramCalls /\ Call(op, kind, of).op = op
         /\ Call(op, kind, of).kind = kind /\ Call(op, kind, of).of = of
BY DEF Call, ProgramCalls

LEMMA KindNames == "" \in CallKinds /\ "yes" \in CallKinds /\ "no" \in CallKinds /\ ObjKinds \subseteq CallKinds
BY DEF CallKinds

LEMMA KindIs ==
  ASSUME IInv, NEW p \in Rank, NEW h \in alive[p]
  PROVE  h \in Nat /\ Kind(h) \in CallKinds
<1>1. h \in 1 .. Len(script) /\ script \in Seq(ProgramCalls)
  BY DEF IInv, Process, Objects, Types
<1>2. script[h] \in ProgramCalls
  BY <1>1
<1> QED BY <1>1, <1>2 DEF Kind, ProgramCalls

LEMMA KindStays ==
  ASSUME IInv, NEW p \in Rank, NEW c, Begins(p, c)
  PROVE  \A h \in alive[p] : Kind(h)' = Kind(h)
BY CallsAfter DEF IInv, Process, Objects
-----------------------------------------------------------------------------
LEMMA UserInitStep ==
  ASSUME IInv, NEW p \in Rank, UserInit(p)
  PROVE  IInv'
<1> DEFINE c == Call("Init", "", 0)
<1>1. c \in ProgramCalls /\ c.op = "Init" /\ <<Inits>> \in Seq(Steps)
  <2>1. "Init" \in CallNames /\ 0 \in Nat
    BY DEF CallNames
  <2>2. c \in ProgramCalls /\ c.op = "Init"
    BY <2>1, KindNames DEF Call, ProgramCalls
  <2> HIDE DEF c
  <2> QED BY <2>2, StepsAre, OneStep
<1>2. BeginCall(p, c, <<Inits>>) /\ UNCHANGED <<library, objects, ended>> /\ mpi[p] = "not"
  BY DEF UserInit, Inits
<1>3. todo'[p] = <<Inits>> => Work(p)'
  BY <1>2, WorkInit DEF library
<1> HIDE DEF c
<1> QED BY <1>1, <1>2, <1>3, QuietBegin

LEMMA UserFinalizeStep ==
  ASSUME IInv, NEW p \in Rank, UserFinalize(p)
  PROVE  IInv'
<1> DEFINE c == Call("Finalize", "", 0)
<1>1. c \in ProgramCalls /\ c.op = "Finalize" /\ <<Fin>> \in Seq(Steps)
  <2>1. "Finalize" \in CallNames /\ 0 \in Nat
    BY DEF CallNames
  <2>2. c \in ProgramCalls /\ c.op = "Finalize"
    BY <2>1, KindNames DEF Call, ProgramCalls
  <2> HIDE DEF c
  <2> QED BY <2>2, StepsAre, OneStep
<1>2. BeginCall(p, c, <<Fin>>) /\ UNCHANGED <<library, objects, ended>> /\ mpi[p] = "on" /\ ~Needy(p)
  BY DEF UserFinalize, Fin, Needy
<1> HIDE DEF c
<1>3. Begins(p, c)
  BY <1>1, <1>2, BeginIs
<1>4. ~Needy(p)'
  BY <1>2, <1>3, NeedyKept DEF IInv, Process, Begins, objects
<1>5. todo'[p] = <<Fin>> => Work(p)'
  BY <1>2, <1>4, WorkFin DEF library
<1> QED BY <1>1, <1>2, <1>5, QuietBegin

\* The calls on handles, whose steps are of a live file or a reduction.
Uses(p, op, kinds, h, s) ==
  /\ op \in {"use", "about"} /\ h \in Some(p, kinds) /\ s \in Seq(Steps)
  /\ BeginCall(p, Call(op, Kind(h), h), s) /\ UNCHANGED <<library, objects, ended>>
  /\ s = <<>> \/ (kinds \subseteq Files \cup {"ExSeis"} /\ FileSteps(p, s))

LEMMA UseStep ==
  ASSUME IInv, NEW p \in Rank, NEW op, NEW kinds, NEW h, NEW s, Uses(p, op, kinds, h, s)
  PROVE  IInv'
<1> USE DEF Uses
<1> DEFINE c == Call(op, Kind(h), h)
<1>1. h \in alive[p] /\ h \in Nat /\ Kind(h) \in CallKinds
  BY KindIs DEF IInv, Process, Objects, Some
<1>2. c \in ProgramCalls /\ c.op = op /\ op # "new" /\ op # "return"
  <2>1. op \in CallNames
    BY DEF CallNames
  <2> QED BY <1>1, <2>1, CallIs
<1>3. BeginCall(p, c, s)
  OBVIOUS
<1> HIDE DEF c
<1>4. Begins(p, c)
  BY <1>2, <1>3, BeginIs
<1>5. ASSUME todo'[p] = s
      PROVE  Work(p)'
  <2>1. CASE s = <<>>
    BY <1>5, <2>1, WorkNone
  <2>2. CASE kinds \subseteq Files \cup {"ExSeis"} /\ FileSteps(p, s)
    <3>1. mpi[p] = "on"
      BY <2>2, <1>4, IdleOn, NeedyIs
    <3>2. \A g \in alive[p] : Kind(g)' = Kind(g)
      BY <1>4, KindStays
    <3> QED BY <2>2, <3>1, <3>2, <1>5, WorkFile DEF library, objects
  <2> QED BY <2>1, <2>2
<1> QED BY <1>2, <1>3, <1>5, QuietBegin

LEMMA SizesFile ==
  ASSUME NEW p \in Rank
  PROVE  FileSteps(p, <<Sizes>>) /\ <<Sizes>> \in Seq(Steps)
<1>1. Len(<<Sizes>>) = 1 /\ <<Sizes>>[1][1] = "sizes" /\ <<Sizes>> \in Seq(Steps)
  BY StepsAre, OneStep
<1>2. \A i \in 1 .. 1 : i = 1
  OBVIOUS
<1> QED BY <1>1, <1>2 DEF FileSteps, FileNames

LEMMA UsesStep ==
  ASSUME IInv, NEW p \in Rank,
         UsePiol(p) \/ UseRule(p) \/ UseParam(p) \/ UseHeader(p) \/ UseTrace(p)
  PROVE  IInv'
<1>0. <<>> \in Seq(Steps) /\ <<Sizes>> \in Seq(Steps) /\ FileSteps(p, <<Sizes>>)
  BY NoSteps, SizesFile
<1>1. CASE UsePiol(p)
  <2>1. PICK h \in Some(p, {"ExSeis"}) : BeginCall(p, Call("use", Kind(h), h), <<Sizes>>)
    BY <1>1 DEF UsePiol, Use
  <2>2. UNCHANGED <<library, objects, ended>> /\ {"ExSeis"} \subseteq Files \cup {"ExSeis"}
    BY <1>1 DEF UsePiol, Use
  <2>5. Uses(p, "use", {"ExSeis"}, h, <<Sizes>>)
    BY <1>0, <2>1, <2>2 DEF Uses
  <2> QED BY <2>5, UseStep
<1>2. CASE UseRule(p)
  <2>1. PICK h \in Some(p, {"Rule"}) : BeginCall(p, Call("use", Kind(h), h), <<>>)
    BY <1>2 DEF UseRule, Use
  <2>2. UNCHANGED <<library, objects, ended>>
    BY <1>2 DEF UseRule, Use
  <2>5. Uses(p, "use", {"Rule"}, h, <<>>)
    BY <1>0, <2>1, <2>2 DEF Uses
  <2> QED BY <2>5, UseStep
<1>3. CASE UseParam(p)
  <2>1. PICK h \in Some(p, {"Param"}) : BeginCall(p, Call("use", Kind(h), h), <<>>)
    BY <1>3 DEF UseParam, Use
  <2>2. UNCHANGED <<library, objects, ended>>
    BY <1>3 DEF UseParam, Use
  <2>5. Uses(p, "use", {"Param"}, h, <<>>)
    BY <1>0, <2>1, <2>2 DEF Uses
  <2> QED BY <2>5, UseStep
<1>4. CASE UseHeader(p)
  <2>1. PICK h \in Some(p, Files) : BeginCall(p, Call("about", Kind(h), h), <<>>)
    BY <1>4 DEF UseHeader, Use
  <2>2. UNCHANGED <<library, objects, ended>>
    BY <1>4 DEF UseHeader, Use
  <2>5. Uses(p, "about", Files, h, <<>>)
    BY <1>0, <2>1, <2>2 DEF Uses
  <2> QED BY <2>5, UseStep
<1>5. CASE UseTrace(p)
  <2>1. PICK h \in Some(p, Files) : BeginCall(p, Call("use", Kind(h), h), Transfer(p, h))
    BY <1>5 DEF UseTrace, Use
  <2>2. UNCHANGED <<library, objects, ended>> /\ Files \subseteq Files \cup {"ExSeis"}
    BY <1>5 DEF UseTrace, Use
  <2>3. h \in alive[p] /\ h \in Nat /\ Kind(h) \in Files
    BY KindIs DEF IInv, Process, Objects, Some
  <2>4. FileSteps(p, Transfer(p, h)) /\ Transfer(p, h) \in Seq(Steps)
    BY <2>3, TransferIs DEF FileSteps
  <2>5. Uses(p, "use", Files, h, Transfer(p, h))
    BY <2>1, <2>2, <2>4 DEF Uses
  <2> QED BY <2>5, UseStep
<1> QED BY <1>1, <1>2, <1>3, <1>4, <1>5

LEMMA ManageStep ==
  ASSUME IInv, NEW p \in Rank, ManageMPI(p)
  PROVE  IInv'
<1>1. PICK m \in {"yes", "no"} :
        /\ m = "no" => mpi[p] = "on"
        /\ BeginCall(p, Call("manage", m, 0), <<>>)
        /\ managing' = [managing EXCEPT ![p] = m]
        /\ UNCHANGED <<manager, mpi, objects, ended>>
  BY DEF ManageMPI
<1> DEFINE c == Call("manage", m, 0)
<1>2. c \in ProgramCalls /\ c.op = "manage"
  BY KindNames DEF Call, ProgramCalls, CallNames
<1>3. BeginCall(p, c, <<>>) /\ <<>> \in Seq(Steps)
  BY <1>1, NoSteps
<1> HIDE DEF c
<1>4. Begins(p, c) /\ todo'[p] = <<>>
  BY <1>2, <1>3, BeginIs
<1>5. /\ managing' \in [Rank -> {"unset", "yes", "no"}] /\ managing'[p] = m
      /\ \A q \in Rank : q # p => managing'[q] = managing[q]
  BY <1>1 DEF IInv, Types
<1>6. Types'
  BY <1>1, <1>4, <1>5 DEF IInv, Types, Begins, Grows, objects
<1>7. \A q \in Rank : q # p => Same(q)
  BY <1>1, <1>4, <1>5 DEF Begins, Same, objects
<1>8. Work(p)'
  BY <1>4, WorkNone
<1> QED BY <1>1, <1>2, <1>4, <1>5, <1>6, <1>7, <1>8, BeginKeeps DEF objects

LEMMA IsErrStep ==
  ASSUME IInv, NEW p \in Rank, IsErr(p)
  PROVE  IInv'
<1>1. PICK h \in Some(p, {"ExSeis"}) : BeginCall(p, Call("isErr", "ExSeis", h), <<>>)
  BY DEF IsErr
<1>2. /\ \/ /\ unsaid' = [unsaid EXCEPT ![p] = 0]
            /\ ended' = [ended EXCEPT ![p] = "aborted"]
         \/ UNCHANGED <<unsaid, ended>>
      /\ UNCHANGED <<library, handles, alive, open, err>>
  BY DEF IsErr
<1> DEFINE c == Call("isErr", "ExSeis", h)
<1>3. c \in ProgramCalls /\ c.op = "isErr"
  <2>1. h \in Nat
    BY KindIs DEF IInv, Process, Objects, Some
  <2> QED BY <2>1, KindNames DEF Call, ProgramCalls, CallNames, ObjKinds
<1>4. BeginCall(p, c, <<>>) /\ <<>> \in Seq(Steps)
  BY <1>1, NoSteps
<1> HIDE DEF c
<1>5. Begins(p, c) /\ todo'[p] = <<>>
  BY <1>3, <1>4, BeginIs
<1>6. /\ unsaid' \in [Rank -> Nat]
      /\ ended' \in [Rank -> {"no", "returned", "aborted", "killed"}]
      /\ \A q \in Rank : q # p => unsaid'[q] = unsaid[q] /\ ended'[q] = ended[q]
      /\ \/ ended'[p] = ended[p] /\ unsaid'[p] = unsaid[p]
         \/ ended'[p] = "aborted" /\ unsaid'[p] = 0
  <2>1. /\ unsaid \in [Rank -> Nat]
        /\ ended \in [Rank -> {"no", "returned", "aborted", "killed"}]
    BY DEF IInv, Types
  <2>2. CASE /\ unsaid' = [unsaid EXCEPT ![p] = 0]
             /\ ended' = [ended EXCEPT ![p] = "aborted"]
    BY <2>1, <2>2
  <2>3. CASE UNCHANGED <<unsaid, ended>>
    BY <2>1, <2>3
  <2> QED BY <1>2, <2>2, <2>3
<1>7. Types'
  BY <1>2, <1>5, <1>6 DEF IInv, Types, Begins, Grows, library
<1>8. \A q \in Rank : q # p => Same(q)
  BY <1>2, <1>5, <1>6 DEF Begins, Same, library
<1>9. Work(p)'
  BY <1>5, WorkNone
<1>10. managing'[p] = "no" => mpi[p] # "not"
  BY <1>2 DEF library, IInv, Process, Library
<1> QED BY <1>2, <1>3, <1>5, <1>6, <1>7, <1>8, <1>9, <1>10, BeginKeeps DEF library

\* What a handle writes and closes when it is deleted is of a live file.
LEMMA LastSteps ==
  ASSUME IInv, NEW p \in Rank, NEW h \in handles[p]
  PROVE  /\ FileSteps(p, Last(p, h) \o Close(p, h))
         /\ Kind(h) \notin Files => Last(p, h) \o Close(p, h) = <<>>
<1>1. h \in alive[p] /\ h \in Nat /\ (h \in open[p] => Kind(h) \in Files)
  BY KindIs DEF IInv, Process, Objects
<1>2. CASE Kind(h) \in Files
  <2>1. FileSteps(p, Last(p, h))
    BY <1>1, <1>2, TransferIs, NoFileSteps DEF Last
  <2>2. FileSteps(p, Close(p, h))
    BY <1>1, <1>2, CloseIs, NoFileSteps DEF Close
  <2> QED BY <2>1, <2>2, <1>2, JoinedFile
<1>3. CASE Kind(h) \notin Files
  <2>1. Last(p, h) = <<>> /\ Close(p, h) = <<>>
    BY <1>1, <1>3 DEF Last, Close, Files
  <2>2. <<>> \o <<>> = <<>>
    OBVIOUS
  <2> QED BY <2>1, <2>2, NoFileSteps
<1> QED BY <1>2, <1>3

LEMMA DeleteStep ==
  ASSUME IInv, NEW p \in Rank, Delete(p)
  PROVE  IInv'
<1>1. PICK h \in handles[p] :
        /\ BeginCall(p, Call("delete", Kind(h), h), Last(p, h) \o Close(p, h) \o <<<<"free", h>>>>)
        /\ handles' = [handles EXCEPT ![p] = @ \ {h}]
        /\ UNCHANGED <<library, alive, open, err, unsaid, ended>>
  BY DEF Delete
<1> DEFINE c == Call("delete", Kind(h), h)
           w == Last(p, h) \o Close(p, h)
           x == <<"free", h>>
<1>2. h \in alive[p] /\ h \in Nat /\ Kind(h) \in CallKinds
  BY KindIs DEF IInv, Process, Objects
<1>3. c \in ProgramCalls /\ c.op = "delete"
  BY <1>2 DEF Call, ProgramCalls, CallNames
<1>4. FileSteps(p, w) /\ w \in Seq(Steps) /\ (Kind(h) \notin Files => w = <<>>)
  BY LastSteps DEF FileSteps
<1>5. x \in Steps /\ x[1] = "free"
  BY <1>2, StepsAre
<1> HIDE DEF c, w, x
<1>6. <<x>> \in Seq(Steps) /\ Len(<<x>>) = 1 /\ <<x>>[1] = x
  BY <1>5, OneStep
<1>7. BeginCall(p, c, w \o <<x>>)
  BY <1>1 DEF c, w, x
<1>8. /\ w \o <<x>> \in Seq(Steps) /\ Len(w \o <<x>>) = Len(w) + 1 /\ Len(w) \in Nat
      /\ \A i \in 1 .. Len(w) + 1 :
           \/ i \in 1 .. Len(w) /\ (w \o <<x>>)[i] = w[i]
           \/ i = Len(w) + 1 /\ (w \o <<x>>)[i] = x
  <2>1. /\ w \o <<x>> \in Seq(Steps) /\ Len(w \o <<x>>) = Len(w) + Len(<<x>>)
        /\ \A i \in 1 .. Len(w) + Len(<<x>>) :
             \/ i \in 1 .. Len(w) /\ (w \o <<x>>)[i] = w[i]
             \/ i - Len(w) \in 1 .. Len(<<x>>) /\ (w \o <<x>>)[i] = <<x>>[i - Len(w)]
    BY <1>4, <1>6, Joined
  <2>2. Len(w) \in Nat
    BY <1>4
  <2>3. ASSUME NEW i \in 1 .. Len(w) + 1, i - Len(w) \in 1 .. 1
        PROVE  i - Len(w) = 1 /\ i = Len(w) + 1
    BY <2>2, <2>3
  <2>4. ASSUME NEW i \in 1 .. Len(w) + 1, i \notin 1 .. Len(w)
        PROVE  i = Len(w) + 1 /\ (w \o <<x>>)[i] = x
    <3>1. i - Len(w) \in 1 .. 1 /\ (w \o <<x>>)[i] = <<x>>[i - Len(w)]
      BY <2>1, <2>4, <1>6
    <3> QED BY <3>1, <2>3, <1>6
  <2>5. ASSUME NEW i \in 1 .. Len(w) + 1, i \in 1 .. Len(w)
        PROVE  (w \o <<x>>)[i] = w[i]
    BY <2>1, <2>2, <2>5, <1>6
  <2> QED BY <2>1, <2>2, <2>4, <2>5, <1>6
<1>9. Begins(p, c) /\ todo'[p] = w \o <<x>>
  BY <1>3, <1>7, <1>8, BeginIs
<1>10. /\ handles' \in [Rank -> SUBSET Nat] /\ handles'[p] \subseteq handles[p]
       /\ \A q \in Rank : q # p => handles'[q] = handles[q]
  BY <1>1 DEF IInv, Types
<1>11. Types'
  BY <1>1, <1>9, <1>10 DEF IInv, Types, Begins, Grows, library
<1>12. \A q \in Rank : q # p => Same(q)
  BY <1>1, <1>9, <1>10 DEF Begins, Same, library
<1>13. Has(todo'[p], "free")
  <2>1. Len(w) + 1 \in 1 .. Len(w) + 1 /\ Len(w) + 1 \notin 1 .. Len(w)
    BY <1>8
  <2>2. (w \o <<x>>)[Len(w) + 1] = x
    BY <1>8, <2>1
  <2>3. Len(w) + 1 \in 1 .. Len(todo'[p]) /\ todo'[p][Len(w) + 1][1] = "free"
    BY <2>1, <2>2, <1>5, <1>8, <1>9
  <2> QED BY <2>3 DEF Has
<1>14. mpi'[p] = mpi[p] /\ alive'[p] = alive[p] /\ \A g \in alive[p] : Kind(g)' = Kind(g)
  BY <1>1, <1>9, KindStays DEF library
<1>15. w # <<>> => mpi[p] = "on"
  <2>1. Kind(h) \in Files => Needy(p)
    BY <1>2 DEF Needy
  <2> QED BY <2>1, <1>4, <1>9, IdleOn
<1>16. ASSUME NEW i \in 1 .. Len(todo'[p])
       PROVE  /\ todo'[p][i][1] \in PlainNames
              /\ todo'[p][i][1] = "free" => i = Len(todo'[p])
              /\ todo'[p][i][1] # "free" => mpi'[p] = "on"
              /\ todo'[p][i][1] \in {"open", "head", "io", "close"} =>
                   todo'[p][i][2] \in alive'[p] /\ script'[todo'[p][i][2]].kind \in Files
  <2>1. CASE i \in 1 .. Len(w)
    <3>1. w # <<>> /\ todo'[p][i] = w[i]
      <4>1. i \in 1 .. Len(w) + 1 /\ i # Len(w) + 1
        BY <2>1, <1>8
      <4>2. (w \o <<x>>)[i] = w[i]
        BY <4>1, <1>8
      <4>3. w # <<>>
        BY <2>1
      <4> QED BY <4>2, <4>3, <1>9
    <3>2. /\ w[i][1] \in FileNames
          /\ w[i][1] # "sizes" => w[i][2] \in alive[p] /\ Kind(w[i][2]) \in Files
      BY <2>1, <1>4 DEF FileSteps
    <3>3. w[i][1] # "sizes" => script'[w[i][2]].kind \in Files
      BY <3>2, <1>14 DEF Kind
    <3> QED BY <3>1, <3>2, <3>3, <1>14, <1>15 DEF FileNames, PlainNames
  <2>2. CASE i = Len(w) + 1 /\ todo'[p][i] = x
    BY <2>2, <1>5, <1>8, <1>9 DEF PlainNames
  <2> QED BY <2>1, <2>2, <1>8, <1>9
<1>17. Work(p)'
  BY <1>16, WorkPlain
<1>18. managing'[p] = "no" => mpi[p] # "not"
  BY <1>1 DEF library, IInv, Process, Library
<1> QED BY <1>1, <1>3, <1>9, <1>10, <1>11, <1>12, <1>13, <1>17, <1>18, BeginKeeps DEF library

LEMMA Pair ==
  ASSUME NEW x \in Steps, NEW y \in Steps
  PROVE  <<x>> \o <<y>> = <<x, y>> /\ <<>> \o <<y>> = <<y>>
<1>1. /\ <<x>> \in Seq(Steps) /\ <<y>> \in Seq(Steps) /\ <<x, y>> \in Seq(Steps)
      /\ Len(<<x>>) = 1 /\ Len(<<y>>) = 1 /\ Len(<<x, y>>) = 2
      /\ <<x>>[1] = x /\ <<y>>[1] = y /\ <<x, y>>[1] = x /\ <<x, y>>[2] = y
  OBVIOUS
<1>2. /\ <<x>> \o <<y>> \in Seq(Steps) /\ Len(<<x>> \o <<y>>) = 2
      /\ (<<x>> \o <<y>>)[1] = x /\ (<<x>> \o <<y>>)[2] = y
  BY <1>1
<1>3. \A i \in 1 .. 2 : (<<x>> \o <<y>>)[i] = <<x, y>>[i]
  <2>1. \A i \in 1 .. 2 : i = 1 \/ i = 2
    OBVIOUS
  <2> QED BY <1>1, <1>2, <2>1
<1>4. <<x>> \o <<y>> = <<x, y>>
  BY <1>1, <1>2, <1>3, SeqEqual
<1> QED BY <1>1, <1>4, ConcatEmptySeq

LEMMA ReturnStep ==
  ASSUME IInv, NEW p \in Rank, Return(p)
  PROVE  IInv'
<1> DEFINE c == Call("return", "", 0)
           s == (IF Stops(p) THEN <<Fin>> ELSE <<>>) \o <<End>>
<1>1. /\ mpi[p] = "on" => managing[p] = "yes"
      /\ BeginCall(p, c, s)
      /\ UNCHANGED <<library, objects, ended>>
  BY DEF Return, Fin, End
<1>2. c \in ProgramCalls /\ c.op = "return"
  BY KindNames DEF Call, ProgramCalls, CallNames
<1>3. Fin \in Steps /\ End \in Steps /\ End[1] = "end"
  BY StepsAre
<1>4. s = IF Stops(p) THEN <<Fin, End>> ELSE <<End>>
  <2>1. <<Fin>> \o <<End>> = <<Fin, End>> /\ <<>> \o <<End>> = <<End>>
    BY <1>3, OneStep, Pair
  <2> QED BY <2>1
<1> HIDE DEF c, s
<1>5. s \in Seq(Steps) /\ Has(s, "end")
  <2>1. CASE Stops(p)
    BY <2>1, <1>3, <1>4, TwoSteps
  <2>2. CASE ~Stops(p)
    BY <2>2, <1>3, <1>4, OneStep
  <2> QED BY <2>1, <2>2
<1>6. Begins(p, c)
  BY <1>1, <1>2, <1>5, BeginIs
<1>7. Returns(p)'
  <2>1. /\ at'[p] \in 1 .. Len(script') /\ at'[p] # 0 /\ script'[at'[p]].op = "return"
        /\ ReturnIsLast'
    <3>1. at[p] \in Nat /\ at'[p] = at[p] + 1 /\ at'[p] <= Len(script') /\ Len(script') \in Nat
      BY <1>6 DEF IInv, Types, Begins, Grows
    <3> QED BY <3>1, <1>2, <1>6 DEF Begins
  <2>2. at'[p] = Len(script')
    BY <2>1 DEF ReturnIsLast, Op
  <2> QED BY <2>1, <2>2 DEF Returns, Op
<1>8. ASSUME todo'[p] = s
      PROVE  Work(p)'
  <2>0. \A name : ~Pending(p, name)
    BY <1>6, WasIdle
  <2>1. Library(p) /\ mpi'[p] = mpi[p] /\ ended[p] = "no"
    BY <1>1, <1>6 DEF IInv, Process, library, Begins
  <2>2. CASE Stops(p)
    <3>1. mpi[p] = "on"
      BY <2>0, <2>1, <2>2 DEF Stops, Library, IInv, Types
    <3> QED BY <3>1, <2>1, <2>2, <1>4, <1>7, <1>8, WorkFinEnd
  <2>3. CASE ~Stops(p)
    <3>1. mpi[p] = "on" => manager[p] = "none"
      BY <2>1, <2>3, <1>1 DEF Stops, Library, IInv, Types
    <3>2. mpi[p] = "on" => NoPiolYet(p)'
      BY <3>1, <2>1, <1>2, <1>6, NoPiolAfter DEF Library
    <3> QED BY <3>2, <2>1, <2>3, <1>4, <1>7, <1>8, WorkEnd
  <2> QED BY <2>2, <2>3
<1> QED BY <1>1, <1>2, <1>5, <1>8, QuietBegin

\* A new handle and its object, of whatever kind.
Adds(p, c) ==
  /\ Begins(p, c) /\ Types' /\ \A q \in Rank : q # p => Same(q)
  /\ handles'[p] = handles[p] \cup {at'[p]} /\ alive'[p] = alive[p] \cup {at'[p]}
  /\ open'[p] = open[p] /\ unsaid'[p] = unsaid[p] /\ ended'[p] = ended[p] /\ mpi'[p] = mpi[p]
  /\ managing'[p] = "no" => mpi[p] # "not"
  /\ c.op = "new" /\ (c.of # 0 => c.of \in alive[p] /\ Kind(c.of) \in {"ExSeis", "Rule"})
  /\ c.kind \in Files => c.of # 0 /\ Kind(c.of) = "ExSeis"
  /\ c.kind = "ExSeis" => manager'[p] = "made" /\ (mpi[p] = "on" \/ Has(todo'[p], "init"))
  /\ c.kind # "ExSeis" => manager'[p] = manager[p]

\* The objects that were there and the new one, in the terms of the new script.
LEMMA AddedCalls ==
  ASSUME IInv, NEW p \in Rank, NEW c, Adds(p, c)
  PROVE  /\ \A h \in alive[p] : /\ Kind(h)' = Kind(h) /\ Of(h)' = Of(h) /\ h \in 1 .. at[p]
                                /\ script'[h].kind = Kind(h) /\ script'[h].of = Of(h)
         /\ script'[at'[p]].kind = c.kind /\ script'[at'[p]].of = c.of
         /\ script'[at'[p]].op = c.op
         /\ at[p] \in Nat /\ at'[p] = at[p] + 1 /\ 1 .. at[p] \subseteq 1 .. at'[p]
         /\ 0 .. at[p] \subseteq 0 .. at'[p] /\ at'[p] \in 1 .. at'[p]
<1>1. Begins(p, c) /\ alive[p] \subseteq 1 .. at[p]
  BY DEF Adds, IInv, Process, Objects
<1>2. /\ \A n \in 1 .. at[p] : Kind(n)' = Kind(n) /\ Of(n)' = Of(n)
      /\ at[p] \in Nat /\ at'[p] = at[p] + 1
  BY <1>1, CallsAfter
<1>3. script'[at'[p]] = c
  BY <1>1 DEF Begins
<1>4. \A h \in alive[p] : script'[h].kind = Kind(h)' /\ script'[h].of = Of(h)'
  BY DEF Kind, Of
<1>5. /\ 1 .. at[p] \subseteq 1 .. at'[p] /\ 0 .. at[p] \subseteq 0 .. at'[p]
      /\ at'[p] \in 1 .. at'[p]
  BY <1>2
<1> QED BY <1>1, <1>2, <1>3, <1>4, <1>5

LEMMA ObjectsAdded ==
  ASSUME IInv, NEW p \in Rank, NEW c, Adds(p, c)
  PROVE  Objects(p)'
<1>1. /\ \A h \in alive[p] : /\ Kind(h)' = Kind(h) /\ Of(h)' = Of(h) /\ h \in 1 .. at[p]
                             /\ script'[h].kind = Kind(h) /\ script'[h].of = Of(h)
      /\ script'[at'[p]].kind = c.kind /\ script'[at'[p]].of = c.of
      /\ 1 .. at[p] \subseteq 1 .. at'[p]
      /\ 0 .. at[p] \subseteq 0 .. at'[p] /\ at'[p] \in 1 .. at'[p]
  BY AddedCalls
<1>2. /\ handles'[p] = handles[p] \cup {at'[p]} /\ alive'[p] = alive[p] \cup {at'[p]}
      /\ open'[p] = open[p] /\ Begins(p, c) /\ Objects(p)
  BY DEF Adds, IInv, Process
<1>3. at'[p] <= Len(script') /\ ~Pending(p, "free")
  BY <1>2, WasIdle DEF Begins
<1>4. /\ handles'[p] \subseteq alive'[p] /\ alive'[p] \subseteq 1 .. at'[p]
      /\ open'[p] \subseteq 1 .. at'[p]
  BY <1>1, <1>2 DEF Objects
<1>5. ASSUME NEW h \in alive'[p]
      PROVE  /\ script'[h].of \in 0 .. at'[p]
             /\ script'[h].of # 0 => script'[script'[h].of].kind \in {"ExSeis", "Rule"}
             /\ script'[h].kind \in Files =>
                  /\ script'[h].of # 0 /\ script'[h].of \in alive'[p]
                  /\ script'[script'[h].of].kind = "ExSeis"
  <2>1. CASE h \in alive[p]
    <3>1. /\ Of(h) \in 0 .. at[p]
          /\ Of(h) # 0 => Kind(Of(h)) \in {"ExSeis", "Rule"}
          /\ Kind(h) \in Files => Of(h) # 0 /\ Of(h) \in alive[p] /\ Kind(Of(h)) = "ExSeis"
      BY <2>1, <1>2 DEF Objects
    <3>2. Of(h) # 0 => script'[Of(h)].kind = Kind(Of(h))
      <4>1. Of(h) # 0 => Of(h) \in 1 .. at[p]
        BY <3>1, AddedCalls
      <4>2. \A n \in 1 .. at[p] : Kind(n)' = Kind(n)
        BY <1>2, CallsAfter
      <4>3. Of(h) # 0 => script[Of(h)].kind = script'[Of(h)].kind
        BY <4>1, <4>2 DEF Kind
      <4> QED BY <4>3 DEF Kind
    <3> QED BY <3>1, <3>2, <2>1, <1>1, <1>2
  <2>2. CASE h = at'[p]
    <3>1. /\ c.of # 0 => c.of \in alive[p] /\ Kind(c.of) \in {"ExSeis", "Rule"}
          /\ c.kind \in Files => c.of # 0 /\ Kind(c.of) = "ExSeis"
      BY DEF Adds
    <3>2. c.of # 0 => c.of \in 0 .. at'[p] /\ script'[c.of].kind = Kind(c.of)
      <4>1. c.of # 0 => c.of \in 1 .. at[p] /\ script'[c.of].kind = Kind(c.of)
        BY <3>1, <1>1
      <4>2. at[p] \in Nat /\ at'[p] = at[p] + 1
        BY AddedCalls
      <4> QED BY <4>1, <4>2
    <3>3. 0 \in 0 .. at'[p]
      BY <1>1
    <3> QED BY <3>1, <3>2, <3>3, <2>2, <1>1, <1>2
  <2> QED BY <2>1, <2>2, <1>2
<1>6. \A h \in open'[p] : script'[h].kind \in Files
  <2>1. \A h \in open[p] : Kind(h) \in Files /\ h \in 1 .. at[p]
    BY <1>2 DEF Objects
  <2>2. \A n \in 1 .. at[p] : Kind(n)' = Kind(n)
    BY <1>2, CallsAfter
  <2> QED BY <2>1, <2>2, <1>2 DEF Kind
<1>7. alive'[p] \subseteq Reach(handles[p])'
  <2>1. alive[p] \subseteq Reach(handles[p])
    BY <1>2, <1>3 DEF Objects
  <2>2. \A h \in handles[p] : Of(h)' = Of(h)
    BY <1>1, <1>2 DEF Objects
  <2>3. Reach(handles[p]) \subseteq Reach(handles[p])'
    BY <2>2, <1>2 DEF Reach
  <2>4. at'[p] \in Reach(handles[p])'
    BY <1>2 DEF Reach
  <2> QED BY <2>1, <2>3, <2>4, <1>2
<1> QED BY <1>3, <1>4, <1>5, <1>6, <1>7 DEF Objects, Kind, Of

LEMMA BeginAdds ==
  ASSUME IInv, NEW p \in Rank, NEW c, Adds(p, c), Work(p)'
  PROVE  IInv'
<1>1. /\ Begins(p, c) /\ Types' /\ (\A q \in Rank : q # p => Same(q)) /\ Grows /\ ReturnIsLast'
      /\ Library(p) /\ Ends(p) /\ ended[p] = "no"
  BY DEF Adds, IInv, Process, Begins
<1>2. \A name : ~Pending(p, name)
  BY <1>1, WasIdle
<1>3. Objects(p)'
  BY ObjectsAdded
<1>4. /\ \A h \in alive[p] : Kind(h)' = Kind(h) /\ script'[h].kind = Kind(h)
      /\ script'[at'[p]].kind = c.kind /\ script'[at'[p]].op = c.op
  BY AddedCalls
<1>5. Needy(p)' => mpi[p] = "on" \/ Has(todo'[p], "init")
  <2>1. ASSUME NEW h \in alive'[p], script'[h].kind \in Files \cup {"ExSeis"}
        PROVE  mpi[p] = "on" \/ Has(todo'[p], "init")
    <3>1. CASE h \in alive[p]
      <4>1. Needy(p)
        BY <3>1, <2>1, <1>4 DEF Needy
      <4> QED BY <4>1, <1>1, IdleOn
    <3>2. CASE h = at'[p] /\ c.kind \in Files
      <4>1. c.of \in alive[p] /\ Kind(c.of) = "ExSeis"
        BY <3>2 DEF Adds
      <4>2. Needy(p)
        BY <4>1 DEF Needy
      <4> QED BY <4>2, <1>1, IdleOn
    <3>3. CASE h = at'[p] /\ c.kind = "ExSeis"
      BY <3>3 DEF Adds
    <3> QED BY <3>1, <3>2, <3>3, <2>1, <1>4 DEF Adds
  <2> QED BY <2>1 DEF Needy, Kind
<1>6. c.kind # "ExSeis" /\ NoPiolYet(p) => NoPiolYet(p)'
  BY <1>1, NoPiolAfter
<1>7. Library(p)'
  <2>1. manager'[p] = "made" => mpi'[p] # "not" \/ Has(todo'[p], "init")
    <3>1. manager[p] = "made" => mpi[p] # "not"
      BY <1>1, <1>2 DEF Library
    <3> QED BY <3>1 DEF Adds
  <2>2. manager'[p] = "none" => NoPiolYet(p)'
    BY <1>1, <1>6 DEF Library, Adds
  <2>3. manager'[p] # "gone"
    BY <1>1 DEF Library, Adds
  <2>4. managing'[p] = "no" => mpi'[p] # "not"
    BY DEF Adds
  <2>5. mpi'[p] = mpi[p]
    BY DEF Adds
  <2> QED BY <2>1, <2>2, <2>3, <2>4, <2>5, <1>5 DEF Library, Pending
<1>8. Ends(p)'
  <2>1. script'[at'[p]].op # "return"
    BY <1>4 DEF Adds
  <2>2. Piol(p) \subseteq Piol(p)'
    BY <1>4 DEF Piol, Adds, Kind
  <2>3. ended'[p] = "no" /\ unsaid'[p] = unsaid[p]
    BY <1>1 DEF Adds
  <2> QED BY <2>1, <2>2, <2>3, <1>1 DEF Ends, Op
<1> QED BY <1>1, <1>3, <1>7, <1>8, Assembled DEF Process

\* What Add does, in the terms of each process.
LEMMA AddIs ==
  ASSUME IInv, NEW p \in Rank, NEW c, Begins(p, c), Add(p), mpi' = mpi,
         managing' \in [Rank -> {"unset", "yes", "no"}], manager' \in [Rank -> {"none", "made", "gone"}],
         \A q \in Rank : q # p => managing'[q] = managing[q] /\ manager'[q] = manager[q]
  PROVE  /\ Types' /\ \A q \in Rank : q # p => Same(q)
         /\ handles'[p] = handles[p] \cup {at'[p]} /\ alive'[p] = alive[p] \cup {at'[p]}
         /\ open'[p] = open[p] /\ unsaid'[p] = unsaid[p] /\ ended'[p] = ended[p]
         /\ mpi'[p] = mpi[p]
<1>1. /\ handles' = [handles EXCEPT ![p] = handles[p] \cup {at'[p]}]
      /\ alive' = [alive EXCEPT ![p] = alive[p] \cup {at'[p]}]
      /\ UNCHANGED <<open, err, unsaid, ended>>
  BY DEF Add
<1>2. /\ handles \in [Rank -> SUBSET Nat] /\ alive \in [Rank -> SUBSET Nat]
      /\ at'[p] \in Nat
  BY DEF IInv, Types, Begins
<1>3. /\ handles' \in [Rank -> SUBSET Nat] /\ handles'[p] = handles[p] \cup {at'[p]}
      /\ \A q \in Rank : q # p => handles'[q] = handles[q]
  BY <1>1, <1>2
<1>4. /\ alive' \in [Rank -> SUBSET Nat] /\ alive'[p] = alive[p] \cup {at'[p]}
      /\ \A q \in Rank : q # p => alive'[q] = alive[q]
  BY <1>1, <1>2
<1>5. Types'
  BY <1>1, <1>3, <1>4 DEF IInv, Types, Begins, Grows
<1>6. \A q \in Rank : q # p => Same(q)
  BY <1>1, <1>3, <1>4 DEF Begins, Same
<1> QED BY <1>1, <1>3, <1>4, <1>5, <1>6

LEMMA ExSeisNewStep ==
  ASSUME IInv, NEW p \in Rank, ExSeisNew(p)
  PROVE  IInv'
<1> DEFINE c == Call("new", "ExSeis", 0)
           s == IF Starts(p) THEN <<Inits>> ELSE <<>>
<1>1. /\ mpi[p] # "off" /\ BeginCall(p, c, s) /\ mpi' = mpi /\ Add(p)
      /\ manager' = [manager EXCEPT ![p] = "made"]
      /\ managing' = [managing EXCEPT ![p] = ManagingAfter(p)]
  BY DEF ExSeisNew, Inits
<1>2. c \in ProgramCalls /\ c.op = "new" /\ c.kind = "ExSeis" /\ c.of = 0
  BY KindNames DEF Call, ProgramCalls, CallNames, ObjKinds
<1>3. s \in Seq(Steps) /\ (Starts(p) => s = <<Inits>> /\ Has(s, "init")) /\ (~Starts(p) => s = <<>>)
  BY NoSteps, OneStep, StepsAre
<1> HIDE DEF c, s
<1>4. Begins(p, c) /\ todo'[p] = s
  BY <1>1, <1>2, <1>3, BeginIs
<1>5. Library(p) /\ ended[p] = "no" /\ \A name : ~Pending(p, name)
  BY <1>4, WasIdle DEF IInv, Process, Begins
<1>6. ManagingAfter(p) \in {"unset", "yes", "no"} /\ (ManagingAfter(p) = "no" => mpi[p] # "not")
  BY <1>5 DEF ManagingAfter, Library, IInv, Types
<1>7. /\ managing' \in [Rank -> {"unset", "yes", "no"}] /\ managing'[p] = ManagingAfter(p)
      /\ manager' \in [Rank -> {"none", "made", "gone"}] /\ manager'[p] = "made"
      /\ \A q \in Rank : q # p => managing'[q] = managing[q] /\ manager'[q] = manager[q]
  BY <1>1, <1>6 DEF IInv, Types
<1>8. ~Starts(p) => mpi[p] = "on"
  BY <1>1, <1>5 DEF Starts, Library, IInv, Types
<1>9. Adds(p, c)
  <2>1. /\ Types' /\ \A q \in Rank : q # p => Same(q)
        /\ handles'[p] = handles[p] \cup {at'[p]} /\ alive'[p] = alive[p] \cup {at'[p]}
        /\ open'[p] = open[p] /\ unsaid'[p] = unsaid[p] /\ ended'[p] = ended[p]
        /\ mpi'[p] = mpi[p]
    BY <1>1, <1>4, <1>7, AddIs
  <2> QED BY <2>1, <1>2, <1>3, <1>4, <1>6, <1>7, <1>8 DEF Adds, Files
<1>10. Work(p)'
  <2>1. CASE Starts(p)
    BY <2>1, <1>1, <1>3, <1>4, WorkInit DEF Starts
  <2>2. CASE ~Starts(p)
    BY <2>2, <1>3, <1>4, WorkNone
  <2> QED BY <2>1, <2>2
<1> QED BY <1>9, <1>10, BeginAdds

LEMMA FileNewStep ==
  ASSUME IInv, NEW p \in Rank, FileNew(p)
  PROVE  IInv'
<1>1. PICK k \in Kinds \cap Files, x \in Some(p, {"ExSeis"}) :
        /\ BeginCall(p, Call("new", k, x),
                 <<<<"open", at[p] + 1>>>>
                   \o IF k = "WriteDirect" THEN <<>> ELSE <<<<"head", at[p] + 1>>>>)
        /\ UNCHANGED library
        /\ Add(p)
  BY DEF FileNew
<1> DEFINE c == Call("new", k, x)
           n == at[p] + 1
           a == <<"open", n>>
           b == <<"head", n>>
           s == <<a>> \o IF k = "WriteDirect" THEN <<>> ELSE <<b>>
<1>2. BeginCall(p, c, s)
  BY <1>1
<1>3. x \in alive[p] /\ x \in Nat /\ Kind(x) = "ExSeis" /\ x # 0 /\ n \in Nat
  BY KindIs DEF IInv, Process, Objects, Types, Some
<1>4. c \in ProgramCalls /\ c.op = "new" /\ c.kind = k /\ c.of = x /\ k \in Files /\ k # "ExSeis"
  BY <1>3, KindNames DEF Call, ProgramCalls, CallNames, ObjKinds, Files
<1>5. /\ a \in Steps /\ b \in Steps /\ a[1] = "open" /\ b[1] = "head" /\ a[2] = n /\ b[2] = n
  BY <1>3, StepsAre
<1> HIDE DEF c, a, b
<1>6. s = <<a>> \/ s = <<a, b>>
  <2>1. <<a>> \o <<b>> = <<a, b>>
    BY <1>5, Pair
  <2>2. <<a>> \o <<>> = <<a>>
    BY <1>5, OneStep, ConcatEmptySeq
  <2> QED BY <2>1, <2>2
<1> HIDE DEF s, n
<1>7. /\ s \in Seq(Steps)
      /\ \A i \in 1 .. Len(s) : s[i] = a \/ s[i] = b
  <2>1. CASE s = <<a>>
    <3>1. \A i \in 1 .. 1 : i = 1
      OBVIOUS
    <3> QED BY <2>1, <3>1, <1>5, OneStep
  <2>2. CASE s = <<a, b>>
    <3>1. \A i \in 1 .. 2 : i = 1 \/ i = 2
      OBVIOUS
    <3> QED BY <2>2, <3>1, <1>5, TwoSteps
  <2> QED BY <2>1, <2>2, <1>6
<1>8. Begins(p, c) /\ todo'[p] = s
  BY <1>2, <1>4, <1>7, BeginIs
<1>9. mpi[p] = "on"
  <2>1. Needy(p)
    BY <1>3 DEF Needy
  <2> QED BY <2>1, <1>8, IdleOn
<1>10. ~Has(s, "init") /\ at'[p] = n /\ script'[n] = c
  <2>1. at'[p] = n
    BY <1>8 DEF Begins, n
  <2> QED BY <2>1, <1>5, <1>7, <1>8 DEF Has, Begins
<1>11. Adds(p, c)
  <2>1. /\ managing' = managing /\ manager' = manager /\ mpi' = mpi
    BY <1>1 DEF library
  <2>2. /\ Types' /\ \A q \in Rank : q # p => Same(q)
        /\ handles'[p] = handles[p] \cup {at'[p]} /\ alive'[p] = alive[p] \cup {at'[p]}
        /\ open'[p] = open[p] /\ unsaid'[p] = unsaid[p] /\ ended'[p] = ended[p]
        /\ mpi'[p] = mpi[p]
    BY <2>1, <1>1, <1>8, AddIs DEF IInv, Types
  <2> QED BY <2>1, <2>2, <1>3, <1>4, <1>8, <1>9 DEF Adds
<1>12. Work(p)'
  <2>1. n \in alive'[p] /\ script'[n].kind \in Files /\ mpi'[p] = "on"
    BY <1>9, <1>10, <1>11, <1>4 DEF Adds
  <2>2. ASSUME NEW i \in 1 .. Len(todo'[p])
        PROVE  /\ todo'[p][i][1] \in {"open", "head"} /\ todo'[p][i][2] = n
    BY <1>5, <1>7, <1>8
  <2> QED BY <2>1, <2>2, WorkPlain DEF PlainNames
<1> QED BY <1>11, <1>12, BeginAdds

\* Rules and parameters need no MPI.
LEMMA PlainNewStep ==
  ASSUME IInv, NEW p \in Rank, NEW k \in {"Rule", "Param"}, NEW r \in {0} \cup Some(p, {"Rule"}),
         BeginCall(p, Call("new", k, r), <<>>), UNCHANGED library, Add(p)
  PROVE  IInv'
<1> DEFINE c == Call("new", k, r)
<1>1. r # 0 => r \in alive[p] /\ r \in Nat /\ Kind(r) = "Rule"
  BY KindIs DEF IInv, Process, Objects, Some
<1>2. /\ c \in ProgramCalls /\ c.op = "new" /\ c.kind = k /\ c.of = r
      /\ k \notin Files /\ k # "ExSeis"
  <2>1. k \in CallKinds /\ k \notin Files /\ k # "ExSeis"
    BY KindNames DEF ObjKinds, Files
  <2>2. r \in Nat /\ "new" \in CallNames
    BY <1>1 DEF CallNames
  <2> QED BY <2>1, <2>2 DEF Call, ProgramCalls
<1>3. BeginCall(p, c, <<>>)
  OBVIOUS
<1> HIDE DEF c
<1>4. Begins(p, c) /\ todo'[p] = <<>>
  BY <1>2, <1>3, BeginIs, NoSteps
<1>5. /\ managing' = managing /\ manager' = manager /\ mpi' = mpi
  BY DEF library
<1>6. /\ Types' /\ \A q \in Rank : q # p => Same(q)
      /\ handles'[p] = handles[p] \cup {at'[p]} /\ alive'[p] = alive[p] \cup {at'[p]}
      /\ open'[p] = open[p] /\ unsaid'[p] = unsaid[p] /\ ended'[p] = ended[p]
      /\ mpi'[p] = mpi[p]
  BY <1>4, <1>5, AddIs DEF IInv, Types
<1>7. managing'[p] = "no" => mpi[p] # "not"
  BY <1>5 DEF IInv, Process, Library
<1>8. Adds(p, c)
  BY <1>1, <1>2, <1>4, <1>5, <1>6, <1>7 DEF Adds
<1>9. Work(p)'
  BY <1>4, WorkNone
<1> QED BY <1>8, <1>9, BeginAdds

LEMMA NewStep ==
  ASSUME IInv, NEW p \in Rank, RuleNew(p) \/ ParamNew(p)
  PROVE  IInv'
<1>1. CASE RuleNew(p)
  BY <1>1, PlainNewStep DEF RuleNew
<1>2. CASE ParamNew(p)
  BY <1>2, PlainNewStep DEF ParamNew
<1> QED BY <1>1, <1>2
-----------------------------------------------------------------------------
(***************************************************************************)
(* A process makes the step at the head of its list.                       *)
(***************************************************************************)
OwnKept(p) == /\ script' = script /\ at'[p] = at[p] /\ managing'[p] = managing[p]
              /\ handles'[p] = handles[p]

\* With the script, what is known of calls and objects stays.
LEMMA SameCalls ==
  ASSUME script' = script
  PROVE  /\ \A n : Kind(n)' = Kind(n) /\ Of(n)' = Of(n) /\ Op(n)' = Op(n)
         /\ \A n : script'[n].kind = Kind(n) /\ script'[n].of = Of(n) /\ script'[n].op = Op(n)
BY DEF Kind, Of, Op

\* A list begun by a plain step is plain.
LEMMA PlainList ==
  ASSUME IInv, NEW p \in Rank, todo[p] # <<>>, todo[p][1][1] \in PlainNames
  PROVE  /\ ~Pending(p, "init") /\ ~Pending(p, "finalize") /\ ~Pending(p, "end")
         /\ \A i \in 1 .. Len(todo[p]) :
              /\ todo[p][i][1] \in PlainNames
              /\ todo[p][i][1] = "free" => i = Len(todo[p])
              /\ todo[p][i][1] # "free" => mpi[p] = "on"
              /\ todo[p][i][1] \in {"open", "head", "io", "close"} =>
                   todo[p][i][2] \in alive[p] /\ Kind(todo[p][i][2]) \in Files
<1>1. Work(p) /\ todo[p] \in Seq(Steps)
  BY DEF IInv, Process, Types
<1>2. todo[p] # <<Inits>> /\ todo[p] # <<Fin>> /\ todo[p] # <<End>> /\ todo[p] # <<Fin, End>>
  BY DEF Inits, Fin, End, PlainNames
<1>3. ~Pending(p, "init") /\ ~Pending(p, "finalize") /\ ~Pending(p, "end")
  BY <1>1, <1>2 DEF Work
<1>4. ASSUME NEW i \in 1 .. Len(todo[p])
      PROVE  todo[p][i][1] \in PlainNames
  <2>1. todo[p][i][1] \in StepNames
    <3>1. todo[p][i] \in Steps
      BY <1>1
    <3> QED BY <3>1 DEF Steps
  <2>2. /\ todo[p][i][1] # "init" /\ todo[p][i][1] # "finalize" /\ todo[p][i][1] # "end"
    BY <1>3 DEF Pending, Has
  <2> QED BY <2>1, <2>2 DEF StepNames, PlainNames
<1> QED BY <1>1, <1>3, <1>4 DEF Work, PlainNames

\* What is left of it, and what takes the place of its first step.
LEMMA FrontDone ==
  ASSUME IInv, NEW p \in Rank, todo[p] # <<>>, todo[p][1][1] \in FileNames,
         NEW w, FileSteps(p, w), todo'[p] = w \o Tail(todo[p]),
         mpi'[p] = mpi[p], alive'[p] = alive[p], script' = script
  PROVE  /\ Work(p)' /\ ~Has(todo'[p], "end")
         /\ Pending(p, "free") => Has(todo'[p], "free")
<1> DEFINE t == todo[p]
           r == Tail(t)
<1>1. t[1][1] \in PlainNames /\ t[1][1] # "free"
  BY DEF FileNames, PlainNames
<1>2. \A i \in 1 .. Len(t) :
        /\ t[i][1] \in PlainNames
        /\ t[i][1] = "free" => i = Len(t)
        /\ t[i][1] # "free" => mpi[p] = "on"
        /\ t[i][1] \in {"open", "head", "io", "close"} =>
             t[i][2] \in alive[p] /\ Kind(t[i][2]) \in Files
  BY <1>1, PlainList
<1>3. t \in Seq(Steps) /\ t # <<>>
  BY DEF IInv, Types
<1>4. /\ r \in Seq(Steps) /\ Len(t) \in Nat \ {0} /\ Len(r) = Len(t) - 1
      /\ \A i \in 1 .. Len(t) - 1 : r[i] = t[i + 1]
  BY <1>3, Rest
<1> HIDE DEF t
<1> HIDE DEF r
<1>5. mpi[p] = "on"
  <2>1. 1 \in 1 .. Len(t)
    BY <1>4
  <2> QED BY <2>1, <1>1, <1>2
<1>6. ASSUME NEW i \in 1 .. Len(r)
      PROVE  /\ r[i][1] \in PlainNames
             /\ r[i][1] = "free" => i = Len(r)
             /\ r[i][1] \in {"open", "head", "io", "close"} =>
                  r[i][2] \in alive[p] /\ Kind(r[i][2]) \in Files
  <2>1. i + 1 \in 1 .. Len(t) /\ r[i] = t[i + 1] /\ (i + 1 = Len(t) => i = Len(r))
    BY <1>4
  <2>2. ASSUME NEW j \in 1 .. Len(t), j = i + 1
        PROVE  /\ r[i][1] \in PlainNames
               /\ r[i][1] = "free" => i = Len(r)
               /\ r[i][1] \in {"open", "head", "io", "close"} =>
                    r[i][2] \in alive[p] /\ Kind(r[i][2]) \in Files
    BY <2>1, <2>2, <1>2
  <2> QED BY <2>1, <2>2
<1>7. /\ w \in Seq(Steps) /\ todo'[p] = w \o r
      /\ \A i \in 1 .. Len(w) : /\ w[i][1] \in FileNames
                                /\ w[i][1] # "sizes" => w[i][2] \in alive[p] /\ Kind(w[i][2]) \in Files
  BY DEF FileSteps, r, t
<1>8. /\ w \o r \in Seq(Steps) /\ Len(w \o r) = Len(w) + Len(r)
      /\ \A i \in 1 .. Len(w) + Len(r) :
           \/ i \in 1 .. Len(w) /\ (w \o r)[i] = w[i]
           \/ i - Len(w) \in 1 .. Len(r) /\ (w \o r)[i] = r[i - Len(w)]
  BY <1>4, <1>7, Joined
<1>9. Len(w) \in Nat /\ Len(r) \in Nat
  BY <1>4, <1>7
<1>10. ASSUME NEW i \in 1 .. Len(todo'[p])
       PROVE  /\ todo'[p][i][1] \in PlainNames
              /\ todo'[p][i][1] = "free" => i = Len(todo'[p])
              /\ todo'[p][i][1] # "free" => mpi'[p] = "on"
              /\ todo'[p][i][1] \in {"open", "head", "io", "close"} =>
                   todo'[p][i][2] \in alive'[p] /\ script'[todo'[p][i][2]].kind \in Files
  <2>1. CASE i \in 1 .. Len(w) /\ (w \o r)[i] = w[i]
    <3>1. /\ w[i][1] \in FileNames
          /\ w[i][1] # "sizes" => w[i][2] \in alive[p] /\ Kind(w[i][2]) \in Files
      BY <2>1, <1>7
    <3>2. todo'[p][i] = w[i]
      BY <2>1, <1>7
    <3>3. \A h : script'[h].kind = Kind(h)
      BY SameCalls
    <3> QED BY <3>1, <3>2, <3>3, <1>5 DEF FileNames, PlainNames
  <2>2. CASE i - Len(w) \in 1 .. Len(r) /\ (w \o r)[i] = r[i - Len(w)]
    <3>1. /\ r[i - Len(w)][1] \in PlainNames
          /\ r[i - Len(w)][1] = "free" => i - Len(w) = Len(r)
          /\ r[i - Len(w)][1] \in {"open", "head", "io", "close"} =>
               r[i - Len(w)][2] \in alive[p] /\ Kind(r[i - Len(w)][2]) \in Files
      BY <2>2, <1>6
    <3>2. i - Len(w) = Len(r) => i = Len(w \o r)
      <4>1. ASSUME NEW m \in Nat, NEW n \in Nat, NEW k \in Nat, k - m = n
            PROVE  k = m + n
        BY <4>1
      <4>2. i \in Nat /\ Len(w \o r) = Len(w) + Len(r)
        BY <1>8
      <4> QED BY ONLY <4>1, <4>2, <1>9
    <3>3. todo'[p][i] = r[i - Len(w)] /\ Len(todo'[p]) = Len(w \o r)
      BY <2>2, <1>7
    <3>4. \A h : script'[h].kind = Kind(h)
      BY SameCalls
    <3> QED BY ONLY <3>1, <3>2, <3>3, <3>4, <1>5, mpi'[p] = mpi[p], alive'[p] = alive[p]
  <2>3. i \in 1 .. Len(w) + Len(r)
    BY <1>7, <1>8
  <2> QED BY <2>1, <2>2, <2>3, <1>8
<1>11. Work(p)' /\ ~Has(todo'[p], "end")
  <2>1. Work(p)' /\ \A name : Has(todo'[p], name) => name \in PlainNames
    BY <1>10, WorkPlain
  <2> QED BY <2>1 DEF PlainNames
<1>12. Pending(p, "free") => Has(todo'[p], "free")
  <2>1. ASSUME NEW i \in 1 .. Len(t), t[i][1] = "free"
        PROVE  Has(todo'[p], "free")
    <3>1. i # 1 /\ i - 1 \in 1 .. Len(r) /\ i - 1 \in 1 .. Len(t) - 1 /\ (i - 1) + 1 = i
      BY <2>1, <1>1, <1>4
    <3>2. r[i - 1] = t[i]
      BY <3>1, <1>4
    <3>3. PICK j \in 1 .. Len(r) : r[j][1] = "free"
      BY <3>1, <3>2, <2>1
    <3>4. Len(w) + j \in 1 .. Len(w) + Len(r) /\ Len(w) + j \notin 1 .. Len(w) /\ (Len(w) + j) - Len(w) = j
      BY <1>9
    <3>5. (w \o r)[Len(w) + j] = r[j]
      BY <3>4, <1>8
    <3> QED BY <3>3, <3>4, <3>5, <1>7, <1>8 DEF Has
  <2> QED BY <2>1 DEF Pending, Has, t
<1> QED BY <1>11, <1>12

LEMMA KillStep ==
  ASSUME IInv, NEW p \in Rank, Kill(p)
  PROVE  IInv'
<1>1. /\ ended' = [ended EXCEPT ![p] = "killed"]
      /\ UNCHANGED <<script, at, todo, library, objects, reckless>>
  BY DEF Kill
<1>2. /\ ended' \in [Rank -> {"no", "returned", "aborted", "killed"}] /\ ended'[p] = "killed"
      /\ \A q \in Rank : q # p => ended'[q] = ended[q]
  BY <1>1 DEF IInv, Types
<1>3. Types'
  BY <1>1, <1>2 DEF IInv, Types, library, objects
<1>4. Types /\ Grows /\ script' = script /\ ReturnIsLast'
  BY <1>1, Stays DEF IInv, Types, ReturnIsLast, Op
<1>5. /\ \A q \in Rank : q # p => Same(q)
      /\ Objects(p) /\ Library(p) /\ Work(p) /\ Ends(p)
  BY <1>1, <1>2 DEF Same, library, objects, IInv, Process
<1>6. at' = at /\ todo' = todo /\ handles' = handles /\ alive' = alive /\ open' = open
      /\ managing' = managing /\ manager' = manager /\ mpi' = mpi /\ unsaid' = unsaid
  BY <1>1 DEF library, objects
<1>7. Objects(p)'
  BY <1>4, <1>5, <1>6, SameCalls DEF Objects, Reach, Pending
<1>8. /\ (NoPiolYet(p)' <=> NoPiolYet(p)) /\ Piol(p)' = Piol(p)
      /\ \A name : Pending(p, name)' <=> Pending(p, name)
  BY <1>4, <1>5, <1>6, NoPiolKept, PiolKept DEF Pending
<1>9. Library(p)'
  BY <1>2, <1>5, <1>6, <1>8 DEF Library
<1>10. Work(p)'
  BY <1>4, <1>5, <1>6, WorkKept
<1>11. Ends(p)'
  BY <1>2, <1>5, <1>6, <1>8 DEF Ends
<1> QED BY <1>3, <1>4, <1>5, <1>7, <1>9, <1>10, <1>11, Assembled DEF IInv, Process

\* A step of a file or a reduction, whose place w takes.
PlainDone(p, w) ==
  /\ OwnKept(p) /\ todo[p] # <<>> /\ todo[p][1][1] \in FileNames
  /\ FileSteps(p, w) /\ todo'[p] = w \o Tail(todo[p])
  /\ manager'[p] = manager[p] /\ mpi'[p] = mpi[p] /\ alive'[p] = alive[p] /\ ended'[p] = ended[p]
  /\ ended[p] = "no"
  /\ \/ open'[p] \subseteq open[p]
     \/ todo[p][1][1] = "open" /\ open'[p] \subseteq open[p] \cup {todo[p][1][2]}
  /\ \/ unsaid'[p] = unsaid[p]
     \/ todo[p][1][1] \in {"open", "io", "close"}

LEMMA PlainStep ==
  ASSUME IInv, NEW p \in Rank, NEW w, PlainDone(p, w)
  PROVE  Process(p)'
<1>1. /\ Objects(p) /\ Library(p) /\ Work(p) /\ Ends(p)
  BY DEF IInv, Process
<1>2. /\ script' = script /\ at'[p] = at[p] /\ managing'[p] = managing[p]
      /\ handles'[p] = handles[p] /\ manager'[p] = manager[p] /\ mpi'[p] = mpi[p]
      /\ alive'[p] = alive[p] /\ ended'[p] = ended[p]
  BY DEF PlainDone, OwnKept
<1>3. /\ ~Pending(p, "init") /\ ~Pending(p, "end")
      /\ todo[p][1][1] \in {"open", "head", "io", "close"} =>
           todo[p][1][2] \in alive[p] /\ Kind(todo[p][1][2]) \in Files
  <2>1. todo[p] # <<>> /\ todo[p][1][1] \in PlainNames
    BY DEF PlainDone, FileNames, PlainNames
  <2>2. 1 \in 1 .. Len(todo[p])
    BY <2>1, Rest DEF IInv, Types
  <2> QED BY <2>1, <2>2, PlainList
<1>4. /\ Work(p)' /\ ~Has(todo'[p], "end")
      /\ Pending(p, "free") => Has(todo'[p], "free")
  BY <1>2, FrontDone DEF PlainDone
<1>5. \A n : Kind(n)' = Kind(n) /\ Of(n)' = Of(n) /\ Op(n)' = Op(n)
  BY <1>2, SameCalls
<1>6. Objects(p)'
  <2>1. open'[p] \subseteq 1 .. at[p] /\ \A h \in open'[p] : Kind(h) \in Files
    BY <1>1, <1>3 DEF PlainDone, Objects
  <2>2. \A h \in open'[p] : script'[h].kind \in Files
    BY <2>1, <1>5 DEF Kind
  <2>3. \A h : script'[h].kind = script[h].kind /\ script'[h].of = script[h].of
    BY <1>2
  <2> QED BY <1>1, <1>2, <1>4, <2>1, <2>3 DEF Objects, Reach, Pending, Kind, Of
<1>7. (Needy(p)' <=> Needy(p)) /\ (NoPiolYet(p)' <=> NoPiolYet(p)) /\ Piol(p)' = Piol(p)
  <2>1. Types /\ Grows
    BY <1>2, Stays DEF IInv, Types
  <2> QED BY <2>1, <1>1, <1>2, NeedyKept, NoPiolKept, PiolKept
<1>8. Library(p)'
  BY <1>1, <1>2, <1>3, <1>7 DEF Library
<1>9. todo[p][1][1] \in {"open", "io", "close"} => Piol(p) # {}
  BY <1>1, <1>3 DEF Objects, Piol
<1>10. Ends(p)'
  <2>1. ended[p] = "no"
    BY DEF PlainDone
  <2>2. unsaid'[p] > 0 => Piol(p) # {}
    BY <1>1, <1>9 DEF Ends, PlainDone
  <2> QED BY <2>1, <2>2, <1>1, <1>2, <1>3, <1>5, <1>7 DEF Ends, Op
<1> QED BY <1>4, <1>6, <1>8, <1>10 DEF Process

LEMMA HeadStep ==
  ASSUME IInv, NEW p \in Rank, Ready(p), Next1(p)[1] = "head",
         todo' = [todo EXCEPT ![p] = HeaderRead(p, @[1][2]) \o Tail(@)],
         UNCHANGED <<script, at, managing, manager, mpi, handles, alive, open, unsaid, ended>>
  PROVE  Process(p)'
<1>1. todo[p] \in Seq(Steps) /\ todo[p] # <<>> /\ ended[p] = "no" /\ todo \in [Rank -> Seq(Steps)]
  BY DEF IInv, Types, Ready
<1>2. 1 \in 1 .. Len(todo[p]) /\ Head(todo[p]) = todo[p][1]
  BY <1>1, Rest
<1>3. todo[p][1][1] = "head"
  BY <1>2 DEF Next1
<1> DEFINE h == todo[p][1][2]
<1>4. h \in alive[p] /\ Kind(h) \in Files /\ h \in Nat
  <2>1. h \in alive[p] /\ Kind(h) \in Files
    BY <1>1, <1>2, <1>3, PlainList DEF PlainNames
  <2> QED BY <2>1, KindIs
<1>5. FileSteps(p, HeaderRead(p, h))
  BY <1>4, TransferIs, NoFileSteps DEF HeaderRead
<1>6. todo'[p] = HeaderRead(p, h) \o Tail(todo[p])
  BY <1>1
<1>7. PlainDone(p, HeaderRead(p, h))
  BY <1>1, <1>3, <1>5, <1>6 DEF PlainDone, OwnKept, FileNames
<1> QED BY <1>7, PlainStep

\* An object is destroyed when no handle keeps it alive, so that a file keeps
\* its PIOL: nothing but a handle points to a file.
LEMMA FreeStep ==
  ASSUME IInv, NEW p \in Rank, Ready(p), Next1(p)[1] = "free",
         todo'[p] = Tail(todo[p]), alive'[p] = alive[p] \ Dead(p),
         unsaid'[p] = IF Piol(p) \cap Dead(p) = {} THEN unsaid[p] ELSE 0,
         UNCHANGED <<script, at, managing, manager, mpi, handles, open, ended>>
  PROVE  Process(p)'
<1>1. /\ Objects(p) /\ Library(p) /\ Work(p) /\ Ends(p)
  BY DEF IInv, Process
<1>2. todo[p] \in Seq(Steps) /\ todo[p] # <<>> /\ ended[p] = "no"
  BY DEF IInv, Types, Ready
<1>3. /\ 1 \in 1 .. Len(todo[p]) /\ todo[p][1][1] = "free"
      /\ Tail(todo[p]) \in Seq(Steps) /\ Len(Tail(todo[p])) = Len(todo[p]) - 1
  BY <1>2, Rest DEF Next1
<1>4. todo'[p] = <<>>
  <2>1. Len(todo[p]) = 1
    BY <1>1, <1>3 DEF Work
  <2>2. Len(Tail(todo[p])) = 0
    BY <2>1, <1>3
  <2> QED BY <2>2, <1>3, EmptySeq
<1>5. ~Pending(p, "init") /\ ~Pending(p, "end")
  BY <1>2, <1>3, PlainList DEF PlainNames
<1>6. \A n : Kind(n)' = Kind(n) /\ Of(n)' = Of(n) /\ Op(n)' = Op(n)
  BY SameCalls
<1>7. alive'[p] = alive[p] \cap Reach(handles[p])
  BY DEF Dead
<1>8. Objects(p)'
  <2>1. handles[p] \subseteq alive'[p]
    BY <1>1, <1>7 DEF Objects, Reach
  <2>2. ASSUME NEW h \in alive'[p], Kind(h) \in Files
        PROVE  Of(h) \in alive'[p]
    <3>1. h \in handles[p]
      <4>1. CASE h \in {Of(g) : g \in handles[p]} \ {0}
        <5>1. PICK g \in handles[p] : h = Of(g) /\ h # 0
          BY <4>1
        <5>2. Kind(h) \in {"ExSeis", "Rule"}
          BY <5>1, <1>1 DEF Objects
        <5> QED BY <5>2, <2>2 DEF Files
      <4> QED BY <4>1, <1>7 DEF Reach
    <3>2. Of(h) # 0 /\ Of(h) \in alive[p]
      BY <2>2, <1>1, <1>7 DEF Objects
    <3> QED BY <3>1, <3>2, <1>7 DEF Reach
  <2>3. alive'[p] \subseteq alive[p] /\ alive'[p] \subseteq Reach(handles[p])
    BY <1>7
  <2>4. \A h : script'[h].kind = script[h].kind /\ script'[h].of = script[h].of
    OBVIOUS
  <2> QED BY <1>1, <2>1, <2>2, <2>3, <2>4 DEF Objects, Reach, Kind, Of
<1>9. Library(p)'
  <2>1. Needy(p)' => Needy(p)
    BY <1>6, <1>7 DEF Needy, Kind
  <2>2. NoPiolYet(p)' <=> NoPiolYet(p)
    BY DEF NoPiolYet, Kind, Op
  <2> QED BY <2>1, <2>2, <1>1, <1>5 DEF Library
<1>10. Work(p)'
  BY <1>4, WorkNone
<1>11. Ends(p)'
  <2>1. unsaid'[p] > 0 => Piol(p)' # {}
    <3>1. ASSUME Piol(p) \cap Dead(p) = {}
          PROVE  Piol(p)' = Piol(p)
      BY <3>1 DEF Piol, Kind
    <3> QED BY <3>1, <1>1 DEF Ends
  <2>2. at[p] = 0 \/ Op(at[p]) # "return"
    BY <1>1, <1>2, <1>5 DEF Ends
  <2> QED BY <2>1, <2>2, <1>2 DEF Ends, Op
<1> QED BY <1>8, <1>9, <1>10, <1>11 DEF Process

LEMMA EndStep ==
  ASSUME IInv, NEW p \in Rank, Ready(p), Next1(p)[1] = "end",
         todo'[p] = Tail(todo[p]), manager'[p] = "gone", ended'[p] = "returned",
         UNCHANGED <<script, at, managing, mpi, handles, alive, open, unsaid>>
  PROVE  Process(p)'
<1>1. /\ Objects(p) /\ Library(p) /\ Work(p) /\ Ends(p)
  BY DEF IInv, Process
<1>2. todo[p] \in Seq(Steps) /\ todo[p] # <<>>
  BY DEF IInv, Types, Ready
<1>3. 1 \in 1 .. Len(todo[p]) /\ todo[p][1][1] = "end"
  BY <1>2, Rest DEF Next1
<1>4. Pending(p, "end") /\ todo[p] # <<Fin, End>>
  <2>1. Pending(p, "end")
    BY <1>3 DEF Pending, Has
  <2>2. Fin[1] # "end"
    BY StepsAre
  <2> QED BY <2>1, <2>2, <1>3
<1>5. todo[p] = <<End>> /\ Returns(p) /\ (mpi[p] = "on" => NoPiolYet(p))
  BY <1>1, <1>4 DEF Work
<1>6. todo'[p] = <<>>
  BY <1>5, StepsAre, OneStep
<1>7. ~Pending(p, "free")
  BY <1>5, StepsAre, OneStep DEF Pending
<1>8. \A h : script'[h].kind = script[h].kind /\ script'[h].of = script[h].of /\ script'[h].op = script[h].op
  OBVIOUS
<1>9. Objects(p)'
  BY <1>1, <1>7, <1>8 DEF Objects, Reach, Kind, Of
<1>10. (NoPiolYet(p)' <=> NoPiolYet(p)) /\ Piol(p)' = Piol(p) /\ Returns(p)'
  BY <1>5, <1>8 DEF NoPiolYet, Piol, Returns, Kind, Op
<1>11. Library(p)'
  BY <1>1 DEF Library
<1>12. Work(p)'
  BY <1>6, WorkNone
<1>13. Ends(p)'
  BY <1>1, <1>5, <1>6, <1>10 DEF Ends
<1> QED BY <1>9, <1>11, <1>12, <1>13 DEF Process

LEMMA LocalStep ==
  ASSUME IInv, NEW p \in Rank, Local(p)
  PROVE  IInv'
<1>1. /\ UNCHANGED <<script, at, managing, mpi, handles, open, reckless>> /\ Ready(p)
      /\ todo \in [Rank -> Seq(Steps)] /\ todo[p] # <<>>
      /\ alive \in [Rank -> SUBSET Nat] /\ err \in [Rank -> BOOLEAN] /\ unsaid \in [Rank -> Nat]
      /\ manager \in [Rank -> {"none", "made", "gone"}]
      /\ ended \in [Rank -> {"no", "returned", "aborted", "killed"}]
  BY DEF Local, IInv, Types, Ready
<1>2. Tail(todo[p]) \in Seq(Steps)
  BY <1>1, Rest
<1>3. Types /\ Grows /\ ReturnIsLast'
  BY <1>1, Stays DEF IInv, Types, ReturnIsLast, Op
<1>4. CASE /\ Next1(p)[1] = "head"
           /\ todo' = [todo EXCEPT ![p] = HeaderRead(p, @[1][2]) \o Tail(@)]
           /\ UNCHANGED <<alive, err, unsaid, manager, ended>>
  <2>1. Process(p)'
    BY <1>1, <1>4, HeadStep
  <2>2. HeaderRead(p, todo[p][1][2]) \in Seq(Steps)
    <3>1. todo[p][1] \in Steps
      BY <1>1, Rest
    <3>2. todo[p][1][2] \in Nat
      BY <3>1 DEF Steps
    <3> HIDE DEF Next1
    <3>3. ASSUME NEW h \in Nat
          PROVE  HeaderRead(p, h) \in Seq(Steps)
      <4>1. Sizes \in Steps /\ <<"io", h>> \in Steps
        BY StepsAre
      <4>2. <<>> \in Seq(Steps) /\ <<Sizes>> \in Seq(Steps) /\ <<Sizes, <<"io", h>>>> \in Seq(Steps)
        BY <4>1, OneStep, TwoSteps
      <4> QED BY <4>2 DEF HeaderRead, Transfer
    <3> QED BY <3>2, <3>3
  <2>3. /\ todo' \in [Rank -> Seq(Steps)]
        /\ \A q \in Rank : q # p => todo'[q] = todo[q]
    <3>1. HeaderRead(p, todo[p][1][2]) \o Tail(todo[p]) \in Seq(Steps)
      BY <2>2, <1>2
    <3> QED BY <3>1, <1>1, <1>4
  <2>4. Types' /\ \A q \in Rank : q # p => Same(q)
    BY <2>3, <1>1, <1>3, <1>4 DEF Types, Same
  <2> QED BY <2>1, <2>4, <1>3, Assembled
<1>5. CASE /\ Next1(p)[1] = "free"
           /\ todo' = [todo EXCEPT ![p] = Tail(@)]
           /\ alive' = [alive EXCEPT ![p] = @ \ Dead(p)]
           /\ LET silent == Piol(p) \cap Dead(p) = {}
              IN  /\ err' = [err EXCEPT ![p] = silent /\ @]
                  /\ unsaid' = [unsaid EXCEPT ![p] = IF silent THEN @ ELSE 0]
           /\ UNCHANGED <<manager, ended>>
  <2>1. /\ todo' \in [Rank -> Seq(Steps)] /\ todo'[p] = Tail(todo[p])
        /\ \A q \in Rank : q # p => todo'[q] = todo[q]
    BY <1>1, <1>2, <1>5
  <2>2. /\ alive' \in [Rank -> SUBSET Nat] /\ alive'[p] = alive[p] \ Dead(p)
        /\ \A q \in Rank : q # p => alive'[q] = alive[q]
    BY <1>1, <1>5
  <2>3. err' \in [Rank -> BOOLEAN]
    <3>1. (Piol(p) \cap Dead(p) = {} /\ err[p]) \in BOOLEAN
      OBVIOUS
    <3> QED BY <3>1, <1>1, <1>5
  <2>4. /\ unsaid' \in [Rank -> Nat]
        /\ unsaid'[p] = IF Piol(p) \cap Dead(p) = {} THEN unsaid[p] ELSE 0
        /\ \A q \in Rank : q # p => unsaid'[q] = unsaid[q]
    BY <1>1, <1>5
  <2>5. Types' /\ \A q \in Rank : q # p => Same(q)
    BY <2>1, <2>2, <2>3, <2>4, <1>1, <1>3, <1>5 DEF Types, Same
  <2>6. Process(p)'
    BY <2>1, <2>2, <2>4, <1>1, <1>5, FreeStep
  <2> QED BY <2>5, <2>6, <1>3, Assembled
<1>6. CASE /\ Next1(p)[1] = "end"
           /\ todo' = [todo EXCEPT ![p] = Tail(@)]
           /\ manager' = [manager EXCEPT ![p] = "gone"]
           /\ ended' = [ended EXCEPT ![p] = "returned"]
           /\ UNCHANGED <<alive, err, unsaid>>
  <2>1. /\ todo' \in [Rank -> Seq(Steps)] /\ todo'[p] = Tail(todo[p])
        /\ \A q \in Rank : q # p => todo'[q] = todo[q]
    BY <1>1, <1>2, <1>6
  <2>2. /\ manager' \in [Rank -> {"none", "made", "gone"}] /\ manager'[p] = "gone"
        /\ ended' \in [Rank -> {"no", "returned", "aborted", "killed"}] /\ ended'[p] = "returned"
        /\ \A q \in Rank : q # p => manager'[q] = manager[q] /\ ended'[q] = ended[q]
    BY <1>1, <1>6
  <2>3. Types' /\ \A q \in Rank : q # p => Same(q)
    BY <2>1, <2>2, <1>1, <1>3, <1>6 DEF Types, Same
  <2>4. Process(p)'
    BY <2>1, <2>2, <1>1, <1>6, EndStep
  <2> QED BY <2>3, <2>4, <1>3, Assembled
<1> QED BY <1>4, <1>5, <1>6 DEF Local

\* What a collective step s, which fails at those of F, does to one of the
\* processes.
Joins(p, s, F) ==
  /\ OwnKept(p) /\ ended[p] = "no" /\ todo[p] # <<>> /\ todo[p][1] = s
  /\ s[1] \in {"init", "finalize", "sizes", "open", "io", "close"}
  /\ p \in F => s[1] \in {"open", "io", "close"}
  /\ todo'[p] = Tail(todo[p])
  /\ mpi'[p] = IF s[1] = "init" THEN "on" ELSE IF s[1] = "finalize" THEN "off" ELSE mpi[p]
  /\ open'[p] \subseteq open[p] \/ (s[1] = "open" /\ open'[p] \subseteq open[p] \cup {s[2]})
  /\ s[1] \in {"init", "finalize"} => open'[p] = open[p]
  /\ unsaid'[p] = IF p \in F THEN unsaid[p] + 1 ELSE unsaid[p]
  /\ manager'[p] = manager[p] /\ alive'[p] = alive[p] /\ ended'[p] = ended[p]

LEMMA JoinsMpi ==
  ASSUME IInv, NEW p \in Rank, NEW s, NEW F, Joins(p, s, F), s[1] \in {"init", "finalize"}
  PROVE  Process(p)'
<1>1. /\ Objects(p) /\ Library(p) /\ Work(p) /\ Ends(p) /\ at[p] \in Nat
  BY DEF IInv, Process, Types
<1>2. /\ script' = script /\ at'[p] = at[p] /\ managing'[p] = managing[p]
      /\ handles'[p] = handles[p] /\ manager'[p] = manager[p]
      /\ alive'[p] = alive[p] /\ ended'[p] = ended[p] /\ ended[p] = "no"
      /\ open'[p] = open[p] /\ unsaid'[p] = unsaid[p]
  BY DEF Joins, OwnKept
<1>3. Pending(p, s[1])
  <2>1. 1 \in 1 .. Len(todo[p]) /\ todo[p][1] = s
    BY Rest DEF Joins, IInv, Types
  <2> QED BY <2>1 DEF Pending, Has
<1>4. \/ s[1] = "init" /\ todo[p] = <<Inits>> /\ mpi'[p] = "on"
      \/ /\ s[1] = "finalize" /\ mpi'[p] = "off"
         /\ (todo[p] = <<Fin>> /\ ~Needy(p)) \/ todo[p] = <<Fin, End>>
  BY <1>1, <1>3 DEF Work, Joins
<1>5. /\ ~Pending(p, "free")
      /\ s[1] = "init" \/ todo[p] = <<Fin>> =>
           todo'[p] = <<>> /\ ~Pending(p, "end")
      /\ todo[p] = <<Fin, End>> => todo'[p] = <<End>> /\ Has(todo'[p], "end") /\ Pending(p, "end")
  <2>0. Inits \in Steps /\ Fin \in Steps /\ End \in Steps /\ Inits[1] = "init" /\ Fin[1] = "finalize"
        /\ End[1] = "end" /\ todo'[p] = Tail(todo[p])
    BY StepsAre DEF Joins
  <2>1. CASE todo[p] = <<Inits>>
    <3>1. Fin # Inits /\ \A name : Has(todo[p], name) <=> Inits[1] = name
      BY <2>0, <2>1, OneStep
    <3>2. todo'[p] = <<>> /\ todo[p] # <<Fin, End>>
      BY <2>0, <2>1, OneStep
    <3> QED BY <3>1, <3>2, <2>0, <2>1 DEF Pending
  <2>2. CASE todo[p] = <<Fin>>
    <3>1. \A name : Has(todo[p], name) <=> Fin[1] = name
      BY <2>0, <2>2, OneStep
    <3>2. todo'[p] = <<>> /\ todo[p] # <<Fin, End>>
      BY <2>0, <2>2, OneStep
    <3> QED BY <3>1, <3>2, <2>0, <2>2 DEF Pending
  <2>3. CASE todo[p] = <<Fin, End>>
    <3>1. /\ \A name : Has(todo[p], name) <=> Fin[1] = name \/ End[1] = name
          /\ Tail(todo[p]) = <<End>> /\ todo[p][1] = Fin
      BY <2>0, <2>3, TwoSteps
    <3>2. todo'[p] = <<End>> /\ Has(todo'[p], "end")
      <4>1. todo'[p] = <<End>>
        BY <3>1, <2>0
      <4>2. \A name : Has(<<End>>, name) <=> End[1] = name
        BY <2>0, OneStep
      <4> QED BY <4>1, <4>2, <2>0
    <3>3. s[1] # "init" /\ todo[p] # <<Fin>>
      <4>1. s = Fin
        BY <3>1 DEF Joins
      <4>2. Len(todo[p]) = 2 /\ Len(<<Fin>>) = 1
        BY <2>0, <2>3, OneStep, TwoSteps
      <4> QED BY <4>1, <4>2, <2>0
    <3> QED BY <3>1, <3>2, <3>3, <2>0 DEF Pending
  <2> QED BY <2>1, <2>2, <2>3, <1>4
<1>6. \A h : script'[h].kind = script[h].kind /\ script'[h].of = script[h].of /\ script'[h].op = script[h].op
  BY <1>2
<1>7. Objects(p)'
  BY <1>1, <1>2, <1>5, <1>6 DEF Objects, Reach, Kind, Of
<1>8. (Needy(p)' <=> Needy(p)) /\ (NoPiolYet(p)' <=> NoPiolYet(p)) /\ Piol(p)' = Piol(p)
  <2>1. Types /\ Grows
    BY <1>2, Stays DEF IInv, Types
  <2> QED BY <2>1, <1>1, <1>2, NeedyKept, NoPiolKept, PiolKept
<1>9. Library(p)'
  <2>1. mpi'[p] # "not"
    BY <1>4
  <2>2. Needy(p)' => mpi'[p] = "on" \/ Has(todo'[p], "end")
    BY <1>4, <1>5, <1>8
  <2> QED BY <2>1, <2>2, <1>1, <1>2, <1>8 DEF Library, Pending
<1>10. Work(p)'
  <2>1. CASE todo'[p] = <<>>
    BY <2>1, WorkNone
  <2>2. CASE todo[p] = <<Fin, End>> /\ mpi'[p] = "off"
    <3>1. Returns(p)'
      BY <2>2, <1>1, <1>2, <1>5, <1>6 DEF Work, Returns, Op
    <3> QED BY <3>1, <2>2, <1>5, WorkEnd
  <2>3. todo[p] = <<Fin, End>> => mpi'[p] = "off"
    BY <1>4, <1>5, NoSteps
  <2> QED BY <2>1, <2>2, <2>3, <1>4, <1>5
<1>11. Ends(p)'
  <2>1. Pending(p, "end") => Has(todo'[p], "end")
    BY <1>4, <1>5
  <2> QED BY <2>1, <1>1, <1>2, <1>6, <1>8 DEF Ends, Op, Pending
<1> QED BY <1>7, <1>9, <1>10, <1>11 DEF Process

LEMMA JoinsFile ==
  ASSUME IInv, NEW p \in Rank, NEW s, NEW F, Joins(p, s, F), s[1] \notin {"init", "finalize"}
  PROVE  Process(p)'
<1>1. todo[p] \in Seq(Steps) /\ todo[p] # <<>>
  BY DEF IInv, Types, Joins
<1>2. <<>> \o Tail(todo[p]) = Tail(todo[p])
  BY <1>1, Rest, ConcatEmptySeq
<1>3. PlainDone(p, <<>>)
  BY <1>1, <1>2, NoFileSteps DEF PlainDone, Joins, FileNames
<1> QED BY <1>3, PlainStep

LEMMA CollectiveStep ==
  ASSUME IInv, Collective
  PROVE  IInv'
<1>1. PICK F \in SUBSET Rank : Together(Next1(0), F)
  BY DEF Collective
<1> DEFINE s == Next1(0)
<1>2. Together(s, F)
  BY <1>1
<1> HIDE DEF s
<1>3. /\ \A p \in Rank : Ready(p) /\ Next1(p) = s
      /\ s[1] \in {"init", "finalize", "sizes", "open", "io", "close"}
      /\ F # {} => s[1] \in {"io", "close", "open"}
      /\ todo' = [p \in Rank |-> Tail(todo[p])]
      /\ mpi' = [p \in Rank |-> CASE s[1] = "init"     -> "on"
                                  [] s[1] = "finalize" -> "off"
                                  [] OTHER             -> mpi[p]]
      /\ open' = [p \in Rank |-> CASE s[1] = "open" /\ p \notin F -> open[p] \cup {s[2]}
                                   [] s[1] = "close"              -> open[p] \ {s[2]}
                                   [] OTHER                       -> open[p]]
      /\ err' = [p \in Rank |-> err[p] \/ p \in F]
      /\ unsaid' = [p \in Rank |-> IF p \in F THEN unsaid[p] + 1 ELSE unsaid[p]]
      /\ UNCHANGED <<script, at, managing, manager, handles, alive, ended, reckless>>
  BY <1>2 DEF Together
<1>4. Types /\ ReturnIsLast
  BY DEF IInv
<1>5. ASSUME NEW p \in Rank
      PROVE  Joins(p, s, F) /\ Tail(todo[p]) \in Seq(Steps)
             /\ (s[1] \in {"open", "close"} => s[2] \in Nat)
  <2>1. todo[p] \in Seq(Steps) /\ todo[p] # <<>> /\ Head(todo[p]) = s /\ ended[p] = "no"
    BY <1>3, <1>4 DEF Types, Ready, Next1
  <2>2. todo[p][1] = s /\ Tail(todo[p]) \in Seq(Steps) /\ s \in Steps
    BY <2>1, Rest
  <2>3. todo'[p] = Tail(todo[p]) /\ unsaid'[p] = IF p \in F THEN unsaid[p] + 1 ELSE unsaid[p]
    BY <1>3
  <2>4. mpi'[p] = IF s[1] = "init" THEN "on" ELSE IF s[1] = "finalize" THEN "off" ELSE mpi[p]
    BY <1>3
  <2>5. /\ open'[p] \subseteq open[p] \/ (s[1] = "open" /\ open'[p] \subseteq open[p] \cup {s[2]})
        /\ s[1] \in {"init", "finalize"} => open'[p] = open[p]
    BY <1>3
  <2>6. s[2] \in Nat
    BY <2>2 DEF Steps
  <2> QED BY <2>1, <2>2, <2>3, <2>4, <2>5, <2>6, <1>3 DEF Joins, OwnKept
<1>6. Types'
  <2>1. todo' \in [Rank -> Seq(Steps)]
    BY <1>3, <1>5
  <2>2. mpi' \in [Rank -> {"not", "on", "off"}]
    <3>1. ASSUME NEW p \in Rank
          PROVE  mpi'[p] \in {"not", "on", "off"}
      BY <1>4, <1>5 DEF Joins, Types
    <3> QED BY <3>1, <1>3
  <2>3. open' \in [Rank -> SUBSET Nat]
    <3>1. ASSUME NEW p \in Rank
          PROVE  open'[p] \in SUBSET Nat
      <4>1. open[p] \subseteq Nat /\ (s[1] = "open" => s[2] \in Nat)
        BY <1>4, <1>5 DEF Types
      <4>2. open'[p] \subseteq open[p] \/ (s[1] = "open" /\ open'[p] \subseteq open[p] \cup {s[2]})
        BY <1>5 DEF Joins
      <4> QED BY <4>1, <4>2
    <3> QED BY <3>1, <1>3
  <2>4. err' \in [Rank -> BOOLEAN] /\ unsaid' \in [Rank -> Nat]
    BY <1>3, <1>4 DEF Types
  <2> QED BY <2>1, <2>2, <2>3, <2>4, <1>3, <1>4 DEF Types
<1>7. ReturnIsLast'
  BY <1>3, <1>4 DEF ReturnIsLast, Op
<1>8. ASSUME NEW p \in Rank
      PROVE  Process(p)'
  <2>1. CASE s[1] \in {"init", "finalize"}
    BY <2>1, <1>5, JoinsMpi
  <2>2. CASE s[1] \notin {"init", "finalize"}
    BY <2>2, <1>5, JoinsFile
  <2> QED BY <2>1, <2>2
<1> QED BY <1>6, <1>7, <1>8 DEF IInv
-----------------------------------------------------------------------------
(***************************************************************************)
(* The invariant: MpiCovers speaks of the step a process comes to, which   *)
(* says what MPI must be (Work), and that MPI is what it must be when the  *)
(* step is reached follows from what brings lists of steps into being      *)
(* (Library) and from what the files and the PIOL they need are to each    *)
(* other (Objects).                                                        *)
(***************************************************************************)
LEMMA InitIs == Init => IInv
<1> SUFFICES ASSUME Init
             PROVE  IInv
  OBVIOUS
<1>1. Types
  <2>1. <<>> \in Seq(ProgramCalls) /\ <<>> \in Seq(Steps)
    BY EmptySeq
  <2>2. /\ script = <<>> /\ at = [p \in Rank |-> 0] /\ todo = [p \in Rank |-> <<>>]
        /\ managing = [p \in Rank |-> "unset"] /\ manager = [p \in Rank |-> "none"]
        /\ mpi = [p \in Rank |-> "not"] /\ handles = [p \in Rank |-> {}]
        /\ alive = [p \in Rank |-> {}] /\ open = [p \in Rank |-> {}]
        /\ err = [p \in Rank |-> FALSE] /\ unsaid = [p \in Rank |-> 0]
        /\ ended = [p \in Rank |-> "no"] /\ reckless = FALSE
    BY DEF Init
  <2> QED BY <2>1, <2>2 DEF Types
<1>2. Len(script) = 0 /\ ReturnIsLast
  BY DEF Init, ReturnIsLast
<1>3. ASSUME NEW p \in Rank
      PROVE  Process(p)
  <2>1. /\ at[p] = 0 /\ todo[p] = <<>> /\ manager[p] = "none" /\ managing[p] = "unset"
        /\ handles[p] = {} /\ alive[p] = {} /\ open[p] = {} /\ unsaid[p] = 0 /\ ended[p] = "no"
    BY DEF Init
  <2>2. \A name : ~Pending(p, name)
    BY <2>1, NoSteps DEF Pending
  <2>3. Objects(p)
    BY <2>1, <1>2 DEF Objects
  <2>4. Library(p)
    BY <2>1 DEF Library, NoPiolYet, Needy
  <2>5. Work(p)
    BY <2>1, <2>2, NoSteps DEF Work
  <2>6. Ends(p)
    BY <2>1 DEF Ends
  <2> QED BY <2>3, <2>4, <2>5, <2>6 DEF Process
<1> QED BY <1>1, <1>2, <1>3 DEF IInv

LEMMA NextKeeps == IInv /\ [Next]_vars => IInv'
<1> SUFFICES ASSUME IInv, [Next]_vars
             PROVE  IInv'
  OBVIOUS
<1>1. ASSUME NEW p \in Rank,
             \/ UserInit(p) \/ ManageMPI(p) \/ UserFinalize(p)
             \/ ExSeisNew(p) \/ FileNew(p) \/ RuleNew(p) \/ ParamNew(p)
             \/ UsePiol(p) \/ UseRule(p) \/ UseParam(p) \/ UseHeader(p) \/ UseTrace(p)
             \/ Delete(p) \/ IsErr(p) \/ Return(p)
             \/ Local(p) \/ Kill(p)
      PROVE  IInv'
  <2>1. CASE UserInit(p)
    BY <2>1, UserInitStep
  <2>2. CASE ManageMPI(p)
    BY <2>2, ManageStep
  <2>3. CASE UserFinalize(p)
    BY <2>3, UserFinalizeStep
  <2>4. CASE ExSeisNew(p)
    BY <2>4, ExSeisNewStep
  <2>5. CASE FileNew(p)
    BY <2>5, FileNewStep
  <2>6. CASE RuleNew(p) \/ ParamNew(p)
    BY <2>6, NewStep
  <2>7. CASE UsePiol(p) \/ UseRule(p) \/ UseParam(p) \/ UseHeader(p) \/ UseTrace(p)
    BY <2>7, UsesStep
  <2>8. CASE Delete(p)
    BY <2>8, DeleteStep
  <2>9. CASE IsErr(p)
    BY <2>9, IsErrStep
  <2>10. CASE Return(p)
    BY <2>10, ReturnStep
  <2>11. CASE Local(p)
    BY <2>11, LocalStep
  <2>12. CASE Kill(p)
    BY <2>12, KillStep
  <2> QED BY ONLY <1>1, <2>1, <2>2, <2>3, <2>4, <2>5, <2>6, <2>7, <2>8, <2>9, <2>10, <2>11, <2>12
<1>2. CASE Collective
  BY <1>2, CollectiveStep
<1>3. CASE UNCHANGED vars
  <2>1. /\ script' = script /\ at' = at /\ todo' = todo /\ managing' = managing
        /\ manager' = manager /\ mpi' = mpi /\ handles' = handles /\ alive' = alive
        /\ open' = open /\ err' = err /\ unsaid' = unsaid /\ ended' = ended
        /\ reckless' = reckless
    BY <1>3 DEF vars
  <2>2. Types /\ Grows /\ Types'
    BY <2>1, Stays DEF IInv, Types
  <2>3. ReturnIsLast'
    BY <2>1 DEF IInv, ReturnIsLast, Op
  <2>4. \A p \in Rank : Process(p)'
    BY <2>1, <2>2, Untouched DEF IInv, Same
  <2> QED BY <2>2, <2>3, <2>4 DEF IInv
<1> QED BY <1>1, <1>2, <1>3 DEF Next, Finished

(***************************************************************************)
(* Theorem: the values are of their types, a file that is not yet          *)
(* destroyed has its PIOL, MPI is on while there are such, and errors that *)
(* are not yet printed have a PIOL whose destructor prints them.           *)
(***************************************************************************)
THEOREM AlwaysInvariant == Spec => []IInv
BY InitIs, NextKeeps, PTL DEF Spec

LEMMA CoversNow == IInv => MpiCovers
<1> SUFFICES ASSUME IInv, NEW p \in Rank
             PROVE  /\ Ready(p) /\ Next1(p)[1] = "init" => mpi[p] = "not"
                    /\ Ready(p) /\ Next1(p)[1] \in {"finalize", "sizes", "open", "io", "close"}
                         => mpi[p] = "on"
                    /\ ended[p] = "returned" /\ mpi[p] = "on" => \A n \in Made : Kind(n) # "ExSeis"
  BY DEF MpiCovers
<1>1. Work(p) /\ Ends(p) /\ todo[p] \in Seq(Steps) /\ script \in Seq(ProgramCalls)
  BY DEF IInv, Process, Types
<1>2. ASSUME Ready(p)
      PROVE  /\ Next1(p)[1] = "init" => mpi[p] = "not"
             /\ Next1(p)[1] \in {"finalize", "sizes", "open", "io", "close"} => mpi[p] = "on"
  <2>1. 1 \in 1 .. Len(todo[p]) /\ Next1(p) = todo[p][1]
    BY <1>1, <1>2, Rest DEF Ready, Next1
  <2>2. Pending(p, Next1(p)[1])
    BY <2>1 DEF Pending, Has
  <2> QED BY <2>1, <2>2, <1>1 DEF Work
<1>3. ASSUME ended[p] = "returned", mpi[p] = "on"
      PROVE  \A n \in Made : Kind(n) # "ExSeis"
  <2>1. at[p] = Len(script) /\ NoPiolYet(p)
    BY <1>1, <1>3 DEF Ends, Returns
  <2>2. DOMAIN script = 1 .. at[p]
    BY <2>1, <1>1
  <2> QED BY <2>1, <2>2 DEF Made, NoPiolYet, Op
<1> QED BY <1>2, <1>3

(***************************************************************************)
(* Theorem: for any number of processes and programs of any length, MPI    *)
(* is started once, by the program or by the library, every other call of  *)
(* MPI comes between its start and its end, and MPI has ended with the     *)
(* program, unless the program never made a PIOL.                          *)
(***************************************************************************)
THEOREM MpiAlwaysCovers == Spec => []MpiCovers
BY AlwaysInvariant, CoversNow, PTL

LEMMA SaidNow == IInv => ErrorsSaid
<1> SUFFICES ASSUME IInv, NEW p \in Rank,
                    ended[p] = "aborted" \/ (ended[p] = "returned" /\ handles[p] = {})
             PROVE  unsaid[p] = 0
  BY DEF ErrorsSaid
<1>1. Objects(p) /\ Ends(p) /\ unsaid[p] \in Nat
  BY DEF IInv, Process, Types
<1>2. CASE ended[p] = "aborted"
  BY <1>1, <1>2 DEF Ends
<1>3. CASE ended[p] = "returned" /\ handles[p] = {}
  <2>1. ~Pending(p, "free")
    BY <1>1, <1>3, NoSteps DEF Ends, Pending
  <2>2. alive[p] = {}
    BY <2>1, <1>1, <1>3 DEF Objects, Reach
  <2>3. Piol(p) = {}
    BY <2>2 DEF Piol
  <2> QED BY <2>3, <1>1 DEF Ends
<1> QED BY <1>2, <1>3

(***************************************************************************)
(* Theorem: a process that has deleted its handles, in whatever order, has *)
(* printed every error of its log when it returns; one that ends at isErr  *)
(* has printed those until then.                                           *)
(***************************************************************************)
THEOREM ErrorsAlwaysSaid == Spec => []ErrorsSaid
BY AlwaysInvariant, SaidNow, PTL
-----------------------------------------------------------------------------
(***************************************************************************)
(* The binning utility as a proof outline: what holds at each of the calls *)
(* the processes meet in.  The traces of a file have the numbers from 0.   *)
(***************************************************************************)
Coord   == [tn : Nat, xs : Int, xr : Int, line : Int]
Guess   == [min : Nat, dsr : Int]
Couple  == [tn : Nat \X Nat, dsr : Int]
Passes  == [i : Nat, rem : Int]
BinStep == {"open", "keys", "sort", "coords", "read", "gather", "update", "free",
            "undefined", "output", "write", "written", "done"}

Numbers(f) == 0 .. Len(file[f]) - 1
Src(f, n)  == file[f][n + 1]
Entry(f, n) == [tn |-> n, xs |-> Src(f, n).xs, xr |-> Src(f, n).xr, line |-> Src(f, n).line]

BinTypes ==
  /\ file \in Pairs /\ ixline \in BOOLEAN /\ turn \in 1 .. 2
  /\ pc \in [Rank -> BinStep]
  /\ pass \in [Rank -> Passes]
  /\ trlist \in [Rank -> Seq(Nat)]
  /\ crd \in [1 .. 2 -> [Rank -> Seq(Coord)]]
  /\ active \in [Rank -> Seq(Rank)]
  /\ best \in [Rank -> Seq(Guess)]
  /\ match \in [Rank -> Seq(Couple)]
  /\ out \in [1 .. 2 -> SUBSET [place : Nat, tn : Nat, dsr : Int]]

Within(steps)  == \A r \in Rank : pc[r] \in steps
Through(r, n)  == pass[r].i >= n

\* The part of file f that process r has: as much as is its share, each trace
\* as it is in the file, in ascending order of xs; no trace is there twice.
Complete(f) ==
  /\ \A r \in Rank :
       /\ Len(crd[f][r]) = Share(Len(file[f]), r)
       /\ \A k \in 1 .. Len(crd[f][r]) : \E n \in Numbers(f) : crd[f][r][k] = Entry(f, n)
       /\ \A j, k \in 1 .. Len(crd[f][r]) : j < k => crd[f][r][j].xs <= crd[f][r][k].xs
  /\ \A r, s \in Rank : \A j \in 1 .. Len(crd[f][r]), k \in 1 .. Len(crd[f][s]) :
       crd[f][r][j].tn = crd[f][s][k].tn => r = s /\ j = k

Unread(f)  == crd[f] = [r \in Rank |-> <<>>]
NoOut      == out = [f \in 1 .. 2 |-> {}]
ReadBefore == turn = 2 => Complete(1)

\* The numbers the keys were read with, and their order after the sort.
InSequence(r) ==
  /\ trlist[r] = [k \in 1 .. Least(pass[r].i, Lnt(r)) |-> First(Nt, r) + k - 1]
  /\ pc[r] = "sort" => Through(r, Lnt(r))

Sorted ==
  /\ \A r \in Rank :
       /\ trlist[r] \in [1 .. Lnt(r) -> Numbers(turn)]
       /\ \A j, k \in 1 .. Lnt(r) :
            j < k => Src(turn, trlist[r][j]).xs <= Src(turn, trlist[r][k]).xs
  /\ \A r, s \in Rank : \A j \in 1 .. Lnt(r), k \in 1 .. Lnt(s) :
       trlist[r][j] = trlist[s][k] => r = s /\ j = k

Filled(r) ==
  /\ crd[turn][r] = [k \in 1 .. Least(pass[r].i, Lnt(r)) |-> Entry(turn, trlist[r][k])]
  /\ pc[r] = "read" => Through(r, Lnt(r))

Opening == Within({"open"}) /\ Unread(turn) /\ Unread(2) /\ ReadBefore /\ NoOut
Keying  == /\ Within({"keys", "sort"}) /\ Unread(turn) /\ Unread(2) /\ ReadBefore /\ NoOut
           /\ \A r \in Rank : InSequence(r)
Listing == /\ Within({"coords", "read"}) /\ (turn = 1 => Unread(2)) /\ ReadBefore /\ NoOut
           /\ Sorted
           /\ \A r \in Rank : Filled(r)
BothRead == Complete(1) /\ Complete(2) /\ NoOut
Meeting  == Within({"gather"}) /\ BothRead

\* What is known of the best partner so far is true of the two files.
Truthful(r) ==
  /\ Len(best[r]) = Len(crd[1][r])
  /\ \A k \in 1 .. Len(best[r]) :
       /\ best[r][k].min \in Numbers(2)
       /\ best[r][k].dsr = Value(Src(1, crd[1][r][k].tn), Src(2, best[r][k].min))

\* The pairs of neighbours that InnerClosest speaks of, for one process.
Inner(r, s) ==
  LET c1 == crd[1][r]
      c2 == crd[2][s]
  IN  \A k \in 1 .. Len(c1) - 1, j \in 1 .. Len(c2) - 1 :
        (\A a \in {k, k + 1}, b \in {j, j + 1} : Distance(c1[a].xs, c2[b].xs) <= DsrMax)
        => best[r][k].dsr <= Value(c1[k], c2[j])

\* A process is still to come to s, or what it has is close enough for s.
Looked(r) ==
  /\ pc[r] = "update" => active[r] # <<>>
  /\ pc[r] = "free" => active[r] = <<>>
  /\ pc[r] # "undefined" =>
       \A s \in Rank : (\E n \in 1 .. Len(active[r]) : active[r][n] = s) \/ Inner(r, s)

Comparing == /\ Within({"update", "free", "undefined"}) /\ BothRead
             /\ \A r \in Rank : Truthful(r) /\ Looked(r)

\* The pairs that are kept: close, with the distance they have in the files,
\* and no trace of the first file in two of them.
Kept ==
  /\ \A r \in Rank : \A k \in 1 .. Len(match[r]) :
       LET m == match[r][k]
       IN  /\ m.tn[1] \in Numbers(1) /\ m.tn[2] \in Numbers(2)
           /\ m.dsr = Value(Src(1, m.tn[1]), Src(2, m.tn[2])) /\ m.dsr <= DsrMax
  /\ \A r, s \in Rank : \A j \in 1 .. Len(match[r]), k \in 1 .. Len(match[s]) :
       match[r][j].tn[1] = match[s][k].tn[1] => r = s /\ j = k

\* What stands in the output of file f for the k-th pair of process r.
Row(f, r, k) == [place |-> Where(r, k), tn |-> match[r][k].tn[f], dsr |-> match[r][k].dsr]
Rows(f, r, n) == {Row(f, r, k) : k \in 1 .. n}
Full(f)   == out[f] = UNION {Rows(f, r, Size(r)) : r \in Rank}
Partly(f) == out[f] = UNION {Rows(f, r, Least(pass[r].i, Size(r))) : r \in Rank}

OutBefore == /\ turn = 1 => out[2] = {}
             /\ turn = 2 => Full(1)
Placing == Within({"output"}) /\ Kept /\ OutBefore /\ out[turn] = {}
Writing == /\ Within({"write", "written"}) /\ Kept /\ OutBefore /\ Partly(turn)
           /\ \A r \in Rank : pc[r] = "written" => Through(r, Size(r))
Closed  == Within({"done"}) /\ Kept /\ Full(1) /\ Full(2)

BinInv == /\ BinTypes
          /\ \/ Opening \/ Keying \/ Listing \/ Meeting \/ Comparing
             \/ Placing \/ Writing \/ Closed

-----------------------------------------------------------------------------
(***************************************************************************)
(* The traces of the files, and the loops over them.                       *)
(***************************************************************************)
LEMMA SomeRank == 0 \in Rank /\ Rank \subseteq Nat
BY NumRankAssumption DEF Rank

LEMMA BinChunks == /\ Align \in Nat \ {0} /\ Max1 \in Nat \ {0} /\ Max2 \in Nat \ {0}
                   /\ MaxOut \in Nat \ {0} /\ DsrMax \in Nat /\ Far \in Nat
BY ChunksAssumption, DsrAssumption

LEMMA FileLen ==
  ASSUME file \in Pairs, NEW f \in 1 .. 2
  PROVE  /\ Len(file[f]) \in Nat /\ Len(file[f]) >= NumRank
         /\ file[f] \in Seq(Trace) /\ DOMAIN file[f] = 1 .. Len(file[f])
<1>1. file[f] \in Seq(Trace) /\ Len(file[f]) >= NumRank
  BY PairsAssumption
<1> QED BY <1>1, LenProperties

LEMMA SrcIs ==
  ASSUME file \in Pairs, NEW f \in 1 .. 2, NEW n \in Numbers(f)
  PROVE  /\ Src(f, n) \in Trace /\ n \in Nat
         /\ Src(f, n).xs \in Int /\ Src(f, n).xr \in Int /\ Src(f, n).line \in Int
         /\ Entry(f, n) \in Coord /\ Entry(f, n).tn = n
         /\ Entry(f, n).xs = Src(f, n).xs /\ Entry(f, n).xr = Src(f, n).xr
         /\ Entry(f, n).line = Src(f, n).line
<1>1. n \in Nat /\ n + 1 \in 1 .. Len(file[f])
  BY FileLen DEF Numbers
<1>2. Src(f, n) \in Trace
  BY <1>1, FileLen, ElementOfSeq DEF Src
<1>3. Src(f, n).xs \in Int /\ Src(f, n).xr \in Int /\ Src(f, n).line \in Int
  BY <1>2 DEF Trace
<1> QED BY <1>1, <1>2, <1>3 DEF Entry, Coord

\* Every process has traces of both files.
LEMMA ShareOf ==
  ASSUME file \in Pairs, NEW f \in 1 .. 2, NEW r \in Rank
  PROVE  Share(Len(file[f]), r) \in Nat /\ Share(Len(file[f]), r) >= 1
<1> DEFINE n == Len(file[f])
           q == n \div NumRank
           m == n % NumRank
<1>1. n \in Nat /\ n >= NumRank /\ NumRank \in Nat \ {0}
  BY FileLen, NumRankAssumption
<1> HIDE DEF n
<1>2. q \in Nat /\ m \in Nat /\ n = NumRank * q + m /\ m < NumRank
  BY <1>1, DivFacts
<1>3. Share(n, r) = q + (IF r < m THEN 1 ELSE 0)
  BY <1>1, ShareIs
<1> HIDE DEF q, m
<1>4. q # 0
  BY <1>1, <1>2
<1> QED BY <1>2, <1>3, <1>4 DEF n

LEMMA LntIs ==
  ASSUME file \in Pairs, turn \in 1 .. 2, NEW r \in Rank
  PROVE  Lnt(r) \in Nat /\ Lnt(r) >= 1 /\ Nt \in Nat /\ Numbers(turn) = 0 .. Nt - 1
BY ShareOf, FileLen DEF Lnt, Nt, Numbers

LEMMA PassStep ==
  ASSUME NEW p \in Passes, NEW sz \in Nat, NEW max \in Nat \ {0}
  PROVE  /\ p.i \in Nat /\ Chunk(p, sz, max) \in Nat
         /\ Advance(p, sz, max) \in Passes
         /\ Least(p.i, sz) \in Nat /\ Least(p.i, sz) <= sz
         /\ Least(p.i, sz) + Chunk(p, sz, max) = Least(Advance(p, sz, max).i, sz)
         /\ Chunk(p, sz, max) > 0 => Least(p.i, sz) = p.i
         /\ ~More(Advance(p, sz, max), sz) => Advance(p, sz, max).i >= sz
<1>1. p.i \in Nat /\ p.rem \in Int
  BY DEF Passes
<1>2. Chunk(p, sz, max) = IF p.i >= sz THEN 0 ELSE IF sz - p.i < max THEN sz - p.i ELSE max
  BY DEF Chunk
<1> DEFINE q == Advance(p, sz, max)
<1>3. CASE p.i < sz
  <2>1. q = [p EXCEPT !.i = @ + max]
    BY <1>3 DEF Advance
  <2>2. q \in Passes /\ q.i = p.i + max
    BY <1>1, <2>1 DEF Passes
  <2> HIDE DEF q
  <2> QED BY <1>1, <1>2, <1>3, <2>2 DEF Least, More, q
<1>4. CASE ~(p.i < sz)
  <2>1. q = [p EXCEPT !.rem = @ - 1]
    BY <1>4 DEF Advance
  <2>2. q \in Passes /\ q.i = p.i
    BY <1>1, <2>1 DEF Passes
  <2> HIDE DEF q
  <2> QED BY <1>1, <1>2, <1>4, <2>2 DEF Least, More, q
<1> QED BY <1>3, <1>4

LEMMA PassBegins ==
  ASSUME NEW sz \in Nat, NEW most \in Nat, sz <= most, NEW max \in Nat \ {0}
  PROVE  /\ Begin(sz, max, most) \in Passes /\ Begin(sz, max, most).i = 0
         /\ Least(Begin(sz, max, most).i, sz) = 0
         /\ ~More(Begin(sz, max, most), sz) => Begin(sz, max, most).i >= sz
<1> DEFINE p == Begin(sz, max, most)
<1>1. RemCall(sz, max, most) \in Nat
  BY SameNumberOfCalls
<1>2. p \in Passes /\ p.i = 0
  BY <1>1 DEF Begin, Passes
<1> HIDE DEF p
<1> QED BY <1>2 DEF Least, More, p

\* Of the sizes of all processes one is the greatest.
LEMMA MostOfLnt ==
  ASSUME file \in Pairs, turn \in 1 .. 2
  PROVE  Most(Lnt) \in Nat /\ \A r \in Rank : Lnt(r) <= Most(Lnt)
<1> DEFINE s == [r \in Rank |-> Lnt(r)]
           m == Max({s[r] : r \in Rank})
<1>1. s \in [Rank -> Nat]
  BY LntIs
<1> HIDE DEF s
<1>2. m \in Nat /\ (\A r \in Rank : s[r] <= m) /\ \E r \in Rank : s[r] = m
  BY <1>1, Busiest
<1> HIDE DEF m
<1>3. m \in {Lnt(r) : r \in Rank} /\ \A r \in Rank : Lnt(r) <= m
  BY <1>2 DEF s
<1>4. Most(Lnt) \in {Lnt(r) : r \in Rank} /\ \A r \in Rank : Lnt(r) <= Most(Lnt)
  BY <1>3 DEF Most
<1> QED BY <1>4, LntIs

LEMMA MostOfSize ==
  ASSUME match \in [Rank -> Seq(Couple)]
  PROVE  Most(Size) \in Nat /\ \A r \in Rank : Size(r) <= Most(Size) /\ Size(r) \in Nat
<1> DEFINE s == [r \in Rank |-> Size(r)]
           m == Max({s[r] : r \in Rank})
<1>0. \A r \in Rank : Size(r) \in Nat
  BY LenProperties DEF Size
<1>1. s \in [Rank -> Nat]
  BY <1>0
<1> HIDE DEF s
<1>2. m \in Nat /\ (\A r \in Rank : s[r] <= m) /\ \E r \in Rank : s[r] = m
  BY <1>1, Busiest
<1> HIDE DEF m
<1>3. m \in {Size(r) : r \in Rank} /\ \A r \in Rank : Size(r) <= m
  BY <1>2 DEF s
<1>4. Most(Size) \in {Size(r) : r \in Rank} /\ \A r \in Rank : Size(r) <= Most(Size)
  BY <1>3 DEF Most
<1> QED BY <1>0, <1>4

\* Distances are natural numbers, and depend on the coordinates alone.
LEMMA ValueIs ==
  ASSUME NEW a, a.xs \in Int, a.xr \in Int, NEW b, b.xs \in Int, b.xr \in Int
  PROVE  Value(a, b) \in Nat
<1>1. \A x, y \in Int : Distance(x, y) \in Nat
  BY DEF Distance
<1>2. /\ Distance(a.xs, b.xs) \in Nat /\ Distance(a.xr, b.xr) \in Nat
      /\ Distance(a.xs, b.xr) \in Nat /\ Distance(a.xr, b.xs) \in Nat
  BY <1>1
<1>3. \A x, y \in Nat : Least(x, y) \in Nat /\ x + y \in Nat
  BY DEF Least
<1>4. Dsr(a, b) \in Nat
  BY <1>2, <1>3 DEF Dsr
<1> QED BY <1>4, BinChunks DEF Value

LEMMA ValueOfEntries ==
  ASSUME NEW f, NEW g, NEW n, NEW m
  PROVE  Value(Entry(f, n), Entry(g, m)) = Value(Src(f, n), Src(g, m))
BY DEF Entry, Value, Dsr

\* Which calls the processes are at together.
LEMMA Alone ==
  ASSUME NEW step, All(step)
  PROVE  /\ Opening => step = "open"
         /\ Keying => step \in {"keys", "sort"}
         /\ Listing => step \in {"coords", "read"}
         /\ Meeting => step = "gather"
         /\ Comparing => step \in {"update", "free", "undefined"}
         /\ Placing => step = "output"
         /\ Writing => step \in {"write", "written"}
         /\ Closed => step = "done"
BY SomeRank DEF All, Within, Opening, Keying, Listing, Meeting, Comparing, Placing, Writing,
                Closed

-----------------------------------------------------------------------------
(***************************************************************************)
(* getCoords.                                                              *)
(***************************************************************************)
LEMMA SameFiles ==
  ASSUME UNCHANGED file
  PROVE  /\ \A f, n : Src(f, n)' = Src(f, n) /\ Entry(f, n)' = Entry(f, n)
         /\ \A f : Numbers(f)' = Numbers(f)
         /\ turn' = turn => Nt' = Nt /\ \A r : Lnt(r)' = Lnt(r)
BY DEF Src, Entry, Numbers, Nt, Lnt

LEMMA CompleteStays ==
  ASSUME UNCHANGED file, NEW f, crd'[f] = crd[f], Complete(f)
  PROVE  Complete(f)'
BY SameFiles DEF Complete

LEMMA NothingIs ==
  ASSUME NEW S, NEW s \in Seq(S), Len(s) = 0
  PROVE  s = <<>>
BY EmptySeq

LEMMA EmptyRun ==
  ASSUME NEW s, s = [k \in 1 .. 0 |-> s[k]]
  PROVE  s = <<>>
<1>1. s \in [1 .. 0 -> {}]
  OBVIOUS
<1>2. s \in Seq({}) /\ Len(s) = 0
  BY ONLY <1>1
<1> QED BY <1>2, NothingIs

\* A part of a list with what comes next in it is a longer part.
FrontOf(F, l, s)      == s = [k \in 1 .. l |-> F[k]]
NextOf(F, l, c, t)    == t = [j \in 1 .. c |-> F[l + j]]

LEMMA Continued ==
  ASSUME NEW S, NEW n \in Nat, NEW F \in [1 .. n -> S],
         NEW l \in Nat, NEW c \in Nat, l + c <= n,
         NEW s, FrontOf(F, l, s), NEW t, NextOf(F, l, c, t)
  PROVE  FrontOf(F, l + c, s \o t) /\ s \o t \in Seq(S)
<1>0. s = [k \in 1 .. l |-> F[k]] /\ t = [j \in 1 .. c |-> F[l + j]]
  BY DEF FrontOf, NextOf
<1>1. \A k \in 1 .. l : k \in 1 .. n
  OBVIOUS
<1>2. \A j \in 1 .. c : l + j \in 1 .. n
  OBVIOUS
<1>3. s \in [1 .. l -> S] /\ t \in [1 .. c -> S]
  BY <1>0, <1>1, <1>2
<1>4. s \in Seq(S) /\ Len(s) = l /\ t \in Seq(S) /\ Len(t) = c
  BY ONLY <1>3, l \in Nat, c \in Nat
<1> DEFINE u == [k \in 1 .. l + c |-> F[k]]
<1>5. u \in [1 .. l + c -> S] /\ l + c \in Nat
  OBVIOUS
<1>6. \A k \in 1 .. l + c : u[k] = F[k]
  OBVIOUS
<1> HIDE DEF u
<1>7. u \in Seq(S) /\ Len(u) = l + c
  BY ONLY <1>5
<1>8. /\ s \o t \in Seq(S) /\ Len(s \o t) = l + c
      /\ \A k \in 1 .. l + c : (s \o t)[k] = IF k <= l THEN s[k] ELSE t[k - l]
  BY <1>4, ConcatProperties
<1>9. ASSUME NEW k \in 1 .. l + c
      PROVE  (s \o t)[k] = u[k]
  <2>1. CASE k <= l
    <3>1. k \in 1 .. l
      BY <2>1
    <3> QED BY <2>1, <3>1, <1>0, <1>6, <1>8
  <2>2. CASE ~(k <= l)
    <3>1. k - l \in 1 .. c /\ l + (k - l) = k
      BY <2>2
    <3>2. t[k - l] = F[l + (k - l)]
      BY <1>0, <3>1
    <3> QED BY <2>2, <3>1, <3>2, <1>6, <1>8
  <2> QED BY <2>1, <2>2
<1>10. s \o t = u
  BY <1>7, <1>8, <1>9, SeqEqual
<1> QED BY <1>8, <1>10 DEF u, FrontOf

LEMMA OpenStep == BinInv /\ Open => BinInv'
<1> SUFFICES ASSUME BinInv, Open PROVE BinInv'
  OBVIOUS
<1>1. BinTypes /\ Opening
  <2>1. All("open")
    BY DEF Open
  <2> QED BY <2>1, Alone DEF BinInv
<1>2. /\ trlist' = [r \in Rank |-> <<>>]
      /\ pass' = [r \in Rank |-> Begin(Lnt(r), Max1, Most(Lnt))]
      /\ pc' = [r \in Rank |-> Goes(pass'[r], Lnt(r), "keys", "sort")]
      /\ UNCHANGED <<file, ixline, turn, crd, active, best, match, out>>
  BY DEF Open, Enter
<1>3. file \in Pairs /\ turn \in 1 .. 2
  BY <1>1 DEF BinTypes
<1>4. ASSUME NEW r \in Rank
      PROVE  /\ Lnt(r) \in Nat /\ pass'[r] \in Passes /\ pass'[r].i = 0
             /\ Least(pass'[r].i, Lnt(r)) = 0
             /\ pc'[r] \in {"keys", "sort"}
             /\ pc'[r] = "sort" => pass'[r].i >= Lnt(r)
  <2> DEFINE n == Lnt(r)
             m == Most(Lnt)
  <2>1. n \in Nat /\ m \in Nat /\ n <= m /\ Max1 \in Nat \ {0}
    BY <1>3, LntIs, MostOfLnt, BinChunks
  <2>2. pass'[r] = Begin(n, Max1, m)
    BY <1>2
  <2>4. pc'[r] = Goes(pass'[r], n, "keys", "sort")
    BY <1>2
  <2> HIDE DEF n, m
  <2>3. /\ pass'[r] \in Passes /\ pass'[r].i = 0 /\ Least(pass'[r].i, n) = 0
        /\ ~More(pass'[r], n) => pass'[r].i >= n
    BY <2>1, <2>2, PassBegins
  <2> QED BY <2>1, <2>3, <2>4 DEF Goes, n
<1>5. BinTypes'
  <2>1. pass' \in [Rank -> Passes]
    BY <1>2, <1>4
  <2>2. pc' \in [Rank -> BinStep]
    BY <1>2, <1>4 DEF BinStep
  <2>3. trlist' \in [Rank -> Seq(Nat)]
    BY <1>2
  <2> QED BY <1>1, <1>2, <2>1, <2>2, <2>3 DEF BinTypes
<1>6. ASSUME NEW r \in Rank
      PROVE  InSequence(r)'
  <2>1. Lnt(r)' = Lnt(r) /\ Nt' = Nt
    BY <1>2, SameFiles
  <2> DEFINE s == [k \in 1 .. Least(pass'[r].i, Lnt(r)) |-> First(Nt, r) + k - 1]
  <2>2. s = <<>>
    <3>1. s = [k \in 1 .. 0 |-> s[k]]
      BY <1>4
    <3> HIDE DEF s
    <3> QED BY <3>1, EmptyRun
  <2>3. trlist'[r] = s
    BY <1>2, <2>2
  <2>4. trlist'[r] = [k \in 1 .. Least(pass'[r].i, Lnt(r)') |-> First(Nt', r) + k - 1]
    BY <2>1, <2>3
  <2> QED BY <1>4, <2>1, <2>4 DEF InSequence, Through
<1>7. Keying'
  <2>1. Within({"keys", "sort"})'
    BY <1>4 DEF Within
  <2>2. Unread(turn)' /\ Unread(2)' /\ NoOut'
    BY <1>1, <1>2 DEF Opening, Unread, NoOut
  <2>3. ReadBefore'
    BY <1>1, <1>2, CompleteStays DEF Opening, ReadBefore
  <2> QED BY <1>6, <2>1, <2>2, <2>3 DEF Keying
<1> QED BY <1>5, <1>7 DEF BinInv

LEMMA ReadKeysStep == BinInv /\ ReadKeys => BinInv'
<1> SUFFICES ASSUME BinInv, ReadKeys PROVE BinInv'
  OBVIOUS
<1>1. BinTypes /\ Keying
  <2>1. All("keys")
    BY DEF ReadKeys
  <2> QED BY <2>1, Alone DEF BinInv
<1>2. /\ trlist' = [r \in Rank |->
           trlist[r] \o [j \in 1 .. Chunk(pass[r], Lnt(r), Max1) |->
                           First(Nt, r) + pass[r].i + j - 1]]
      /\ pass' = [r \in Rank |-> Advance(pass[r], Lnt(r), Max1)]
      /\ pc' = [r \in Rank |-> Goes(pass'[r], Lnt(r), "keys", "sort")]
      /\ UNCHANGED <<file, ixline, turn, crd, active, best, match, out>>
  BY DEF ReadKeys, Onward
<1>3. file \in Pairs /\ turn \in 1 .. 2
  BY <1>1 DEF BinTypes
<1>4. ASSUME NEW r \in Rank
      PROVE  /\ pass'[r] \in Passes
             /\ pc'[r] \in {"keys", "sort"}
             /\ pc'[r] = "sort" => pass'[r].i >= Lnt(r)
             /\ trlist'[r] \in Seq(Nat)
             /\ trlist'[r] = [k \in 1 .. Least(pass'[r].i, Lnt(r)) |-> First(Nt, r) + k - 1]
  <2> DEFINE n == Lnt(r)
             a == First(Nt, r)
             p == pass[r]
             c == Chunk(p, n, Max1)
             l == Least(p.i, n)
             F == [k \in 1 .. n |-> a + k - 1]
             t == [j \in 1 .. c |-> a + p.i + j - 1]
  <2>1. n \in Nat /\ Max1 \in Nat \ {0} /\ a \in Nat
    <3>1. Nt \in Nat /\ n \in Nat
      BY <1>3, LntIs
    <3> QED BY <3>1, BinChunks, ShareIs
  <2>2. p \in Passes
    BY <1>1 DEF BinTypes
  <2>3. pass'[r] = Advance(p, n, Max1)
    BY <1>2
  <2>4. pc'[r] = Goes(pass'[r], n, "keys", "sort")
    BY <1>2
  <2>5. trlist'[r] = trlist[r] \o t
    BY <1>2
  <2>6. trlist[r] = [k \in 1 .. l |-> a + k - 1]
    BY <1>1 DEF Keying, InSequence
  <2> HIDE DEF n, a, p
  <2>7. /\ p.i \in Nat /\ c \in Nat /\ pass'[r] \in Passes /\ l \in Nat /\ l <= n
        /\ l + c = Least(pass'[r].i, n)
        /\ c > 0 => l = p.i
        /\ ~More(pass'[r], n) => pass'[r].i >= n
    BY <2>1, <2>2, <2>3, PassStep
  <2>8. Least(pass'[r].i, n) <= n /\ Least(pass'[r].i, n) \in Nat
    BY <2>1, <2>7, PassStep
  <2> HIDE DEF c, l
  <2>9. F \in [1 .. n -> Nat]
    BY <2>1
  <2>10. trlist[r] = [k \in 1 .. l |-> F[k]]
    <3>1. \A k \in 1 .. l : k \in 1 .. n
      BY <2>1, <2>7
    <3> QED BY <2>6, <3>1
  <2>11. t = [j \in 1 .. c |-> F[l + j]]
    <3>1. ASSUME NEW j \in 1 .. c
          PROVE  a + p.i + j - 1 = F[l + j]
      <4>1. l = p.i /\ l + j \in 1 .. n
        BY <2>1, <2>7, <2>8
      <4>2. F[l + j] = a + (l + j) - 1
        BY <4>1
      <4>3. a + p.i + j - 1 = a + (l + j) - 1
        BY <2>1, <2>7, <4>1
      <4> QED BY <4>2, <4>3
    <3> HIDE DEF F
    <3> QED BY <3>1
  <2>12. \A k \in 1 .. l + c : F[k] = a + k - 1
    BY <2>1, <2>7, <2>8
  <2> HIDE DEF F, t
  <2>13. l + c <= n
    BY <2>7, <2>8
  <2>14. /\ trlist[r] \o t = [k \in 1 .. l + c |-> F[k]] /\ trlist[r] \o t \in Seq(Nat)
    <3>1. FrontOf(F, l, trlist[r]) /\ NextOf(F, l, c, t)
      BY <2>10, <2>11 DEF FrontOf, NextOf
    <3>2. FrontOf(F, l + c, trlist[r] \o t) /\ trlist[r] \o t \in Seq(Nat)
      BY <2>1, <2>7, <2>9, <2>13, <3>1, Continued
    <3> QED BY <3>2 DEF FrontOf
  <2>15. trlist'[r] = [k \in 1 .. Least(pass'[r].i, n) |-> a + k - 1]
    BY <2>5, <2>7, <2>12, <2>14
  <2> QED BY <2>4, <2>5, <2>7, <2>14, <2>15 DEF Goes, n, a
<1>5. BinTypes'
  <2>1. pass' \in [Rank -> Passes]
    BY <1>2, <1>4
  <2>2. pc' \in [Rank -> BinStep]
    BY <1>2, <1>4 DEF BinStep
  <2>3. trlist' \in [Rank -> Seq(Nat)]
    BY <1>2, <1>4
  <2> QED BY <1>1, <1>2, <2>1, <2>2, <2>3 DEF BinTypes
<1>6. ASSUME NEW r \in Rank
      PROVE  InSequence(r)'
  <2>1. Lnt(r)' = Lnt(r) /\ Nt' = Nt
    BY <1>2, SameFiles
  <2>2. trlist'[r] = [k \in 1 .. Least(pass'[r].i, Lnt(r)') |-> First(Nt', r) + k - 1]
    BY <1>4, <2>1
  <2> QED BY <1>4, <2>1, <2>2 DEF InSequence, Through
<1>7. Keying'
  <2>1. Within({"keys", "sort"})'
    BY <1>4 DEF Within
  <2>2. Unread(turn)' /\ Unread(2)' /\ NoOut'
    BY <1>1, <1>2 DEF Keying, Unread, NoOut
  <2>3. ReadBefore'
    BY <1>1, <1>2, CompleteStays DEF Keying, ReadBefore
  <2> QED BY <1>6, <2>1, <2>2, <2>3 DEF Keying
<1> QED BY <1>5, <1>7 DEF BinInv

\* When all keys are read, the lists have the numbers of all traces.
LEMMA AllListed ==
  ASSUME BinTypes, \A r \in Rank : InSequence(r), All("sort")
  PROVE  UNION {Range(trlist[r]) : r \in Rank} = Numbers(turn)
<1>1. file \in Pairs /\ turn \in 1 .. 2 /\ pass \in [Rank -> Passes]
  BY DEF BinTypes
<1>2. Nt \in Nat /\ Numbers(turn) = 0 .. Nt - 1
  BY <1>1, LntIs, SomeRank
<1>3. ASSUME NEW r \in Rank
      PROVE  /\ trlist[r] = [k \in 1 .. Lnt(r) |-> First(Nt, r) + k - 1]
             /\ Lnt(r) \in Nat /\ First(Nt, r) \in Nat /\ First(Nt, r) + Lnt(r) <= Nt
  <2>1. Lnt(r) \in Nat /\ pass[r].i \in Nat
    BY <1>1, LntIs DEF Passes
  <2>2. pass[r].i >= Lnt(r)
    BY DEF InSequence, Through, All
  <2>3. Least(pass[r].i, Lnt(r)) = Lnt(r)
    BY <2>1, <2>2 DEF Least
  <2>4. First(Nt, r) \in Nat /\ First(Nt, r) + Lnt(r) <= Nt
    BY <1>2, ShareIs DEF Lnt
  <2> QED BY <2>1, <2>3, <2>4 DEF InSequence
<1>4. ASSUME NEW r \in Rank, NEW e \in Range(trlist[r])
      PROVE  e \in Numbers(turn)
  <2> DEFINE n == Lnt(r)
             a == First(Nt, r)
  <2>1. PICK k \in 1 .. n : e = a + k - 1
    BY <1>3 DEF Range
  <2>2. n \in Nat /\ a \in Nat /\ a + n <= Nt
    BY <1>3
  <2> HIDE DEF n, a
  <2> QED BY <1>2, <2>1, <2>2
<1>5. ASSUME NEW e \in Numbers(turn)
      PROVE  \E r \in Rank : e \in Range(trlist[r])
  <2>1. PICK r \in Rank : Owns(Nt, r, e)
    BY <1>2, OneOwner
  <2> DEFINE n == Lnt(r)
             a == First(Nt, r)
             k == e - a + 1
  <2>2. n \in Nat /\ a \in Nat /\ trlist[r] = [j \in 1 .. n |-> a + j - 1]
    BY <1>3
  <2>3. a <= e /\ e < a + n
    BY <2>1 DEF Owns, Lnt
  <2> HIDE DEF n, a
  <2>4. k \in 1 .. n /\ a + k - 1 = e
    BY <1>2, <2>2, <2>3
  <2> HIDE DEF k
  <2>5. e = trlist[r][k] /\ k \in DOMAIN trlist[r]
    BY <2>2, <2>4
  <2> QED BY <2>5 DEF Range
<1> QED BY <1>4, <1>5

\* What Below gives to the sort is an order of all traces.
BelowIs(low) == low = [e \in Numbers(turn) |-> {d \in Numbers(turn) : Below(d, e)}]

LEMMA BelowOrders ==
  ASSUME file \in Pairs, turn \in 1 .. 2, NEW low, BelowIs(low)
  PROVE  /\ low \in [Numbers(turn) -> SUBSET Numbers(turn)]
         /\ StrictOrder(Numbers(turn), low)
         /\ \A d, e \in Numbers(turn) : d \in low[e] => Src(turn, d).xs <= Src(turn, e).xs
<1> DEFINE T == Numbers(turn)
           x(n) == Src(turn, n).xs
<1>1. \A n \in T : x(n) \in Int /\ n \in Int
  BY SrcIs
<1>2. \A d, e \in T : d \in low[e] <=> x(d) < x(e) \/ (x(d) = x(e) /\ d < e)
  BY DEF BelowIs, Below, Src
<1>3. low \in [T -> SUBSET T]
  BY DEF BelowIs
<1> HIDE DEF x, T
<1>4. \A e \in T : e \notin low[e]
  BY <1>1, <1>2
<1>5. ASSUME NEW c \in T, NEW d \in T, NEW e \in T, c \in low[d], d \in low[e]
      PROVE  c \in low[e]
  <2>1. x(c) \in Int /\ x(d) \in Int /\ x(e) \in Int /\ c \in Int /\ d \in Int /\ e \in Int
    BY <1>1
  <2>2. x(c) < x(d) \/ (x(c) = x(d) /\ c < d)
    BY <1>2, <1>5
  <2>3. x(d) < x(e) \/ (x(d) = x(e) /\ d < e)
    BY <1>2, <1>5
  <2>4. x(c) < x(e) \/ (x(c) = x(e) /\ c < e)
    BY <2>1, <2>2, <2>3
  <2> QED BY <1>2, <2>4
<1>6. ASSUME NEW d \in T, NEW e \in T
      PROVE  d = e \/ d \in low[e] \/ e \in low[d]
  <2>1. x(d) \in Int /\ x(e) \in Int /\ d \in Int /\ e \in Int
    BY <1>1
  <2>2. d = e \/ (x(d) < x(e) \/ (x(d) = x(e) /\ d < e)) \/ (x(e) < x(d) \/ (x(e) = x(d) /\ e < d))
    BY <2>1
  <2> QED BY <1>2, <2>2
<1>7. \A d, e \in T : d \in low[e] => x(d) <= x(e)
  BY <1>1, <1>2
<1>8. StrictOrder(T, low)
  BY <1>4, <1>5, <1>6 DEF StrictOrder
<1> QED BY <1>3, <1>7, <1>8 DEF x, T

LEMMA SortedList ==
  ASSUME file \in Pairs, turn \in 1 .. 2,
         NEW sorted, sorted = InOrder(Numbers(turn), Below)
  PROVE  /\ sorted \in Seq(Numbers(turn)) /\ Len(sorted) = Nt
         /\ \A j, k \in 1 .. Nt : /\ j < k => Src(turn, sorted[j]).xs <= Src(turn, sorted[k]).xs
                                  /\ sorted[j] = sorted[k] => j = k
<1> DEFINE T == Numbers(turn)
           low == [e \in T |-> {d \in T : Below(d, e)}]
<1>1. Nt \in Nat /\ T = 0 .. Nt - 1
  BY LntIs, SomeRank
<1>2. IsFiniteSet(T) /\ Cardinality(T) = Nt
  <2>1. Nt - 1 \in Int /\ 0 \in Int
    BY <1>1
  <2>2. /\ IsFiniteSet(0 .. Nt - 1)
        /\ Cardinality(0 .. Nt - 1) = IF 0 > Nt - 1 THEN 0 ELSE (Nt - 1) - 0 + 1
    BY <2>1, FS_Interval
  <2>3. Cardinality(0 .. Nt - 1) = Nt
    BY <1>1, <2>2
  <2> QED BY <1>1, <2>2, <2>3
<1>3. BelowIs(low)
  BY DEF BelowIs
<1>4. sorted = [k \in 1 .. Cardinality(T) |->
                  CHOOSE e \in T : Cardinality({d \in T : Below(d, e)}) = k - 1]
  BY DEF InOrder
<1>5. \A e \in T : low[e] = {d \in T : Below(d, e)}
  OBVIOUS
<1> HIDE DEF T, low
<1>6. /\ low \in [T -> SUBSET T] /\ StrictOrder(T, low)
      /\ \A d, e \in T : d \in low[e] => Src(turn, d).xs <= Src(turn, e).xs
  BY <1>3, BelowOrders DEF T
<1>7. sorted = [k \in 1 .. Cardinality(T) |-> sorted[k]]
  BY <1>4
<1>8. ASSUME NEW k \in 1 .. Cardinality(T), \E e \in T : Cardinality(low[e]) = k - 1
      PROVE  sorted[k] \in T /\ Cardinality(low[sorted[k]]) = k - 1
  <2>1. \E e \in T : Cardinality({d \in T : Below(d, e)}) = k - 1
    BY <1>5, <1>8
  <2>2. sorted[k] = CHOOSE e \in T : Cardinality({d \in T : Below(d, e)}) = k - 1
    BY <1>4
  <2>3. sorted[k] \in T /\ Cardinality({d \in T : Below(d, sorted[k])}) = k - 1
    BY <2>1, <2>2
  <2> QED BY <1>5, <2>3
<1>9. Ordering(sorted, T, low)
  BY <1>2, <1>6, <1>7, <1>8, OrderedBy
<1>10. sorted \in Seq(T) /\ Len(sorted) = Nt
  BY <1>2, <1>9 DEF Ordering
<1>11. ASSUME NEW j \in 1 .. Nt, NEW k \in 1 .. Nt
       PROVE  /\ j < k => Src(turn, sorted[j]).xs <= Src(turn, sorted[k]).xs
              /\ sorted[j] = sorted[k] => j = k
  <2>1. sorted[j] \in T /\ sorted[k] \in T
    BY <1>1, <1>10, ElementOfSeq
  <2> QED BY <1>2, <1>6, <1>9, <2>1 DEF Ordering
<1> QED BY <1>10, <1>11 DEF T

LEMMA SortStep == BinInv /\ Sort => BinInv'
<1> SUFFICES ASSUME BinInv, Sort PROVE BinInv'
  OBVIOUS
<1>1. BinTypes /\ Keying /\ All("sort")
  <2>1. All("sort")
    BY DEF Sort
  <2> QED BY <2>1, Alone DEF BinInv
<1>3. file \in Pairs /\ turn \in 1 .. 2
  BY <1>1 DEF BinTypes
<1> DEFINE sorted == InOrder(Numbers(turn), Below)
<1>4. UNION {Range(trlist[r]) : r \in Rank} = Numbers(turn)
  BY <1>1, AllListed DEF Keying
<1>2. /\ trlist' = [r \in Rank |-> SubSeq(sorted, First(Nt, r) + 1, First(Nt, r) + Lnt(r))]
      /\ pass' = [r \in Rank |-> Begin(Lnt(r), Max1, Most(Lnt))]
      /\ pc' = [r \in Rank |-> Goes(pass'[r], Lnt(r), "coords", "read")]
      /\ UNCHANGED <<file, ixline, turn, crd, active, best, match, out>>
  BY <1>4 DEF Sort
<1>5. /\ sorted \in Seq(Numbers(turn)) /\ Len(sorted) = Nt
      /\ \A j, k \in 1 .. Nt : /\ j < k => Src(turn, sorted[j]).xs <= Src(turn, sorted[k]).xs
                               /\ sorted[j] = sorted[k] => j = k
  BY <1>3, SortedList
<1> HIDE DEF sorted
<1>6. ASSUME NEW r \in Rank
      PROVE  /\ Lnt(r) \in Nat /\ pass'[r] \in Passes /\ Least(pass'[r].i, Lnt(r)) = 0
             /\ pc'[r] \in {"coords", "read"}
             /\ pc'[r] = "read" => pass'[r].i >= Lnt(r)
  <2> DEFINE n == Lnt(r)
             m == Most(Lnt)
  <2>1. n \in Nat /\ m \in Nat /\ n <= m /\ Max1 \in Nat \ {0}
    BY <1>3, LntIs, MostOfLnt, BinChunks
  <2>2. pass'[r] = Begin(n, Max1, m)
    BY <1>2
  <2>4. pc'[r] = Goes(pass'[r], n, "coords", "read")
    BY <1>2
  <2> HIDE DEF n, m
  <2>3. /\ pass'[r] \in Passes /\ pass'[r].i = 0 /\ Least(pass'[r].i, n) = 0
        /\ ~More(pass'[r], n) => pass'[r].i >= n
    BY <2>1, <2>2, PassBegins
  <2> QED BY <2>1, <2>3, <2>4 DEF Goes, n
<1>7. ASSUME NEW r \in Rank
      PROVE  /\ trlist'[r] \in Seq(Numbers(turn)) /\ Len(trlist'[r]) = Lnt(r)
             /\ \A k \in 1 .. Lnt(r) : /\ trlist'[r][k] = sorted[First(Nt, r) + k]
                                       /\ First(Nt, r) + k \in 1 .. Nt
             /\ First(Nt, r) \in Nat /\ Lnt(r) \in Nat
  <2> DEFINE n == Lnt(r)
             a == First(Nt, r)
  <2>1. n \in Nat /\ a \in Nat /\ a + n <= Nt /\ Nt \in Nat
    BY <1>3, LntIs, ShareIs DEF Lnt
  <2>2. trlist'[r] = SubSeq(sorted, a + 1, a + n)
    BY <1>2
  <2> HIDE DEF n, a
  <2>3. \A i \in a + 1 .. a + n : sorted[i] \in Numbers(turn)
    <3>1. \A i \in a + 1 .. a + n : i \in 1 .. Len(sorted)
      BY <1>5, <2>1
    <3> QED BY <1>5, <3>1, ElementOfSeq
  <2>4. a + 1 \in Int /\ a + n \in Int
    BY <2>1
  <2>5. /\ SubSeq(sorted, a + 1, a + n) \in Seq(Numbers(turn))
        /\ Len(SubSeq(sorted, a + 1, a + n)) =
             IF a + 1 <= a + n THEN (a + n) - (a + 1) + 1 ELSE 0
        /\ \A i \in 1 .. (a + n) - (a + 1) + 1 :
             SubSeq(sorted, a + 1, a + n)[i] = sorted[(a + 1) + i - 1]
    BY <2>3, <2>4, SubSeqProperties
  <2>6. Len(trlist'[r]) = n /\ (a + n) - (a + 1) + 1 = n
    BY <2>1, <2>2, <2>5
  <2>7. ASSUME NEW k \in 1 .. n
        PROVE  trlist'[r][k] = sorted[a + k] /\ a + k \in 1 .. Nt
    <3>1. (a + 1) + k - 1 = a + k /\ a + k \in 1 .. Nt
      BY <2>1
    <3> QED BY <2>2, <2>5, <2>6, <3>1
  <2> QED BY <2>1, <2>2, <2>5, <2>6, <2>7 DEF n, a
<1>8. BinTypes'
  <2>1. pass' \in [Rank -> Passes]
    BY <1>2, <1>6
  <2>2. pc' \in [Rank -> BinStep]
    BY <1>2, <1>6 DEF BinStep
  <2>3. trlist' \in [Rank -> Seq(Nat)]
    <3>1. \A r \in Rank : trlist'[r] \in Seq(Nat)
      BY <1>3, <1>7, LntIs, SeqMonotonic
    <3> QED BY <1>2, <3>1
  <2> QED BY <1>1, <1>2, <2>1, <2>2, <2>3 DEF BinTypes
<1>9. /\ Nt' = Nt /\ Numbers(turn)' = Numbers(turn) /\ \A r \in Rank : Lnt(r)' = Lnt(r)
      /\ \A n : Src(turn, n)' = Src(turn, n) /\ Entry(turn, n)' = Entry(turn, n)
  BY <1>2, SameFiles
<1>10. Sorted'
  <2>1. ASSUME NEW r \in Rank
        PROVE  /\ trlist'[r] \in [1 .. Lnt(r) -> Numbers(turn)]
               /\ \A j, k \in 1 .. Lnt(r) :
                    j < k => Src(turn, trlist'[r][j]).xs <= Src(turn, trlist'[r][k]).xs
    <3> DEFINE n == Lnt(r)
               a == First(Nt, r)
    <3>1. trlist'[r] \in [1 .. n -> Numbers(turn)]
      BY <1>7, LenProperties
    <3>2. ASSUME NEW j \in 1 .. n, NEW k \in 1 .. n, j < k
          PROVE  Src(turn, trlist'[r][j]).xs <= Src(turn, trlist'[r][k]).xs
      <4>1. /\ trlist'[r][j] = sorted[a + j] /\ a + j \in 1 .. Nt
            /\ trlist'[r][k] = sorted[a + k] /\ a + k \in 1 .. Nt /\ a \in Nat /\ n \in Nat
        BY <1>7
      <4> HIDE DEF n, a
      <4>2. a + j < a + k
        BY <3>2, <4>1
      <4> QED BY <1>5, <4>1, <4>2
    <3> QED BY <3>1, <3>2
  <2>2. ASSUME NEW r \in Rank, NEW s \in Rank, NEW j \in 1 .. Lnt(r), NEW k \in 1 .. Lnt(s),
               trlist'[r][j] = trlist'[s][k]
        PROVE  r = s /\ j = k
    <3> DEFINE n == Lnt(r)
               a == First(Nt, r)
               m == Lnt(s)
               b == First(Nt, s)
    <3>1. /\ trlist'[r][j] = sorted[a + j] /\ a + j \in 1 .. Nt
          /\ trlist'[s][k] = sorted[b + k] /\ b + k \in 1 .. Nt
          /\ a \in Nat /\ n \in Nat /\ b \in Nat /\ m \in Nat
      BY <1>7
    <3>2. a + j = b + k
      BY <1>5, <2>2, <3>1
    <3>3. Nt \in Nat
      BY <1>3, LntIs
    <3>4. (r < s => a + n <= b) /\ (s < r => b + m <= a)
      BY <3>3, LaterBlocks DEF Lnt
    <3>5. r \in Nat /\ s \in Nat
      BY SomeRank
    <3>6. j \in 1 .. n /\ k \in 1 .. m
      OBVIOUS
    <3>7. r = s => a = b
      OBVIOUS
    <3> HIDE DEF n, a, m, b
    <3>8. r = s
      BY <3>1, <3>2, <3>4, <3>5, <3>6
    <3> QED BY <3>1, <3>2, <3>6, <3>7, <3>8
  <2>3. \A r, k : Src(turn, trlist[r][k])' = Src(turn, trlist'[r][k])
    BY <1>2 DEF Src
  <2>4. /\ \A r \in Rank :
             /\ trlist'[r] \in [1 .. Lnt(r)' -> Numbers(turn)']
             /\ \A j, k \in 1 .. Lnt(r)' :
                  j < k => Src(turn, trlist[r][j])'.xs <= Src(turn, trlist[r][k])'.xs
        /\ \A r, s \in Rank : \A j \in 1 .. Lnt(r)', k \in 1 .. Lnt(s)' :
             trlist'[r][j] = trlist'[s][k] => r = s /\ j = k
    BY <1>9, <2>1, <2>2, <2>3
  <2> QED BY <2>4 DEF Sorted
<1>11. ASSUME NEW r \in Rank
       PROVE  Filled(r)'
  <2> DEFINE s == [k \in 1 .. Least(pass'[r].i, Lnt(r)) |-> Entry(turn, trlist'[r][k])]
  <2>1. s = <<>>
    <3>1. s = [k \in 1 .. 0 |-> s[k]]
      BY <1>6
    <3> HIDE DEF s
    <3> QED BY <3>1, EmptyRun
  <2>2. crd'[turn'][r] = s
    BY <1>1, <1>2, <2>1 DEF Keying, Unread
  <2>3. s = [k \in 1 .. Least(pass'[r].i, Lnt(r)') |-> Entry(turn, trlist[r][k])']
    <3>1. \A k : Entry(turn, trlist[r][k])' = Entry(turn, trlist'[r][k])
      BY <1>2 DEF Entry, Src
    <3> QED BY <1>9, <3>1
  <2> QED BY <1>6, <1>9, <2>2, <2>3 DEF Filled, Through
<1>12. Listing'
  <2>1. Within({"coords", "read"})'
    BY <1>6 DEF Within
  <2>2. Unread(2)' /\ NoOut'
    BY <1>1, <1>2 DEF Keying, Unread, NoOut
  <2>3. ReadBefore'
    BY <1>1, <1>2, CompleteStays DEF Keying, ReadBefore
  <2> QED BY <1>10, <1>11, <2>1, <2>2, <2>3 DEF Listing
<1> QED BY <1>8, <1>12 DEF BinInv

(***************************************************************************)
(* A chunk of the list comes back in the order of the list, though it is   *)
(* read in ascending order.                                                *)
(***************************************************************************)
ReadOrder(orig, c, chunk) ==
  orig = [k \in 1 .. Cardinality(1 .. c) |->
            CHOOSE e \in 1 .. c : Cardinality({d \in 1 .. c : chunk[d] < chunk[e]}) = k - 1]

LEMMA Readings ==
  ASSUME NEW c \in Nat, NEW chunk \in [1 .. c -> Nat],
         \A j, k \in 1 .. c : chunk[j] = chunk[k] => j = k,
         NEW orig, ReadOrder(orig, c, chunk)
  PROVE  /\ orig \in [1 .. c -> 1 .. c]
         /\ \A e \in 1 .. c : \E k \in 1 .. c : orig[k] = e
<1> DEFINE T == 1 .. c
           low == [e \in T |-> {d \in T : chunk[d] < chunk[e]}]
<1>1. IsFiniteSet(T) /\ Cardinality(T) = c
  <2>1. 1 \in Int /\ c \in Int
    OBVIOUS
  <2>2. IsFiniteSet(1 .. c) /\ Cardinality(1 .. c) = IF 1 > c THEN 0 ELSE c - 1 + 1
    BY <2>1, FS_Interval
  <2> QED BY <2>2
<1>2. \A e \in T : chunk[e] \in Nat
  OBVIOUS
<1>3. \A d, e \in T : d \in low[e] <=> chunk[d] < chunk[e]
  OBVIOUS
<1>4. \A e \in T : low[e] = {d \in T : chunk[d] < chunk[e]}
  OBVIOUS
<1>5. low \in [T -> SUBSET T]
  OBVIOUS
<1>6. \A d, e \in T : chunk[d] = chunk[e] => d = e
  OBVIOUS
<1>7. orig = [k \in 1 .. Cardinality(T) |->
                CHOOSE e \in T : Cardinality({d \in T : chunk[d] < chunk[e]}) = k - 1]
  BY DEF ReadOrder
<1> HIDE DEF T, low
<1>8. StrictOrder(T, low)
  <2>1. \A e \in T : e \notin low[e]
    BY <1>2, <1>3
  <2>2. \A d, e, f \in T : d \in low[e] /\ e \in low[f] => d \in low[f]
    BY <1>2, <1>3
  <2>3. ASSUME NEW d \in T, NEW e \in T
        PROVE  d = e \/ d \in low[e] \/ e \in low[d]
    <3>1. chunk[d] \in Nat /\ chunk[e] \in Nat
      BY <1>2
    <3>2. chunk[d] = chunk[e] \/ chunk[d] < chunk[e] \/ chunk[e] < chunk[d]
      BY <3>1
    <3> QED BY <3>2, <1>3, <1>6
  <2> QED BY <2>1, <2>2, <2>3 DEF StrictOrder
<1>9. orig = [k \in 1 .. Cardinality(T) |-> orig[k]]
  BY <1>7
<1>10. ASSUME NEW k \in 1 .. Cardinality(T), \E e \in T : Cardinality(low[e]) = k - 1
       PROVE  orig[k] \in T /\ Cardinality(low[orig[k]]) = k - 1
  <2>1. \E e \in T : Cardinality({d \in T : chunk[d] < chunk[e]}) = k - 1
    BY <1>4, <1>10
  <2>2. orig[k] = CHOOSE e \in T : Cardinality({d \in T : chunk[d] < chunk[e]}) = k - 1
    BY <1>7
  <2>3. orig[k] \in T /\ Cardinality({d \in T : chunk[d] < chunk[orig[k]]}) = k - 1
    BY <2>1, <2>2
  <2> QED BY <1>4, <2>3
<1>11. Ordering(orig, T, low)
  BY <1>1, <1>5, <1>8, <1>9, <1>10, OrderedBy
<1>12. orig \in Seq(T) /\ Len(orig) = c /\ \A e \in T : \E k \in 1 .. c : orig[k] = e
  BY <1>1, <1>11 DEF Ordering
<1> QED BY <1>12, LenProperties DEF T

LEMMA FetchedIs ==
  ASSUME file \in Pairs, turn \in 1 .. 2,
         NEW c \in Nat, NEW chunk \in [1 .. c -> Numbers(turn)],
         \A j, k \in 1 .. c : chunk[j] = chunk[k] => j = k
  PROVE  Fetched(chunk) = [k \in 1 .. c |-> Entry(turn, chunk[k])]
<1>1. DOMAIN chunk = 1 .. c /\ chunk \in [1 .. c -> Nat]
  BY LntIs, SomeRank
<1> DEFINE orig == [k \in 1 .. Cardinality(1 .. c) |->
                      CHOOSE e \in 1 .. c : Cardinality({d \in 1 .. c : chunk[d] < chunk[e]}) = k - 1]
           read == [j \in 1 .. c |-> file[turn][chunk[orig[j]] + 1]]
           from(k) == CHOOSE j \in 1 .. c : orig[j] = k
<1>2. Fetched(chunk) = [k \in 1 .. c |->
         [tn |-> chunk[k], xs |-> read[from(k)].xs, xr |-> read[from(k)].xr,
          line |-> read[from(k)].line]]
  BY <1>1 DEF Fetched, InOrder, Placed
<1>3. /\ orig \in [1 .. c -> 1 .. c]
      /\ \A e \in 1 .. c : \E k \in 1 .. c : orig[k] = e
  <2>1. ReadOrder(orig, c, chunk)
    BY DEF ReadOrder
  <2>2. chunk \in [1 .. c -> Nat]
    BY <1>1
  <2> HIDE DEF orig
  <2> QED BY <2>1, <2>2, Readings
<1> HIDE DEF orig
<1>4. ASSUME NEW k \in 1 .. c
      PROVE  read[from(k)] = Src(turn, chunk[k])
  <2>1. from(k) \in 1 .. c /\ orig[from(k)] = k
    BY <1>3
  <2> HIDE DEF from
  <2> QED BY <2>1 DEF Src
<1> HIDE DEF read, from
<1> QED BY <1>2, <1>4 DEF Entry

LEMMA ReadCoordsStep == BinInv /\ ReadCoords => BinInv'
<1> SUFFICES ASSUME BinInv, ReadCoords PROVE BinInv'
  OBVIOUS
<1>1. BinTypes /\ Listing /\ All("coords")
  <2>1. All("coords")
    BY DEF ReadCoords
  <2> QED BY <2>1, Alone DEF BinInv
<1> DEFINE unit(r) == [j \in 1 .. Cardinality(Units(r, Lnt(r), Max2)) |-> trlist[r][pass[r].i + j]]
<1>2. /\ crd' = [crd EXCEPT ![turn] = [r \in Rank |-> crd[turn][r] \o Fetched(unit(r))]]
      /\ pass' = [r \in Rank |-> Advance(pass[r], Lnt(r), Max2)]
      /\ pc' = [r \in Rank |-> Goes(pass'[r], Lnt(r), "coords", "read")]
      /\ UNCHANGED <<file, ixline, turn, trlist, active, best, match, out>>
  BY DEF ReadCoords, Onward
<1>3. file \in Pairs /\ turn \in 1 .. 2 /\ pass \in [Rank -> Passes]
      /\ crd \in [1 .. 2 -> [Rank -> Seq(Coord)]]
  BY <1>1 DEF BinTypes
<1>4. /\ crd'[turn] = [r \in Rank |-> crd[turn][r] \o Fetched(unit(r))]
      /\ \A f \in 1 .. 2 : f # turn => crd'[f] = crd[f]
      /\ crd' = [f \in 1 .. 2 |-> crd'[f]]
  BY <1>2, <1>3
<1> HIDE DEF unit
<1>5. ASSUME NEW r \in Rank
      PROVE  /\ pass'[r] \in Passes
             /\ pc'[r] \in {"coords", "read"}
             /\ pc'[r] = "read" => pass'[r].i >= Lnt(r)
             /\ crd'[turn][r] \in Seq(Coord)
             /\ crd'[turn][r] = [k \in 1 .. Least(pass'[r].i, Lnt(r)) |-> Entry(turn, trlist[r][k])]
  <2> DEFINE n == Lnt(r)
             p == pass[r]
             c == Chunk(p, n, Max2)
             l == Least(p.i, n)
             u == unit(r)
             t == Fetched(u)
             s == crd[turn][r]
             F == [k \in 1 .. n |-> Entry(turn, trlist[r][k])]
  <2>1. n \in Nat /\ Max2 \in Nat \ {0} /\ p \in Passes
    BY <1>3, LntIs, BinChunks
  <2>3. pass'[r] = Advance(p, n, Max2)
    BY <1>2
  <2>4. pc'[r] = Goes(pass'[r], n, "coords", "read")
    BY <1>2
  <2>5. crd'[turn][r] = crd[turn][r] \o t
    BY <1>4
  <2>6. crd[turn][r] = [k \in 1 .. l |-> Entry(turn, trlist[r][k])]
    BY <1>1 DEF Listing, Filled
  <2>a. /\ trlist[r] \in [1 .. n -> Numbers(turn)]
        /\ \A j, k \in 1 .. n : trlist[r][j] = trlist[r][k] => j = k
    BY <1>1 DEF Listing, Sorted
  <2>b. /\ Units(r, n, Max2) = p.i + 1 .. p.i + c
        /\ u = [j \in 1 .. Cardinality(Units(r, n, Max2)) |-> trlist[r][p.i + j]]
    BY DEF Units, unit
  <2> HIDE DEF n, p, u
  <2>7. /\ p.i \in Nat /\ c \in Nat /\ pass'[r] \in Passes /\ l \in Nat /\ l <= n
        /\ l + c = Least(pass'[r].i, n)
        /\ c > 0 => l = p.i
        /\ ~More(pass'[r], n) => pass'[r].i >= n
    BY <2>1, <2>3, PassStep
  <2>8. Least(pass'[r].i, n) <= n /\ Least(pass'[r].i, n) \in Nat
    BY <2>1, <2>7, PassStep
  <2> HIDE DEF c, l
  <2>9. F \in [1 .. n -> Coord]
    <3>1. \A k \in 1 .. n : Entry(turn, trlist[r][k]) \in Coord
      BY <1>3, <2>a, SrcIs
    <3> QED BY <3>1
  <2>10. crd[turn][r] = [k \in 1 .. l |-> F[k]]
    <3>1. \A k \in 1 .. l : k \in 1 .. n
      BY <2>1, <2>7
    <3> QED BY <2>6, <3>1
  <2>11. Cardinality(Units(r, n, Max2)) = c
    <3>1. p.i + 1 \in Int /\ p.i + c \in Int
      BY <2>7
    <3>2. Cardinality(p.i + 1 .. p.i + c) =
            IF p.i + 1 > p.i + c THEN 0 ELSE (p.i + c) - (p.i + 1) + 1
      BY <3>1, FS_Interval
    <3>3. Cardinality(p.i + 1 .. p.i + c) = c
      BY <2>7, <3>2
    <3> QED BY <2>b, <3>3
  <2>12. ASSUME NEW j \in 1 .. c
         PROVE  /\ p.i + j = l + j /\ l + j \in 1 .. n
                /\ u[j] = trlist[r][l + j] /\ u[j] \in Numbers(turn)
                /\ F[l + j] = Entry(turn, u[j])
    <3>1. p.i = l /\ l + j \in 1 .. n
      BY <2>1, <2>7, <2>8
    <3>2. u[j] = trlist[r][p.i + j]
      BY <2>b, <2>11
    <3> QED BY <3>1, <3>2, <2>a
  <2>13. u \in [1 .. c -> Numbers(turn)]
    BY <2>b, <2>11, <2>12
  <2>14. ASSUME NEW j \in 1 .. c, NEW k \in 1 .. c, u[j] = u[k]
         PROVE  j = k
    <3>1. l + j = l + k
      BY <2>a, <2>12, <2>14
    <3> QED BY <3>1, <2>7
  <2>15. t = [j \in 1 .. c |-> Entry(turn, u[j])]
    BY <1>3, <2>7, <2>13, <2>14, FetchedIs
  <2>16. t = [j \in 1 .. c |-> F[l + j]]
    BY <2>12, <2>15
  <2>17. \A k \in 1 .. l + c : F[k] = Entry(turn, trlist[r][k])
    BY <2>1, <2>7, <2>8
  <2>18. l + c <= n
    BY <2>7, <2>8
  <2>22. s = [k \in 1 .. l |-> F[k]] /\ crd'[turn][r] = s \o t
    BY <2>5, <2>10
  <2> HIDE DEF F, t, s
  <2>19. /\ s \o t = [k \in 1 .. l + c |-> F[k]] /\ s \o t \in Seq(Coord)
    <3>1. n \in Nat /\ l \in Nat /\ c \in Nat
      BY <2>1, <2>7
    <3>2. FrontOf(F, l, s) /\ NextOf(F, l, c, t)
      BY <2>16, <2>22 DEF FrontOf, NextOf
    <3>3. FrontOf(F, l + c, s \o t) /\ s \o t \in Seq(Coord)
      BY <3>1, <3>2, <2>9, <2>18, Continued
    <3> QED BY <3>3 DEF FrontOf
  <2>20. crd'[turn][r] = [k \in 1 .. Least(pass'[r].i, n) |-> Entry(turn, trlist[r][k])]
    BY <2>7, <2>17, <2>19, <2>22
  <2> QED BY <2>4, <2>7, <2>19, <2>20, <2>22 DEF Goes, n
<1>6. BinTypes'
  <2>1. pass' \in [Rank -> Passes]
    BY <1>2, <1>5
  <2>2. pc' \in [Rank -> BinStep]
    BY <1>2, <1>5 DEF BinStep
  <2>3. crd' \in [1 .. 2 -> [Rank -> Seq(Coord)]]
    <3>1. crd'[turn] \in [Rank -> Seq(Coord)]
      BY <1>4, <1>5
    <3> QED BY <1>3, <1>4, <3>1
  <2> QED BY <1>1, <1>2, <2>1, <2>2, <2>3 DEF BinTypes
<1>7. /\ Nt' = Nt /\ Numbers(turn)' = Numbers(turn) /\ \A r \in Rank : Lnt(r)' = Lnt(r)
      /\ \A r, k : /\ Src(turn, trlist[r][k])' = Src(turn, trlist[r][k])
                   /\ Entry(turn, trlist[r][k])' = Entry(turn, trlist[r][k])
  BY <1>2, SameFiles
<1>8. Sorted'
  BY <1>1, <1>2, <1>7 DEF Listing, Sorted
<1>9. ASSUME NEW r \in Rank
      PROVE  Filled(r)'
  <2>1. crd'[turn'][r] =
          [k \in 1 .. Least(pass'[r].i, Lnt(r)') |-> Entry(turn, trlist[r][k])']
    <3>1. turn' = turn /\ Lnt(r)' = Lnt(r)
      BY <1>2, <1>7
    <3>2. \A k : Entry(turn, trlist[r][k])' = Entry(turn, trlist[r][k])
      BY <1>7
    <3>3. crd'[turn][r] = [k \in 1 .. Least(pass'[r].i, Lnt(r)) |-> Entry(turn, trlist[r][k])]
      BY <1>5
    <3> QED BY <3>1, <3>2, <3>3
  <2> QED BY <1>5, <1>7, <2>1 DEF Filled, Through
<1>10. Listing'
  <2>1. Within({"coords", "read"})'
    BY <1>5 DEF Within
  <2>2. (turn = 1 => Unread(2))' /\ NoOut'
    BY <1>1, <1>2, <1>4 DEF Listing, Unread, NoOut
  <2>3. ReadBefore'
    <3>1. CASE turn = 2
      <4>1. crd'[1] = crd[1] /\ Complete(1)
        BY <1>1, <1>4, <3>1 DEF Listing, ReadBefore
      <4> QED BY <4>1, <1>2, CompleteStays DEF ReadBefore
    <3>2. CASE turn # 2
      BY <3>2, <1>2 DEF ReadBefore
    <3> QED BY <3>1, <3>2
  <2> QED BY <1>8, <1>9, <2>1, <2>2, <2>3 DEF Listing
<1> QED BY <1>6, <1>10 DEF BinInv

\* When a list has been gone through, the process has its part of the file.
LEMMA ReadThrough ==
  ASSUME BinTypes, Sorted, \A r \in Rank : Filled(r), All("read")
  PROVE  Complete(turn)
<1>1. file \in Pairs /\ turn \in 1 .. 2 /\ pass \in [Rank -> Passes]
  BY DEF BinTypes
<1>2. ASSUME NEW r \in Rank
      PROVE  /\ crd[turn][r] = [k \in 1 .. Lnt(r) |-> Entry(turn, trlist[r][k])]
             /\ Len(crd[turn][r]) = Lnt(r) /\ Lnt(r) \in Nat
             /\ trlist[r] \in [1 .. Lnt(r) -> Numbers(turn)]
  <2>1. Lnt(r) \in Nat /\ pass[r].i \in Nat
    BY <1>1, LntIs DEF Passes
  <2>2. pass[r].i >= Lnt(r)
    BY DEF Filled, Through, All
  <2>3. Least(pass[r].i, Lnt(r)) = Lnt(r)
    BY <2>1, <2>2 DEF Least
  <2>4. crd[turn][r] = [k \in 1 .. Lnt(r) |-> Entry(turn, trlist[r][k])]
    BY <2>3 DEF Filled
  <2>5. crd[turn][r] \in Seq(Coord)
    BY <1>1 DEF BinTypes
  <2>6. Len(crd[turn][r]) = Lnt(r)
    <3>1. DOMAIN crd[turn][r] = 1 .. Lnt(r) /\ DOMAIN crd[turn][r] = 1 .. Len(crd[turn][r])
          /\ Len(crd[turn][r]) \in Nat
      BY <2>4, <2>5, LenProperties
    <3> HIDE DEF Lnt
    <3> QED BY <2>1, <3>1
  <2> QED BY <2>1, <2>4, <2>6 DEF Sorted
<1>3. ASSUME NEW r \in Rank, NEW k \in 1 .. Lnt(r)
      PROVE  /\ trlist[r][k] \in Numbers(turn)
             /\ crd[turn][r][k] = Entry(turn, trlist[r][k])
             /\ crd[turn][r][k].tn = trlist[r][k]
             /\ crd[turn][r][k].xs = Src(turn, trlist[r][k]).xs
  <2>1. trlist[r][k] \in Numbers(turn) /\ crd[turn][r][k] = Entry(turn, trlist[r][k])
    BY <1>2
  <2> QED BY <2>1, <1>1, SrcIs
<1>4. \A r \in Rank : Lnt(r) = Share(Len(file[turn]), r)
  BY DEF Lnt, Nt
<1>5. ASSUME NEW r \in Rank
      PROVE  /\ Len(crd[turn][r]) = Share(Len(file[turn]), r)
             /\ \A k \in 1 .. Len(crd[turn][r]) :
                  \E n \in Numbers(turn) : crd[turn][r][k] = Entry(turn, n)
             /\ \A j, k \in 1 .. Len(crd[turn][r]) :
                  j < k => crd[turn][r][j].xs <= crd[turn][r][k].xs
  <2>1. Len(crd[turn][r]) = Lnt(r)
    BY <1>2
  <2>2. \A j, k \in 1 .. Lnt(r) :
          j < k => Src(turn, trlist[r][j]).xs <= Src(turn, trlist[r][k]).xs
    BY DEF Sorted
  <2> QED BY <1>3, <1>4, <2>1, <2>2
<1>6. ASSUME NEW r \in Rank, NEW s \in Rank,
             NEW j \in 1 .. Len(crd[turn][r]), NEW k \in 1 .. Len(crd[turn][s]),
             crd[turn][r][j].tn = crd[turn][s][k].tn
      PROVE  r = s /\ j = k
  <2>1. j \in 1 .. Lnt(r) /\ k \in 1 .. Lnt(s)
    BY <1>2
  <2>2. trlist[r][j] = trlist[s][k]
    BY <1>3, <1>6, <2>1
  <2> QED BY <2>1, <2>2 DEF Sorted
<1> QED BY <1>5, <1>6 DEF Complete

LEMMA EndReadStep == BinInv /\ EndRead => BinInv'
<1> SUFFICES ASSUME BinInv, EndRead PROVE BinInv'
  OBVIOUS
<1>1. BinTypes /\ Listing /\ All("read")
  <2>1. All("read")
    BY DEF EndRead
  <2> QED BY <2>1, Alone DEF BinInv
<1>2. /\ turn' = 2
      /\ pc' = [r \in Rank |-> IF turn = 1 THEN "open" ELSE "gather"]
      /\ UNCHANGED <<file, ixline, pass, trlist, crd, active, best, match, out>>
  BY DEF EndRead
<1>3. turn \in 1 .. 2
  BY <1>1 DEF BinTypes
<1>4. Complete(turn)
  BY <1>1, ReadThrough DEF Listing
<1>5. BinTypes'
  <2>1. pc' \in [Rank -> BinStep]
    BY <1>2 DEF BinStep
  <2> QED BY <1>1, <1>2, <2>1 DEF BinTypes
<1>6. NoOut'
  BY <1>1, <1>2 DEF Listing, NoOut
<1>7. CASE turn = 1
  <2>1. Within({"open"})'
    BY <1>2, <1>7 DEF Within
  <2>2. Unread(2)' /\ Unread(turn)'
    BY <1>1, <1>2, <1>7 DEF Listing, Unread
  <2>3. Complete(1)'
    BY <1>2, <1>4, <1>7, CompleteStays
  <2>4. Opening'
    BY <1>6, <2>1, <2>2, <2>3 DEF Opening, ReadBefore
  <2> QED BY <1>5, <2>4 DEF BinInv
<1>8. CASE turn = 2
  <2>1. Within({"gather"})'
    BY <1>2, <1>8 DEF Within
  <2>2. Complete(1)
    BY <1>1, <1>8 DEF Listing, ReadBefore
  <2>3. Complete(1)' /\ Complete(2)'
    BY <1>2, <1>4, <1>8, <2>2, CompleteStays
  <2>4. Meeting'
    BY <1>6, <2>1, <2>3 DEF Meeting, BothRead
  <2> QED BY <1>5, <2>4 DEF BinInv
<1> QED BY <1>3, <1>7, <1>8

-----------------------------------------------------------------------------
(***************************************************************************)
(* calc4DBin: parts of files in ascending order, and what is compared.     *)
(***************************************************************************)
Ascends(c) == /\ c \in Seq(Coord) /\ Len(c) \in Nat /\ Len(c) >= 1
              /\ \A j, k \in 1 .. Len(c) : j < k => c[j].xs <= c[k].xs

LEMMA CoordIs ==
  ASSUME NEW c, Ascends(c)
  PROVE  /\ DOMAIN c = 1 .. Len(c) /\ Len(c) \in Nat /\ Len(c) >= 1
         /\ \A k \in 1 .. Len(c) : /\ c[k] \in Coord /\ c[k].tn \in Nat
                                   /\ c[k].xs \in Int /\ c[k].xr \in Int
                                   /\ X(c, k - 1) = c[k].xs
         /\ \A j, k \in 1 .. Len(c) : j <= k => c[j].xs <= c[k].xs
         /\ \A i \in Int : X(c, i) \in Int
<1>1. c \in Seq(Coord) /\ Len(c) \in Nat /\ Len(c) >= 1
      /\ \A j, k \in 1 .. Len(c) : j < k => c[j].xs <= c[k].xs
  BY DEF Ascends
<1>2. DOMAIN c = 1 .. Len(c)
  BY <1>1, LenProperties
<1>3. ASSUME NEW k \in 1 .. Len(c)
      PROVE  /\ c[k] \in Coord /\ c[k].tn \in Nat
             /\ c[k].xs \in Int /\ c[k].xr \in Int
  <2>1. c[k] \in Coord
    BY <1>1, ElementOfSeq
  <2> QED BY <2>1 DEF Coord
<1>4. ASSUME NEW k \in 1 .. Len(c)
      PROVE  X(c, k - 1) = c[k].xs
  <2>1. (k - 1) + 1 = k
    OBVIOUS
  <2> QED BY <2>1, <1>2 DEF X
<1>5. ASSUME NEW j \in 1 .. Len(c), NEW k \in 1 .. Len(c), j <= k
      PROVE  c[j].xs <= c[k].xs
  <2>1. c[j].xs \in Int
    BY <1>3
  <2>2. j < k \/ j = k
    BY <1>5
  <2> QED BY <1>1, <2>1, <2>2
<1>6. ASSUME NEW i \in Int
      PROVE  X(c, i) \in Int
  <2>1. CASE i + 1 \in DOMAIN c
    BY <1>2, <1>3, <2>1 DEF X
  <2>2. CASE i + 1 \notin DOMAIN c
    BY <2>2, BinChunks DEF X
  <2> QED BY <2>1, <2>2
<1> QED BY <1>1, <1>2, <1>3, <1>4, <1>5, <1>6

\* The members of a part of 1 .. n, counted.
LEMMA CountedPart ==
  ASSUME NEW n \in Nat, NEW T \in SUBSET (1 .. n)
  PROVE  /\ Cardinality(T) \in Nat /\ Cardinality(T) <= n
         /\ \A k \in 1 .. n : /\ (\A i \in T : i < k) => Cardinality(T) <= k - 1
                              /\ 1 .. k \subseteq T => k <= Cardinality(T)
<1>1. \A m \in Nat : IsFiniteSet(1 .. m) /\ Cardinality(1 .. m) = m
  <2>1. ASSUME NEW m \in Nat
        PROVE  IsFiniteSet(1 .. m) /\ Cardinality(1 .. m) = m
    <3>1. 1 \in Int /\ m \in Int
      OBVIOUS
    <3>2. IsFiniteSet(1 .. m) /\ Cardinality(1 .. m) = IF 1 > m THEN 0 ELSE m - 1 + 1
      BY <3>1, FS_Interval
    <3> QED BY <3>2
  <2> QED BY <2>1
<1>2. IsFiniteSet(T) /\ Cardinality(T) <= n /\ Cardinality(T) \in Nat
  <2>1. IsFiniteSet(1 .. n) /\ Cardinality(1 .. n) = n
    BY <1>1
  <2>2. IsFiniteSet(T) /\ Cardinality(T) <= n
    BY <2>1, FS_Subset
  <2> QED BY <2>2, FS_CardinalityType
<1>3. ASSUME NEW k \in 1 .. n, \A i \in T : i < k
      PROVE  Cardinality(T) <= k - 1
  <2>1. T \in SUBSET (1 .. (k - 1)) /\ k - 1 \in Nat
    BY <1>3
  <2>2. IsFiniteSet(1 .. (k - 1)) /\ Cardinality(1 .. (k - 1)) = k - 1
    BY <1>1, <2>1
  <2> QED BY <2>1, <2>2, FS_Subset
<1>4. ASSUME NEW k \in 1 .. n, 1 .. k \subseteq T
      PROVE  k <= Cardinality(T)
  <2>1. Cardinality(1 .. k) = k /\ (1 .. k) \in SUBSET T
    BY <1>1, <1>4
  <2> QED BY <1>2, <2>1, FS_Subset
<1> QED BY <1>2, <1>3, <1>4

LEMMA CountUpIs ==
  ASSUME NEW c, Ascends(c), NEW limit \in Int
  PROVE  /\ CountUp(c, limit) \in Nat /\ CountUp(c, limit) <= Len(c)
         /\ \A k \in 1 .. Len(c) : limit <= c[k].xs => CountUp(c, limit) <= k - 1
<1> DEFINE n == Len(c)
           T == {k \in 1 .. n : c[k].xs < limit}
<1>1. n \in Nat /\ DOMAIN c = 1 .. n
  BY CoordIs
<1>2. CountUp(c, limit) = Cardinality(T)
  BY <1>1 DEF CountUp
<1>3. /\ \A k \in 1 .. n : c[k].xs \in Int
      /\ \A j, k \in 1 .. n : j <= k => c[j].xs <= c[k].xs
  BY CoordIs
<1> HIDE DEF n
<1>4. T \in SUBSET (1 .. n)
  OBVIOUS
<1>5. ASSUME NEW k \in 1 .. n, limit <= c[k].xs, NEW i \in T
      PROVE  i < k
  <2>1. i \in 1 .. n /\ c[i].xs < limit
    OBVIOUS
  <2>2. ~(k <= i)
    BY <1>3, <1>5, <2>1
  <2> QED BY <1>1, <2>1, <2>2
<1> HIDE DEF T
<1>6. /\ Cardinality(T) \in Nat /\ Cardinality(T) <= n
      /\ \A k \in 1 .. n : (\A i \in T : i < k) => Cardinality(T) <= k - 1
  BY <1>1, <1>4, CountedPart
<1>7. \A k \in 1 .. n : limit <= c[k].xs => Cardinality(T) <= k - 1
  BY <1>5, <1>6
<1> QED BY <1>2, <1>6, <1>7 DEF n

LEMMA CountDownIs ==
  ASSUME NEW c, Ascends(c), NEW limit \in Int, NEW from \in Nat, from <= Len(c)
  PROVE  /\ CountDown(c, from, limit) \in Int /\ CountDown(c, from, limit) <= Len(c) - 1
         /\ \A k \in 1 .. Len(c) : c[k].xs <= limit => k - 1 <= CountDown(c, from, limit)
<1> DEFINE n == Len(c)
           T == {k \in 1 .. n : c[k].xs <= limit}
           m == Cardinality(T)
<1>1. n \in Nat /\ DOMAIN c = 1 .. n /\ from <= n
  BY CoordIs
<1>2. CountDown(c, from, limit) = IF from - 1 < m - 1 THEN m - 1 ELSE from - 1
  BY <1>1 DEF CountDown, Greatest
<1>3. /\ \A k \in 1 .. n : c[k].xs \in Int
      /\ \A j, k \in 1 .. n : j <= k => c[j].xs <= c[k].xs
  BY CoordIs
<1> HIDE DEF n
<1>4. T \in SUBSET (1 .. n)
  OBVIOUS
<1>5. ASSUME NEW k \in 1 .. n, c[k].xs <= limit
      PROVE  1 .. k \subseteq T
  <2> SUFFICES ASSUME NEW i \in 1 .. k PROVE i \in T
    OBVIOUS
  <2>1. i \in 1 .. n /\ i <= k
    BY <1>1
  <2>2. c[i].xs <= c[k].xs /\ c[i].xs \in Int /\ c[k].xs \in Int
    BY <1>3, <2>1
  <2>3. c[i].xs <= limit
    BY <1>5, <2>2
  <2> QED BY <2>1, <2>3
<1> HIDE DEF T
<1>6. /\ m \in Nat /\ m <= n
      /\ \A k \in 1 .. n : 1 .. k \subseteq T => k <= m
  BY <1>1, <1>4, CountedPart
<1> HIDE DEF m
<1>7. \A k \in 1 .. n : c[k].xs <= limit => k <= m
  BY <1>5, <1>6
<1>8. /\ CountDown(c, from, limit) \in Int /\ CountDown(c, from, limit) <= n - 1
      /\ m - 1 <= CountDown(c, from, limit)
  BY <1>1, <1>2, <1>6
<1>9. ASSUME NEW k \in 1 .. n, c[k].xs <= limit
      PROVE  k - 1 <= CountDown(c, from, limit)
  BY <1>1, <1>6, <1>7, <1>8, <1>9
<1> QED BY <1>8, <1>9 DEF n

(***************************************************************************)
(* The window holds nothing that is not there, and two neighbours of one   *)
(* part that are close to two neighbours of the other have their lower     *)
(* ones in it.                                                             *)
(***************************************************************************)
Neighbours(c1, c2, k, j) ==
  \A a \in {k, k + 1}, b \in {j, j + 1} : Distance(c1[a].xs, c2[b].xs) <= DsrMax

LEMMA ApartIs ==
  ASSUME NEW x \in Int, NEW y \in Int, Distance(x, y) <= DsrMax
  PROVE  x - DsrMax <= y /\ y <= x + DsrMax /\ y - DsrMax <= x /\ x <= y + DsrMax
BY BinChunks DEF Distance

LEMMA NeighboursIs ==
  ASSUME NEW c1, Ascends(c1), NEW c2, Ascends(c2),
         NEW k \in 1 .. Len(c1) - 1, NEW j \in 1 .. Len(c2) - 1, Neighbours(c1, c2, k, j),
         NEW a \in {k, k + 1}, NEW b \in {j, j + 1}
  PROVE  /\ a \in 1 .. Len(c1) /\ b \in 1 .. Len(c2)
         /\ c1[a].xs - DsrMax <= c2[b].xs /\ c2[b].xs <= c1[a].xs + DsrMax
         /\ c2[b].xs - DsrMax <= c1[a].xs /\ c1[a].xs <= c2[b].xs + DsrMax
<1>1. Len(c1) \in Nat /\ Len(c2) \in Nat
  BY CoordIs
<1>2. a \in 1 .. Len(c1) /\ b \in 1 .. Len(c2)
  BY <1>1
<1>3. c1[a].xs \in Int /\ c2[b].xs \in Int
  BY <1>2, CoordIs
<1>4. Distance(c1[a].xs, c2[b].xs) <= DsrMax
  BY DEF Neighbours
<1> QED BY <1>2, <1>3, <1>4, ApartIs

LEMMA WindowIs ==
  ASSUME NEW c1, Ascends(c1), NEW c2, Ascends(c2)
  PROVE  LET w == Window(c1, c2)
         IN  /\ w.cols \in SUBSET (1 .. Len(c2))
             /\ \A k \in 1 .. Len(c1) - 1, j \in 1 .. Len(c2) - 1 :
                  Neighbours(c1, c2, k, j) => k \in w.rows /\ j \in w.cols
<1> DEFINE n1 == Len(c1)
           n2 == Len(c2)
           low1 == X(c1, 0) - DsrMax
           high1 == X(c1, n1 - 1) + DsrMax
           rstart == CountUp(c2, low1)
           rend == CountDown(c2, rstart, high1)
           low2 == X(c2, rstart) - DsrMax
           high2 == X(c2, rend - 1) + DsrMax
           lstart == CountUp(c1, low2)
           lend == CountDown(c1, lstart, high2)
           w == Window(c1, c2)
<1>1. w.rows = (lstart \div Align) * Align + 1 .. lend /\ w.cols = rstart + 1 .. rend
  BY DEF Window
<1>2. n1 \in Nat /\ n2 \in Nat /\ n1 >= 1 /\ n2 >= 1 /\ DsrMax \in Nat /\ Align \in Nat \ {0}
  BY CoordIs, BinChunks
<1>3. \A i \in Int : X(c1, i) \in Int /\ X(c2, i) \in Int
  BY CoordIs
<1>4. X(c1, 0) = c1[1].xs /\ X(c1, n1 - 1) = c1[n1].xs
  <2>1. 1 \in 1 .. n1 /\ n1 \in 1 .. n1 /\ 1 - 1 = 0
    BY <1>2
  <2>2. \A k \in 1 .. Len(c1) : X(c1, k - 1) = c1[k].xs
    BY CoordIs
  <2> QED BY <2>1, <2>2
<1>5. \A k \in 1 .. n2 : X(c2, k - 1) = c2[k].xs
  BY CoordIs
<1>6. /\ \A k \in 1 .. n1 : c1[k].xs \in Int
      /\ \A k \in 1 .. n2 : c2[k].xs \in Int
      /\ \A i, k \in 1 .. n1 : i <= k => c1[i].xs <= c1[k].xs
      /\ \A i, k \in 1 .. n2 : i <= k => c2[i].xs <= c2[k].xs
  BY CoordIs
<1>7. low1 \in Int /\ high1 \in Int
  <2>1. 0 \in Int /\ n1 - 1 \in Int
    BY <1>2
  <2>2. X(c1, 0) \in Int /\ X(c1, n1 - 1) \in Int
    BY <1>3, <2>1
  <2> HIDE DEF n1
  <2> QED BY <1>2, <2>2
<1>8. /\ rstart \in Nat /\ rstart <= n2
      /\ \A k \in 1 .. n2 : low1 <= c2[k].xs => rstart <= k - 1
  BY <1>7, CountUpIs
<1>9. /\ rend \in Int /\ rend <= n2 - 1
      /\ \A k \in 1 .. n2 : c2[k].xs <= high1 => k - 1 <= rend
  BY <1>7, <1>8, CountDownIs
<1>10. low2 \in Int /\ high2 \in Int
  <2>1. rstart \in Int /\ rend - 1 \in Int
    BY <1>8, <1>9
  <2>2. X(c2, rstart) \in Int /\ X(c2, rend - 1) \in Int
    BY <1>3, <2>1
  <2> HIDE DEF rstart, rend
  <2> QED BY <1>2, <2>2
<1>11. /\ lstart \in Nat /\ lstart <= n1
       /\ \A k \in 1 .. n1 : low2 <= c1[k].xs => lstart <= k - 1
  BY <1>10, CountUpIs
<1>12. /\ lend \in Int /\ lend <= n1 - 1
       /\ \A k \in 1 .. n1 : c1[k].xs <= high2 => k - 1 <= lend
  BY <1>10, <1>11, CountDownIs
<1>13. w.cols \in SUBSET (1 .. n2)
  <2> HIDE DEF rstart, rend, n2, w
  <2> QED BY <1>1, <1>2, <1>8, <1>9
<1>14. ASSUME NEW k \in 1 .. n1 - 1, NEW j \in 1 .. n2 - 1, Neighbours(c1, c2, k, j)
       PROVE  k \in w.rows /\ j \in w.cols
  <2>1. ASSUME NEW a \in {k, k + 1}, NEW b \in {j, j + 1}
        PROVE  /\ c1[a].xs - DsrMax <= c2[b].xs /\ c2[b].xs <= c1[a].xs + DsrMax
               /\ c2[b].xs - DsrMax <= c1[a].xs /\ c1[a].xs <= c2[b].xs + DsrMax
    BY <1>14, NeighboursIs
  <2>2. k \in {k, k + 1} /\ k + 1 \in {k, k + 1} /\ j \in {j, j + 1} /\ j + 1 \in {j, j + 1}
    OBVIOUS
  <2>3. /\ k \in 1 .. n1 /\ k + 1 \in 1 .. n1 /\ 1 \in 1 .. n1 /\ n1 \in 1 .. n1
        /\ j \in 1 .. n2 /\ j + 1 \in 1 .. n2 /\ 1 <= k /\ k + 1 <= n1
    BY <1>2
  <2> HIDE DEF n1, n2, rstart, rend, lstart, lend, w
  <2>4. rstart <= j - 1
    <3>1. c1[1].xs <= c1[k].xs /\ c1[1].xs \in Int /\ c1[k].xs \in Int /\ c2[j].xs \in Int
      BY <1>6, <2>3
    <3>2. c1[k].xs - DsrMax <= c2[j].xs
      BY <2>1
    <3>3. low1 <= c2[j].xs
      BY <1>2, <1>4, <3>1, <3>2
    <3> QED BY <1>8, <2>3, <3>3
  <2>5. j <= rend
    <3>1. /\ c1[k].xs <= c1[n1].xs /\ c1[n1].xs \in Int /\ c1[k].xs \in Int
          /\ c2[j + 1].xs \in Int
      BY <1>2, <1>6, <2>3
    <3>2. c2[j + 1].xs <= c1[k].xs + DsrMax
      BY <2>1
    <3>3. c2[j + 1].xs <= high1
      BY <1>2, <1>4, <3>1, <3>2
    <3>4. (j + 1) - 1 <= rend
      BY <1>9, <2>3, <3>3
    <3> QED BY <1>9, <3>4
  <2>6. j \in w.cols
    BY <1>1, <1>8, <1>9, <2>4, <2>5
  <2>7. lstart <= k - 1
    <3>1. rstart + 1 \in 1 .. n2 /\ rstart + 1 <= j /\ (rstart + 1) - 1 = rstart
      BY <1>2, <1>8, <2>3, <2>4
    <3>2. X(c2, rstart) = c2[rstart + 1].xs
      BY <1>5, <3>1
    <3>3. /\ c2[rstart + 1].xs <= c2[j].xs /\ c2[rstart + 1].xs \in Int /\ c2[j].xs \in Int
          /\ c1[k].xs \in Int
      BY <1>6, <2>3, <3>1
    <3>4. c2[j].xs - DsrMax <= c1[k].xs
      BY <2>1
    <3>5. low2 <= c1[k].xs
      BY <1>2, <3>2, <3>3, <3>4
    <3> QED BY <1>11, <2>3, <3>5
  <2>8. k <= lend
    <3>1. rend \in 1 .. n2
      BY <1>2, <1>9, <2>3, <2>5
    <3>2. X(c2, rend - 1) = c2[rend].xs
      BY <1>5, <3>1
    <3>3. /\ c2[j].xs <= c2[rend].xs /\ c2[rend].xs \in Int /\ c2[j].xs \in Int
          /\ c1[k + 1].xs \in Int
      BY <1>6, <2>3, <2>5, <3>1
    <3>4. c1[k + 1].xs <= c2[j].xs + DsrMax
      BY <2>1
    <3>5. c1[k + 1].xs <= high2
      BY <1>2, <3>2, <3>3, <3>4
    <3>6. (k + 1) - 1 <= lend
      BY <1>12, <2>3, <3>5
    <3> QED BY <1>12, <3>6
  <2>9. (lstart \div Align) * Align <= lstart /\ (lstart \div Align) * Align \in Nat
    <3> DEFINE q == lstart \div Align
    <3>1. q \in Nat /\ lstart % Align \in Nat /\ lstart = Align * q + (lstart % Align)
      BY <1>2, <1>11, DivFacts
    <3>2. Align * q \in Nat /\ Align * q = q * Align
      BY <1>2, <3>1, TimesNat
    <3> HIDE DEF q
    <3>3. q * Align <= lstart /\ q * Align \in Nat
      BY <1>11, <3>1, <3>2
    <3> QED BY <3>3 DEF q
  <2> DEFINE start == (lstart \div Align) * Align
  <2>10. start <= lstart /\ start \in Nat /\ w.rows = start + 1 .. lend
    BY <1>1, <2>9
  <2> HIDE DEF start
  <2>11. k \in w.rows
    BY <1>11, <1>12, <2>7, <2>8, <2>10
  <2> QED BY <2>6, <2>11
<1> QED BY <1>13, <1>14

-----------------------------------------------------------------------------
LEMMA MinIs ==
  ASSUME NEW T \in SUBSET Nat, T # {}
  PROVE  Min(T) \in T /\ \A y \in T : Min(T) <= y
<1>1. \E x \in T : \A y \in T : x <= y
  BY LeastNat
<1> QED BY <1>1 DEF Min

(***************************************************************************)
(* A comparison replaces a guess only by a closer trace that is there, and *)
(* leaves nothing compared that is closer.                                 *)
(***************************************************************************)
LEMMA ComparedIs ==
  ASSUME NEW c1, Ascends(c1), NEW c2, Ascends(c2),
         NEW w, w.cols \in SUBSET (1 .. Len(c2)),
         NEW old \in Seq(Guess), Len(old) = Len(c1),
         NEW new, new = Compared(c1, c2, w, old)
  PROVE  /\ new \in Seq(Guess) /\ Len(new) = Len(c1)
         /\ \A k \in 1 .. Len(c1) :
              /\ \/ new[k] = old[k]
                 \/ \E j \in 1 .. Len(c2) :
                      new[k] = [min |-> c2[j].tn, dsr |-> Value(c1[k], c2[j])]
              /\ new[k].dsr <= old[k].dsr
              /\ k \in w.rows => \A j \in w.cols : new[k].dsr <= Value(c1[k], c2[j])
<1> DEFINE n == Len(c1)
           v(k, j) == Value(c1[k], c2[j])
           Vals(k) == {v(k, j) : j \in w.cols}
           least(k) == Min(Vals(k))
           At(k) == {j \in w.cols : v(k, j) = least(k)}
           closest(k) == Min(At(k))
           Taken(k) == k \in w.rows /\ w.cols # {} /\ least(k) < old[k].dsr
           Put(k) == [min |-> c2[closest(k)].tn, dsr |-> least(k)]
<1>1. n \in Nat /\ DOMAIN c1 = 1 .. n
  BY CoordIs
<1>2. new = [k \in 1 .. n |-> IF Taken(k) THEN Put(k) ELSE old[k]]
  BY <1>1 DEF Compared, Closer
<1>3. ASSUME NEW k \in 1 .. n, NEW j \in 1 .. Len(c2)
      PROVE  v(k, j) \in Nat /\ c2[j].tn \in Nat
  <2>1. /\ c1[k].xs \in Int /\ c1[k].xr \in Int
        /\ c2[j].xs \in Int /\ c2[j].xr \in Int /\ c2[j].tn \in Nat
    BY CoordIs
  <2> QED BY <2>1, ValueIs
<1>4. ASSUME NEW k \in 1 .. n
      PROVE  old[k] \in Guess /\ old[k].dsr \in Int
  <2>1. old[k] \in Guess
    BY ElementOfSeq
  <2> QED BY <2>1 DEF Guess
<1>5. ASSUME NEW k \in 1 .. n, w.cols # {}
      PROVE  /\ closest(k) \in w.cols /\ v(k, closest(k)) = least(k) /\ least(k) \in Nat
             /\ \A j \in w.cols : least(k) <= v(k, j)
  <2>1. Vals(k) \in SUBSET Nat /\ Vals(k) # {}
    BY <1>3, <1>5
  <2> HIDE DEF v
  <2>2. least(k) \in Vals(k) /\ \A y \in Vals(k) : least(k) <= y
    <3> DEFINE V == Vals(k)
    <3>1. V \in SUBSET Nat /\ V # {}
      BY <2>1
    <3> HIDE DEF V
    <3>2. Min(V) \in V /\ \A y \in V : Min(V) <= y
      BY <3>1, MinIs
    <3> QED BY <3>2 DEF V
  <2> HIDE DEF least
  <2>3. At(k) \in SUBSET Nat /\ At(k) # {}
    BY <2>2
  <2>4. closest(k) \in At(k)
    <3> DEFINE V == At(k)
    <3>1. V \in SUBSET Nat /\ V # {}
      BY <2>3
    <3> HIDE DEF V
    <3>2. Min(V) \in V
      BY <3>1, MinIs
    <3> QED BY <3>2 DEF V
  <2> HIDE DEF closest
  <2> QED BY <2>1, <2>2, <2>4
<1> HIDE DEF closest, least, v, n
<1>6. ASSUME NEW k \in 1 .. n
      PROVE  /\ (IF Taken(k) THEN Put(k) ELSE old[k]) \in Guess
             /\ new[k] = IF Taken(k) THEN Put(k) ELSE old[k]
             /\ \/ new[k] = old[k]
                \/ \E j \in 1 .. Len(c2) : new[k] = [min |-> c2[j].tn, dsr |-> v(k, j)]
             /\ new[k].dsr <= old[k].dsr
             /\ k \in w.rows => \A j \in w.cols : new[k].dsr <= v(k, j)
  <2>1. new[k] = IF Taken(k) THEN Put(k) ELSE old[k]
    BY <1>2
  <2>2. old[k] \in Guess /\ old[k].dsr \in Int
    BY <1>4
  <2>3. CASE Taken(k)
    <3>1. /\ closest(k) \in w.cols /\ v(k, closest(k)) = least(k) /\ least(k) \in Nat
          /\ \A j \in w.cols : least(k) <= v(k, j)
      BY <1>5, <2>3
    <3>2. closest(k) \in 1 .. Len(c2) /\ c2[closest(k)].tn \in Nat
      BY <1>3, <3>1
    <3>3. new[k] = Put(k) /\ Put(k) \in Guess /\ new[k].dsr = least(k)
      BY <2>1, <2>3, <3>1, <3>2 DEF Guess
    <3>4. new[k].dsr <= old[k].dsr
      BY <2>2, <2>3, <3>1, <3>3
    <3>5. \E j \in 1 .. Len(c2) : new[k] = [min |-> c2[j].tn, dsr |-> v(k, j)]
      BY <3>1, <3>2, <3>3
    <3> QED BY <2>1, <2>3, <3>1, <3>3, <3>4, <3>5
  <2>4. CASE ~Taken(k)
    <3>1. new[k] = old[k] /\ new[k].dsr <= old[k].dsr
      BY <2>1, <2>2, <2>4
    <3>2. ASSUME k \in w.rows, NEW j \in w.cols
          PROVE  new[k].dsr <= v(k, j)
      <4>1. w.cols # {} /\ ~(least(k) < old[k].dsr)
        BY <2>4, <3>2
      <4>2. least(k) <= v(k, j) /\ least(k) \in Nat
        BY <1>5, <4>1
      <4>3. v(k, j) \in Nat
        BY <1>3
      <4> QED BY <2>2, <3>1, <4>1, <4>2, <4>3
    <3> QED BY <2>1, <2>2, <2>4, <3>1, <3>2
  <2> QED BY <2>3, <2>4
<1>7. new \in Seq(Guess) /\ Len(new) = n
  <2>1. new \in [1 .. n -> Guess]
    BY <1>2, <1>6
  <2> QED BY ONLY <2>1, <1>1
<1> QED BY <1>6, <1>7 DEF n, v

\* What the comparisons may take from a part of a file that has been read.
LEMMA PartIs ==
  ASSUME BinTypes, NEW f \in 1 .. 2, Complete(f), NEW r \in Rank
  PROVE  /\ Ascends(crd[f][r])
         /\ \A k \in 1 .. Len(crd[f][r]) :
              /\ crd[f][r][k].tn \in Numbers(f)
              /\ crd[f][r][k] = Entry(f, crd[f][r][k].tn)
<1>1. file \in Pairs /\ crd[f][r] \in Seq(Coord)
  BY DEF BinTypes
<1>2. /\ Len(crd[f][r]) = Share(Len(file[f]), r)
      /\ \A k \in 1 .. Len(crd[f][r]) : \E n \in Numbers(f) : crd[f][r][k] = Entry(f, n)
      /\ \A j, k \in 1 .. Len(crd[f][r]) : j < k => crd[f][r][j].xs <= crd[f][r][k].xs
  BY DEF Complete
<1>3. Ascends(crd[f][r])
  <2> DEFINE sh == Share(Len(file[f]), r)
             c == crd[f][r]
  <2>1. sh \in Nat /\ sh >= 1
    BY <1>1, ShareOf
  <2>2. c \in Seq(Coord) /\ Len(c) = sh /\ \A j, k \in 1 .. Len(c) : j < k => c[j].xs <= c[k].xs
    BY <1>1, <1>2
  <2> HIDE DEF sh, c
  <2>3. Ascends(c)
    BY <2>1, <2>2 DEF Ascends
  <2> QED BY <2>3 DEF c
<1>4. ASSUME NEW k \in 1 .. Len(crd[f][r])
      PROVE  /\ crd[f][r][k].tn \in Numbers(f)
             /\ crd[f][r][k] = Entry(f, crd[f][r][k].tn)
  <2>1. PICK n \in Numbers(f) : crd[f][r][k] = Entry(f, n)
    BY <1>2
  <2>2. Entry(f, n).tn = n
    BY DEF Entry
  <2> QED BY <2>1, <2>2
<1> QED BY <1>3, <1>4

LEMMA PairValue ==
  ASSUME BinTypes, Complete(1), Complete(2), NEW r \in Rank, NEW s \in Rank,
         NEW k \in 1 .. Len(crd[1][r]), NEW j \in 1 .. Len(crd[2][s])
  PROVE  /\ crd[1][r][k].tn \in Numbers(1) /\ crd[2][s][j].tn \in Numbers(2)
         /\ Value(crd[1][r][k], crd[2][s][j])
            = Value(Src(1, crd[1][r][k].tn), Src(2, crd[2][s][j].tn))
         /\ Value(crd[1][r][k], crd[2][s][j]) \in Nat
<1>0. 1 \in 1 .. 2 /\ 2 \in 1 .. 2
  OBVIOUS
<1>1. crd[1][r][k].tn \in Numbers(1) /\ crd[1][r][k] = Entry(1, crd[1][r][k].tn)
  BY <1>0, PartIs
<1>2. crd[2][s][j].tn \in Numbers(2) /\ crd[2][s][j] = Entry(2, crd[2][s][j].tn)
  BY <1>0, PartIs
<1> DEFINE a == crd[1][r][k]
           b == crd[2][s][j]
           n == a.tn
           m == b.tn
<1>3. Ascends(crd[1][r]) /\ Ascends(crd[2][s])
  BY <1>0, PartIs
<1>4. a.xs \in Int /\ a.xr \in Int /\ b.xs \in Int /\ b.xr \in Int
  BY <1>3, CoordIs
<1>5. a = Entry(1, n) /\ b = Entry(2, m)
  BY <1>1, <1>2
<1> HIDE DEF n, m, a, b
<1>6. Value(a, b) \in Nat
  BY <1>4, ValueIs
<1>7. Value(a, b) = Value(Src(1, n), Src(2, m))
  BY <1>5, ValueOfEntries
<1> QED BY <1>1, <1>2, <1>6, <1>7 DEF a, b, n, m

\* What is said of one process's best partners, when it alone may have changed.
LEMMA TruthfulIs ==
  ASSUME UNCHANGED <<file, ixline, crd>>, NEW r,
         Len(best'[r]) = Len(crd[1][r]),
         \A k \in 1 .. Len(best'[r]) :
           /\ best'[r][k].min \in Numbers(2)
           /\ best'[r][k].dsr = Value(Src(1, crd[1][r][k].tn), Src(2, best'[r][k].min))
  PROVE  Truthful(r)'
BY SameFiles DEF Truthful, Value, Dsr

LEMMA InnerIs ==
  ASSUME UNCHANGED <<ixline, crd>>, NEW r, NEW s,
         \A k \in 1 .. Len(crd[1][r]) - 1, j \in 1 .. Len(crd[2][s]) - 1 :
           Neighbours(crd[1][r], crd[2][s], k, j) =>
             best'[r][k].dsr <= Value(crd[1][r][k], crd[2][s][j])
  PROVE  Inner(r, s)'
<1>1. \A k, j : Value(crd[1][r][k], crd[2][s][j])' = Value(crd[1][r][k], crd[2][s][j])
  BY DEF Value, Dsr
<1>2. \A k, j : Neighbours(crd[1][r], crd[2][s], k, j)' <=> Neighbours(crd[1][r], crd[2][s], k, j)
  BY DEF Neighbours
<1> DEFINE CloseBy(k, j) == Neighbours(crd[1][r], crd[2][s], k, j) =>
                            best[r][k].dsr <= Value(crd[1][r][k], crd[2][s][j])
<1>3. \A k \in 1 .. Len(crd'[1][r]) - 1, j \in 1 .. Len(crd'[2][s]) - 1 : CloseBy(k, j)'
  BY <1>1, <1>2
<1> QED BY <1>3 DEF Inner, Neighbours

LEMMA InnerStays ==
  ASSUME UNCHANGED <<file, ixline, crd>>, NEW r, best'[r] = best[r], NEW s, Inner(r, s)
  PROVE  Inner(r, s)'
<1>1. \A k \in 1 .. Len(crd[1][r]) - 1, j \in 1 .. Len(crd[2][s]) - 1 :
        Neighbours(crd[1][r], crd[2][s], k, j) =>
          best'[r][k].dsr <= Value(crd[1][r][k], crd[2][s][j])
  BY DEF Inner, Neighbours
<1> QED BY <1>1, InnerIs

\* Parts with neighbours that are close are not passed over.
LEMMA CloseParts ==
  ASSUME NEW c1, Ascends(c1), NEW c2, Ascends(c2),
         NEW k \in 1 .. Len(c1) - 1, NEW j \in 1 .. Len(c2) - 1, Neighbours(c1, c2, k, j)
  PROVE  MayMatch(c1, c2)
<1> DEFINE n1 == Len(c1)
           n2 == Len(c2)
<1>1. n1 \in Nat /\ n2 \in Nat /\ n1 >= 1 /\ n2 >= 1 /\ DsrMax \in Nat
  BY CoordIs, BinChunks
<1>2. k \in {k, k + 1} /\ j \in {j, j + 1}
  OBVIOUS
<1>3. c1[k].xs - DsrMax <= c2[j].xs /\ c2[j].xs - DsrMax <= c1[k].xs
  BY <1>2, NeighboursIs
<1>4. k \in 1 .. n1 /\ 1 \in 1 .. n1 /\ n1 \in 1 .. n1 /\ 1 <= k /\ k <= n1 /\ 1 - 1 = 0
  BY <1>1
<1>5. j \in 1 .. n2 /\ 1 \in 1 .. n2 /\ n2 \in 1 .. n2 /\ 1 <= j /\ j <= n2
  BY <1>1
<1>6. /\ \A i \in 1 .. n1 : c1[i].xs \in Int /\ X(c1, i - 1) = c1[i].xs
      /\ \A i, m \in 1 .. n1 : i <= m => c1[i].xs <= c1[m].xs
  BY CoordIs
<1>7. /\ \A i \in 1 .. n2 : c2[i].xs \in Int /\ X(c2, i - 1) = c2[i].xs
      /\ \A i, m \in 1 .. n2 : i <= m => c2[i].xs <= c2[m].xs
  BY CoordIs
<1> HIDE DEF n1, n2
<1>8. /\ X(c1, 0) = c1[1].xs /\ X(c1, n1 - 1) = c1[n1].xs
      /\ X(c2, 0) = c2[1].xs /\ X(c2, n2 - 1) = c2[n2].xs
  BY <1>4, <1>5, <1>6, <1>7
<1>9. /\ c1[1].xs <= c1[k].xs /\ c1[k].xs <= c1[n1].xs
      /\ c1[1].xs \in Int /\ c1[k].xs \in Int /\ c1[n1].xs \in Int
  BY <1>4, <1>6
<1>10. /\ c2[1].xs <= c2[j].xs /\ c2[j].xs <= c2[n2].xs
       /\ c2[1].xs \in Int /\ c2[j].xs \in Int /\ c2[n2].xs \in Int
  BY <1>5, <1>7
<1>11. /\ X(c2, 0) - DsrMax <= X(c1, n1 - 1)
       /\ X(c2, n2 - 1) + DsrMax >= X(c1, 0)
  <2> DEFINE a == c1[1].xs
             b == c1[k].xs
             c == c1[n1].xs
             d == c2[1].xs
             e == c2[j].xs
             f == c2[n2].xs
  <2>0. /\ a \in Int /\ b \in Int /\ c \in Int /\ d \in Int /\ e \in Int /\ f \in Int
        /\ a <= b /\ b <= c /\ d <= e /\ e <= f
        /\ b - DsrMax <= e /\ e - DsrMax <= b /\ DsrMax \in Nat
    BY <1>1, <1>3, <1>9, <1>10
  <2> HIDE DEF a, b, c, d, e, f
  <2>1. d - DsrMax <= c
    BY <2>0
  <2>2. f + DsrMax >= a
    BY <2>0
  <2> QED BY <1>8, <2>1, <2>2 DEF a, c, d, f
<1> QED BY <1>11 DEF MayMatch, n1, n2

LEMMA GatherStep == BinInv /\ Gather => BinInv'
<1> SUFFICES ASSUME BinInv, Gather PROVE BinInv'
  OBVIOUS
<1>1. BinTypes /\ Meeting
  <2>1. All("gather")
    BY DEF Gather
  <2> QED BY <2>1, Alone DEF BinInv
<1>2. /\ best' = [r \in Rank |-> FirstGuess(crd[1][r], crd[2][r])]
      /\ active' = [r \in Rank |-> InOrder({s \in Rank : MayMatch(crd[1][r], crd[2][s])}, <)]
      /\ pc' = [r \in Rank |-> IF active'[r] = <<>> THEN "free" ELSE "update"]
      /\ UNCHANGED <<file, ixline, turn, pass, trlist, crd, match, out>>
  BY DEF Gather
<1>3. Complete(1) /\ Complete(2) /\ NoOut
  BY <1>1 DEF Meeting, BothRead
<1>4. \A r \in Rank : Ascends(crd[1][r]) /\ Ascends(crd[2][r])
  BY <1>1, <1>3, PartIs
<1>5. Complete(1)' /\ Complete(2)' /\ NoOut'
  BY <1>2, <1>3, CompleteStays DEF NoOut
<1>6. ASSUME NEW r \in Rank
      PROVE  /\ best'[r] \in Seq(Guess) /\ Len(best'[r]) = Len(crd[1][r])
             /\ \A k \in 1 .. Len(crd[1][r]) :
                  /\ best'[r][k].min \in Numbers(2)
                  /\ best'[r][k].dsr = Value(Src(1, crd[1][r][k].tn), Src(2, best'[r][k].min))
  <2> DEFINE c1 == crd[1][r]
             c2 == crd[2][r]
             n == Len(c1)
  <2>1. n \in Nat /\ DOMAIN c1 = 1 .. n /\ 1 \in 1 .. Len(c2)
    <3>1. Ascends(c1) /\ Ascends(c2)
      BY <1>4
    <3> HIDE DEF c1, c2
    <3>2. DOMAIN c1 = 1 .. Len(c1) /\ Len(c1) \in Nat /\ Len(c2) \in Nat /\ Len(c2) >= 1
      BY <3>1, CoordIs
    <3> QED BY <3>2
  <2>2. best'[r] = [k \in 1 .. n |-> [min |-> c2[1].tn, dsr |-> Value(c1[k], c2[1])]]
    BY <1>2, <2>1 DEF FirstGuess
  <2>3. ASSUME NEW k \in 1 .. n
        PROVE  /\ c2[1].tn \in Numbers(2) /\ Value(c1[k], c2[1]) \in Nat
               /\ Value(c1[k], c2[1]) = Value(Src(1, c1[k].tn), Src(2, c2[1].tn))
    BY <1>1, <1>3, <2>1, PairValue
  <2>4. \A m \in Numbers(2) : m \in Nat
    BY <1>1, FileLen DEF Numbers, BinTypes
  <2> HIDE DEF c1, c2, n
  <2>5. best'[r] \in [1 .. n -> Guess]
    BY <2>2, <2>3, <2>4 DEF Guess
  <2>6. best'[r] \in Seq(Guess) /\ Len(best'[r]) = n
    BY ONLY <2>1, <2>5
  <2>7. ASSUME NEW k \in 1 .. n
        PROVE  /\ best'[r][k].min \in Numbers(2)
               /\ best'[r][k].dsr = Value(Src(1, c1[k].tn), Src(2, best'[r][k].min))
    <3>1. best'[r][k].min = c2[1].tn /\ best'[r][k].dsr = Value(c1[k], c2[1])
      BY <2>2
    <3> QED BY <2>3, <3>1
  <2> QED BY <2>6, <2>7 DEF n, c1
<1>7. ASSUME NEW r \in Rank
      PROVE  /\ active'[r] \in Seq(Rank)
             /\ \A s \in Rank : MayMatch(crd[1][r], crd[2][s]) =>
                  \E n \in 1 .. Len(active'[r]) : active'[r][n] = s
  <2> DEFINE M == {s \in Rank : MayMatch(crd[1][r], crd[2][s])}
             l == active'[r]
  <2>1. M \in SUBSET Nat /\ M \in SUBSET Rank
    BY SomeRank
  <2>2. IsFiniteSet(M)
    <3>1. 0 \in Int /\ NumRank - 1 \in Int
      BY NumRankAssumption
    <3>2. IsFiniteSet(Rank)
      BY <3>1, FS_Interval DEF Rank
    <3> HIDE DEF M
    <3> QED BY <2>1, <3>2, FS_Subset
  <2>3. Upward(l, M)
    BY <1>2 DEF InOrder, Upward
  <2>4. \A s \in Rank : MayMatch(crd[1][r], crd[2][s]) => s \in M
    OBVIOUS
  <2> HIDE DEF M, l
  <2>5. /\ l \in Seq(M)
        /\ \A e \in M : \E k \in 1 .. Len(l) : l[k] = e
    BY <2>1, <2>2, <2>3, UpwardIs
  <2>6. l \in Seq(Rank)
    <3>1. l \in [1 .. Len(l) -> M] /\ Len(l) \in Nat
      BY <2>5, LenProperties
    <3>2. l \in [1 .. Len(l) -> Rank] /\ Len(l) \in Nat
      BY <2>1, <3>1
    <3> QED BY ONLY <3>2
  <2> QED BY <2>4, <2>5, <2>6 DEF l
<1>8. ASSUME NEW r \in Rank
      PROVE  pc'[r] \in {"update", "free"} /\ (pc'[r] = "free" <=> active'[r] = <<>>)
  BY <1>2
<1>9. BinTypes'
  <2>1. best' \in [Rank -> Seq(Guess)]
    BY <1>2, <1>6
  <2>2. active' \in [Rank -> Seq(Rank)]
    BY <1>2, <1>7
  <2>3. pc' \in [Rank -> BinStep]
    BY <1>2, <1>8 DEF BinStep
  <2> QED BY <1>1, <1>2, <2>1, <2>2, <2>3 DEF BinTypes
<1>10. ASSUME NEW r \in Rank
       PROVE  Truthful(r)'
  <2>1. /\ Len(best'[r]) = Len(crd[1][r])
        /\ \A k \in 1 .. Len(best'[r]) :
             /\ best'[r][k].min \in Numbers(2)
             /\ best'[r][k].dsr = Value(Src(1, crd[1][r][k].tn), Src(2, best'[r][k].min))
    BY <1>6
  <2> QED BY <1>2, <2>1, TruthfulIs
<1>11. ASSUME NEW r \in Rank, NEW s \in Rank,
              ~\E n \in 1 .. Len(active'[r]) : active'[r][n] = s
       PROVE  Inner(r, s)'
  <2> DEFINE c1 == crd[1][r]
             c2 == crd[2][s]
  <2>1. ~MayMatch(c1, c2)
    BY <1>7, <1>11
  <2>2. Ascends(c1) /\ Ascends(c2)
    BY <1>4
  <2>3. ASSUME NEW k \in 1 .. Len(c1) - 1, NEW j \in 1 .. Len(c2) - 1
        PROVE  ~Neighbours(c1, c2, k, j)
    <3> HIDE DEF c1, c2
    <3> QED BY <2>1, <2>2, CloseParts
  <2> QED BY <1>2, <2>3, InnerIs
<1>12. ASSUME NEW r \in Rank
       PROVE  Looked(r)'
  BY <1>8, <1>11 DEF Looked
<1>13. Comparing'
  <2>1. Within({"update", "free", "undefined"})'
    BY <1>8 DEF Within
  <2> QED BY <1>5, <1>10, <1>12, <2>1 DEF Comparing, BothRead
<1> QED BY <1>9, <1>13 DEF BinInv

\* One comparison, as far as the process and its list are concerned.
LEMMA Renewed ==
  ASSUME BinTypes, Complete(1), Complete(2), NEW r \in Rank, NEW s \in Rank, Truthful(r),
         NEW new, new = Compared(crd[1][r], crd[2][s], Window(crd[1][r], crd[2][s]), best[r])
  PROVE  /\ new \in Seq(Guess) /\ Len(new) = Len(crd[1][r])
         /\ \A k \in 1 .. Len(crd[1][r]) :
              /\ new[k].min \in Numbers(2)
              /\ new[k].dsr = Value(Src(1, crd[1][r][k].tn), Src(2, new[k].min))
              /\ new[k].dsr \in Nat /\ best[r][k].dsr \in Nat
              /\ new[k].dsr <= best[r][k].dsr
         /\ \A k \in 1 .. Len(crd[1][r]) - 1, j \in 1 .. Len(crd[2][s]) - 1 :
              Neighbours(crd[1][r], crd[2][s], k, j) =>
                new[k].dsr <= Value(crd[1][r][k], crd[2][s][j])
<1> DEFINE c1 == crd[1][r]
           c2 == crd[2][s]
           w == Window(c1, c2)
           old == best[r]
           n == Len(c1)
<1>1. Ascends(c1) /\ Ascends(c2)
  BY PartIs
<1>2. n \in Nat /\ old \in Seq(Guess) /\ Len(old) = n
  BY <1>1, CoordIs DEF BinTypes, Truthful
<1>3. /\ w.cols \in SUBSET (1 .. Len(c2))
      /\ \A k \in 1 .. Len(c1) - 1, j \in 1 .. Len(c2) - 1 :
           Neighbours(c1, c2, k, j) => k \in w.rows /\ j \in w.cols
  BY <1>1, WindowIs
<1>4. ASSUME NEW k \in 1 .. n, NEW j \in 1 .. Len(c2)
      PROVE  /\ c1[k].tn \in Numbers(1) /\ c2[j].tn \in Numbers(2)
             /\ Value(c1[k], c2[j]) = Value(Src(1, c1[k].tn), Src(2, c2[j].tn))
             /\ Value(c1[k], c2[j]) \in Nat
  BY PairValue
<1>5. ASSUME NEW k \in 1 .. n
      PROVE  /\ old[k].min \in Numbers(2)
             /\ old[k].dsr = Value(Src(1, c1[k].tn), Src(2, old[k].min))
             /\ old[k].dsr \in Nat
  <2> DEFINE m == old[k].min
             t == c1[k].tn
  <2>1. m \in Numbers(2) /\ old[k].dsr = Value(Src(1, t), Src(2, m))
    BY <1>2 DEF Truthful
  <2>2. t \in Numbers(1)
    BY PartIs
  <2>3. file \in Pairs
    BY DEF BinTypes
  <2> HIDE DEF m, t
  <2>4. /\ Src(1, t).xs \in Int /\ Src(1, t).xr \in Int
        /\ Src(2, m).xs \in Int /\ Src(2, m).xr \in Int
    BY <2>1, <2>2, <2>3, SrcIs
  <2>5. Value(Src(1, t), Src(2, m)) \in Nat
    BY <2>4, ValueIs
  <2> QED BY <2>1, <2>5 DEF m, t
<1>6. new = Compared(c1, c2, w, old)
  OBVIOUS
<1> HIDE DEF c1, c2, w, old
<1>8. /\ new \in Seq(Guess) /\ Len(new) = Len(c1)
      /\ \A k \in 1 .. Len(c1) :
           /\ \/ new[k] = old[k]
              \/ \E j \in 1 .. Len(c2) :
                   new[k] = [min |-> c2[j].tn, dsr |-> Value(c1[k], c2[j])]
           /\ new[k].dsr <= old[k].dsr
           /\ k \in w.rows => \A j \in w.cols : new[k].dsr <= Value(c1[k], c2[j])
  BY <1>1, <1>2, <1>3, <1>6, ComparedIs
<1>9. ASSUME NEW k \in 1 .. n
      PROVE  /\ new[k].min \in Numbers(2)
             /\ new[k].dsr = Value(Src(1, c1[k].tn), Src(2, new[k].min))
             /\ new[k].dsr \in Nat
  <2>1. CASE new[k] = old[k]
    BY <1>5, <2>1
  <2>2. CASE \E j \in 1 .. Len(c2) : new[k] = [min |-> c2[j].tn, dsr |-> Value(c1[k], c2[j])]
    <3>1. PICK j \in 1 .. Len(c2) : new[k] = [min |-> c2[j].tn, dsr |-> Value(c1[k], c2[j])]
      BY <2>2
    <3>2. new[k].min = c2[j].tn /\ new[k].dsr = Value(c1[k], c2[j])
      BY <3>1
    <3> QED BY <1>4, <3>2
  <2> QED BY <1>8, <2>1, <2>2
<1>10. ASSUME NEW k \in 1 .. Len(c1) - 1, NEW j \in 1 .. Len(c2) - 1, Neighbours(c1, c2, k, j)
       PROVE  new[k].dsr <= Value(c1[k], c2[j])
  <2>1. k \in w.rows /\ j \in w.cols
    BY <1>3, <1>10
  <2>2. k \in 1 .. Len(c1)
    BY <1>2
  <2> QED BY <1>8, <2>1, <2>2
<1>11. \A k \in 1 .. n : old[k].dsr \in Nat /\ new[k].dsr <= old[k].dsr
  BY <1>5, <1>8
<1> QED BY <1>8, <1>9, <1>10, <1>11 DEF c1, c2, old

LEMMA UpdateStep == ASSUME BinInv, NEW r \in Rank, Update(r) PROVE BinInv'
<1>1. BinTypes /\ Comparing
  <2>1. pc[r] = "update"
    BY DEF Update
  <2> QED BY <2>1 DEF BinInv, Within, Opening, Keying, Listing, Meeting, Comparing, Placing,
             Writing, Closed
<1>2. pc[r] = "update" /\ active' = [active EXCEPT ![r] = Tail(@)]
      /\ UNCHANGED <<file, ixline, turn, pass, trlist, crd, match, out>>
  BY DEF Update
<1> DEFINE s == Head(active[r])
           w == Window(crd[1][r], crd[2][s])
           new == Compared(crd[1][r], crd[2][s], w, best[r])
<1>3. IF w.defined
      THEN /\ best' = [best EXCEPT ![r] = new]
           /\ pc' = [pc EXCEPT ![r] = IF Len(active[r]) = 1 THEN "free" ELSE pc[r]]
      ELSE pc' = [pc EXCEPT ![r] = "undefined"] /\ best' = best
  BY DEF Update, CoordsWin
<1>4. Complete(1) /\ Complete(2) /\ NoOut /\ \A q \in Rank : Truthful(q) /\ Looked(q)
  BY <1>1 DEF Comparing, BothRead
<1>5. Complete(1)' /\ Complete(2)' /\ NoOut'
  BY <1>2, <1>4, CompleteStays DEF NoOut
<1>6. /\ active[r] \in Seq(Rank) /\ Len(active[r]) \in Nat /\ Len(active[r]) >= 1
      /\ s \in Rank /\ s = active[r][1]
      /\ Tail(active[r]) \in Seq(Rank) /\ Len(Tail(active[r])) = Len(active[r]) - 1
      /\ \A n \in 1 .. Len(active[r]) - 1 : Tail(active[r])[n] = active[r][n + 1]
  <2>1. active[r] \in Seq(Rank) /\ active[r] # <<>>
    BY <1>1, <1>2, <1>4 DEF BinTypes, Looked
  <2> QED BY <2>1, HeadTailProperties, EmptySeq, LenProperties, ElementOfSeq
<1> HIDE DEF s
<1>7. /\ new \in Seq(Guess) /\ Len(new) = Len(crd[1][r])
      /\ \A k \in 1 .. Len(crd[1][r]) :
           /\ new[k].min \in Numbers(2)
           /\ new[k].dsr = Value(Src(1, crd[1][r][k].tn), Src(2, new[k].min))
           /\ new[k].dsr \in Nat /\ best[r][k].dsr \in Nat
           /\ new[k].dsr <= best[r][k].dsr
      /\ \A k \in 1 .. Len(crd[1][r]) - 1, j \in 1 .. Len(crd[2][s]) - 1 :
           Neighbours(crd[1][r], crd[2][s], k, j) =>
             new[k].dsr <= Value(crd[1][r][k], crd[2][s][j])
  BY <1>1, <1>4, <1>6, Renewed
<1> HIDE DEF w, new
<1>8. pc'[r] \in {"update", "free", "undefined"} /\ \A q \in Rank : q # r => pc'[q] = pc[q]
  <2>1. pc \in [Rank -> BinStep]
    BY <1>1 DEF BinTypes
  <2> QED BY <1>2, <1>3, <2>1
<1>9. BinTypes'
  <2>1. best' \in [Rank -> Seq(Guess)]
    BY <1>1, <1>3, <1>7 DEF BinTypes
  <2>2. active' \in [Rank -> Seq(Rank)]
    BY <1>1, <1>2, <1>6 DEF BinTypes
  <2>3. pc' \in [Rank -> BinStep]
    BY <1>1, <1>3, <1>8 DEF BinTypes, BinStep
  <2> QED BY <1>1, <1>2, <2>1, <2>2, <2>3 DEF BinTypes
<1>10. /\ active'[r] = Tail(active[r])
       /\ \A q \in Rank : q # r => active'[q] = active[q] /\ best'[q] = best[q]
  BY <1>1, <1>2, <1>3 DEF BinTypes
<1>11. best'[r] = IF w.defined THEN new ELSE best[r]
  BY <1>1, <1>3 DEF BinTypes
<1>12. ASSUME NEW q \in Rank
       PROVE  Truthful(q)'
  <2>1. /\ Len(best'[q]) = Len(crd[1][q])
        /\ \A k \in 1 .. Len(best'[q]) :
             /\ best'[q][k].min \in Numbers(2)
             /\ best'[q][k].dsr = Value(Src(1, crd[1][q][k].tn), Src(2, best'[q][k].min))
    <3>1. CASE q = r /\ w.defined
      BY <1>7, <1>11, <3>1
    <3>2. CASE ~(q = r /\ w.defined)
      <4>1. best'[q] = best[q]
        BY <1>10, <1>11, <3>2
      <4> QED BY <1>4, <4>1 DEF Truthful
    <3> QED BY <3>1, <3>2
  <2> QED BY <1>2, <2>1, TruthfulIs
<1>13. ASSUME NEW q \in Rank
       PROVE  Looked(q)'
  <2>1. CASE q # r
    <3>1. pc'[q] = pc[q] /\ active'[q] = active[q] /\ best'[q] = best[q]
      BY <1>8, <1>10, <2>1
    <3>2. Looked(q)
      BY <1>4
    <3>3. \A t : Inner(q, t) => Inner(q, t)'
      BY <1>2, <3>1, InnerStays
    <3> QED BY <3>1, <3>2, <3>3 DEF Looked
  <2>2. CASE q = r /\ ~w.defined
    <3>1. pc'[r] = "undefined"
      BY <1>1, <1>3, <2>2 DEF BinTypes
    <3> QED BY <2>2, <3>1 DEF Looked
  <2>3. CASE q = r /\ w.defined
    <3>1. best'[r] = new
      BY <1>11, <2>3
    <3>2. pc'[r] = IF Len(active[r]) = 1 THEN "free" ELSE "update"
      BY <1>1, <1>2, <1>3, <2>3 DEF BinTypes
    <3>3. Len(active'[r]) = Len(active[r]) - 1 /\ active'[r] \in Seq(Rank)
      BY <1>6, <1>10
    <3>4. pc'[r] = "update" => active'[r] # <<>>
      <4>1. pc'[r] = "update" => Len(active'[r]) # 0
        BY <1>6, <3>2, <3>3
      <4> QED BY <4>1, EmptySeq
    <3>5. pc'[r] = "free" => active'[r] = <<>>
      BY <1>6, <3>2, <3>3, NothingIs
    <3>6. ASSUME NEW t \in Rank, ~\E n \in 1 .. Len(active'[r]) : active'[r][n] = t
          PROVE  Inner(r, t)'
      <4>1. ASSUME NEW k \in 1 .. Len(crd[1][r]) - 1, NEW j \in 1 .. Len(crd[2][t]) - 1,
                   Neighbours(crd[1][r], crd[2][t], k, j)
            PROVE  new[k].dsr <= Value(crd[1][r][k], crd[2][t][j])
        <5>1. CASE t = s
          BY <1>7, <4>1, <5>1
        <5>2. CASE t # s
          <6>1. ~\E n \in 1 .. Len(active[r]) : active[r][n] = t
            <7> SUFFICES ASSUME NEW n \in 1 .. Len(active[r]), active[r][n] = t
                         PROVE  FALSE
              OBVIOUS
            <7>1. n # 1
              BY <1>6, <5>2
            <7>2. n - 1 \in 1 .. Len(active[r]) - 1 /\ (n - 1) + 1 = n
              BY <1>6, <7>1
            <7>3. active'[r][n - 1] = t
              BY <1>6, <1>10, <7>2
            <7> QED BY <3>3, <3>6, <7>2, <7>3
          <6>2. pc[r] # "undefined"
            BY <1>2
          <6>3. Inner(r, t)
            BY <1>4, <6>1, <6>2 DEF Looked
          <6>4. best[r][k].dsr <= Value(crd[1][r][k], crd[2][t][j])
            BY <4>1, <6>3 DEF Inner, Neighbours
          <6> DEFINE n == Len(crd[1][r])
                     m == Len(crd[2][t])
          <6>5. n \in Nat /\ m \in Nat
            <7>1. Ascends(crd[1][r]) /\ Ascends(crd[2][t])
              BY <1>1, <1>4, PartIs
            <7> QED BY <7>1 DEF Ascends
          <6>6. k \in 1 .. n /\ j \in 1 .. m
            BY <6>5
          <6>7. Value(crd[1][r][k], crd[2][t][j]) \in Nat
            BY <1>1, <1>4, <6>6, PairValue
          <6>8. new[k].dsr \in Nat /\ best[r][k].dsr \in Nat /\ new[k].dsr <= best[r][k].dsr
            BY <1>7, <6>6
          <6> QED BY <6>4, <6>7, <6>8
        <5> QED BY <5>1, <5>2
      <4>2. \A k \in 1 .. Len(crd[1][r]) - 1, j \in 1 .. Len(crd[2][t]) - 1 :
              Neighbours(crd[1][r], crd[2][t], k, j) =>
                best'[r][k].dsr <= Value(crd[1][r][k], crd[2][t][j])
        BY <3>1, <4>1
      <4> QED BY <1>2, <4>2, InnerIs
    <3> QED BY <2>3, <3>4, <3>5, <3>6 DEF Looked
  <2> QED BY <2>1, <2>2, <2>3
<1>14. Comparing'
  <2>1. Within({"update", "free", "undefined"})'
    BY <1>1, <1>8 DEF Comparing, Within
  <2> QED BY <1>5, <1>12, <1>13, <2>1 DEF Comparing, BothRead
<1> QED BY <1>9, <1>14 DEF BinInv

\* The pairs that a process keeps are those of some of its traces.
LEMMA MatchesIs ==
  ASSUME BinTypes, Complete(1), NEW r \in Rank, Truthful(r)
  PROVE  /\ Matches(r) \in Seq(Couple)
         /\ \E kept : \A n \in 1 .. Len(Matches(r)) :
              /\ kept[n] \in 1 .. Len(crd[1][r])
              /\ Matches(r)[n].tn[1] = crd[1][r][kept[n]].tn
              /\ Matches(r)[n].tn[2] = best[r][kept[n]].min
              /\ Matches(r)[n].dsr = best[r][kept[n]].dsr
              /\ best[r][kept[n]].dsr <= DsrMax
              /\ \A j \in 1 .. Len(Matches(r)) : kept[j] = kept[n] => j = n
<1> DEFINE b == best[r]
           c == crd[1][r]
           l == Len(c)
           M == {k \in DOMAIN b : CloseEnough(b[k])}
           kept == InOrder(M, <)
           m == Matches(r)
           PairOf(k) == [tn |-> <<c[k].tn, b[k].min>>, dsr |-> b[k].dsr]
<1>1. l \in Nat /\ b \in Seq(Guess) /\ Len(b) = l /\ DOMAIN b = 1 .. l
  <2>1. Ascends(c)
    BY PartIs
  <2>2. b \in Seq(Guess) /\ Len(b) = l
    BY DEF BinTypes, Truthful
  <2> QED BY <2>1, <2>2, LenProperties DEF Ascends
<1>2. ASSUME NEW k \in 1 .. l
      PROVE  PairOf(k) \in Couple
  <2>1. c[k].tn \in Nat
    <3>1. Ascends(c)
      BY PartIs
    <3> HIDE DEF c
    <3> QED BY <3>1, CoordIs
  <2>2. b[k] \in Guess
    BY <1>1, ElementOfSeq
  <2> HIDE DEF b, c
  <2> QED BY <2>1, <2>2 DEF Guess, Couple
<1>3. M \in SUBSET (1 .. l) /\ \A k \in M : b[k].dsr <= DsrMax
  BY <1>1 DEF CloseEnough
<1>4. Upward(kept, M)
  BY DEF InOrder, Upward
<1>5. m = [n \in DOMAIN kept |-> PairOf(kept[n])]
  BY DEF Matches
<1> HIDE DEF b, c, l, M, kept, m
<1>6. M \in SUBSET Nat /\ IsFiniteSet(M)
  <2>1. 1 \in Int /\ l \in Int
    BY <1>1
  <2>2. IsFiniteSet(1 .. l)
    BY <2>1, FS_Interval
  <2>3. M \in SUBSET Nat
    BY <1>1, <1>3
  <2>4. IsFiniteSet(M)
    BY <1>3, <2>2, FS_Subset
  <2> QED BY <2>3, <2>4
<1>7. /\ kept \in Seq(M) /\ Len(kept) \in Nat /\ DOMAIN kept = 1 .. Len(kept)
      /\ \A j, k \in 1 .. Len(kept) : kept[j] = kept[k] => j = k
  BY <1>4, <1>6, UpwardIs
<1>8. \A n \in 1 .. Len(kept) : kept[n] \in M /\ kept[n] \in 1 .. l
  BY <1>3, <1>7, ElementOfSeq
<1>9. m \in Seq(Couple) /\ Len(m) = Len(kept)
  <2>1. m \in [1 .. Len(kept) -> Couple] /\ Len(kept) \in Nat
    BY <1>2, <1>5, <1>7, <1>8
  <2> QED BY ONLY <2>1
<1>10. ASSUME NEW n \in 1 .. Len(m)
       PROVE  /\ kept[n] \in 1 .. l
              /\ m[n].tn[1] = c[kept[n]].tn
              /\ m[n].tn[2] = b[kept[n]].min
              /\ m[n].dsr = b[kept[n]].dsr
              /\ b[kept[n]].dsr <= DsrMax
              /\ \A j \in 1 .. Len(m) : kept[j] = kept[n] => j = n
  <2>1. n \in 1 .. Len(kept) /\ n \in DOMAIN kept
    BY <1>7, <1>9
  <2>2. m[n] = PairOf(kept[n])
    BY <1>5, <2>1
  <2> QED BY <1>3, <1>7, <1>8, <1>9, <2>1, <2>2
<1> QED BY <1>9, <1>10 DEF m, b, c, l

LEMMA KeptIs ==
  ASSUME UNCHANGED <<file, ixline>>,
         \A r \in Rank : \A k \in 1 .. Len(match'[r]) :
           /\ match'[r][k].tn[1] \in Numbers(1) /\ match'[r][k].tn[2] \in Numbers(2)
           /\ match'[r][k].dsr = Value(Src(1, match'[r][k].tn[1]), Src(2, match'[r][k].tn[2]))
           /\ match'[r][k].dsr <= DsrMax,
         \A r, s \in Rank : \A j \in 1 .. Len(match'[r]), k \in 1 .. Len(match'[s]) :
           match'[r][j].tn[1] = match'[s][k].tn[1] => r = s /\ j = k
  PROVE  Kept'
BY DEF Kept, Value, Dsr, Src, Numbers

LEMMA WindowsFreed == BinInv /\ Free => BinInv'
<1> SUFFICES ASSUME BinInv, Free PROVE BinInv'
  OBVIOUS
<1>1. BinTypes /\ Comparing
  <2>1. All("free")
    BY DEF Free
  <2> QED BY <2>1, Alone DEF BinInv
<1>2. /\ match' = [r \in Rank |-> Matches(r)]
      /\ turn' = 1
      /\ pc' = [r \in Rank |-> "output"]
      /\ UNCHANGED <<file, ixline, pass, trlist, crd, active, best, out>>
  BY DEF Free
<1>3. Complete(1) /\ NoOut /\ \A r \in Rank : Truthful(r)
  BY <1>1 DEF Comparing, BothRead
<1> DEFINE From(r, n, k) == /\ k \in 1 .. Len(crd[1][r])
                            /\ match'[r][n].tn[1] = crd[1][r][k].tn
                            /\ match'[r][n].tn[2] = best[r][k].min
                            /\ match'[r][n].dsr = best[r][k].dsr
                            /\ best[r][k].dsr <= DsrMax
<1>4. ASSUME NEW r \in Rank
      PROVE  /\ match'[r] \in Seq(Couple)
             /\ \E kept : \A n \in 1 .. Len(match'[r]) :
                  /\ From(r, n, kept[n])
                  /\ \A j \in 1 .. Len(match'[r]) : kept[j] = kept[n] => j = n
  <2>1. match'[r] = Matches(r)
    BY <1>2
  <2> QED BY <1>1, <1>3, <2>1, MatchesIs
<1>5. BinTypes'
  <2>1. match' \in [Rank -> Seq(Couple)]
    BY <1>2, <1>4
  <2>2. pc' \in [Rank -> BinStep] /\ turn' \in 1 .. 2
    BY <1>2 DEF BinStep
  <2> QED BY <1>1, <1>2, <2>1, <2>2 DEF BinTypes
<1>6. ASSUME NEW r \in Rank, NEW n \in 1 .. Len(match'[r]), NEW k, From(r, n, k)
      PROVE  /\ match'[r][n].tn[1] \in Numbers(1) /\ match'[r][n].tn[2] \in Numbers(2)
             /\ match'[r][n].dsr = Value(Src(1, match'[r][n].tn[1]), Src(2, match'[r][n].tn[2]))
             /\ match'[r][n].dsr <= DsrMax
  <2>1. crd[1][r][k].tn \in Numbers(1)
    BY <1>1, <1>3, <1>6, PartIs
  <2>2. /\ best[r][k].min \in Numbers(2)
        /\ best[r][k].dsr = Value(Src(1, crd[1][r][k].tn), Src(2, best[r][k].min))
    BY <1>3, <1>6 DEF Truthful
  <2> QED BY <1>6, <2>1, <2>2
<1>7. ASSUME NEW r \in Rank, NEW s \in Rank, NEW j \in 1 .. Len(match'[r]),
             NEW k \in 1 .. Len(match'[s]), match'[r][j].tn[1] = match'[s][k].tn[1]
      PROVE  r = s /\ j = k
  <2>1. PICK kr : \A n \in 1 .. Len(match'[r]) :
                    /\ From(r, n, kr[n])
                    /\ \A i \in 1 .. Len(match'[r]) : kr[i] = kr[n] => i = n
    BY <1>4
  <2>2. PICK ks : \A n \in 1 .. Len(match'[s]) : From(s, n, ks[n])
    BY <1>4
  <2>3. crd[1][r][kr[j]].tn = crd[1][s][ks[k]].tn
        /\ kr[j] \in 1 .. Len(crd[1][r]) /\ ks[k] \in 1 .. Len(crd[1][s])
    BY <1>7, <2>1, <2>2
  <2>4. r = s
    BY <1>3, <2>3 DEF Complete
  <2>5. k \in 1 .. Len(match'[r]) /\ From(r, k, kr[k])
    BY <2>1, <2>4
  <2>6. crd[1][r][kr[j]].tn = crd[1][r][kr[k]].tn /\ kr[k] \in 1 .. Len(crd[1][r])
    BY <1>7, <2>1, <2>4, <2>5
  <2>7. kr[j] = kr[k]
    BY <1>3, <2>3, <2>6 DEF Complete
  <2> QED BY <2>1, <2>4, <2>5, <2>7
<1>8. Kept'
  <2> HIDE DEF From
  <2>1. ASSUME NEW r \in Rank, NEW n \in 1 .. Len(match'[r])
        PROVE  \E k : From(r, n, k)
    <3>1. PICK kept : \A i \in 1 .. Len(match'[r]) : From(r, i, kept[i])
      BY <1>4
    <3> QED BY <3>1
  <2>2. \A r \in Rank : \A n \in 1 .. Len(match'[r]) :
          /\ match'[r][n].tn[1] \in Numbers(1) /\ match'[r][n].tn[2] \in Numbers(2)
          /\ match'[r][n].dsr = Value(Src(1, match'[r][n].tn[1]), Src(2, match'[r][n].tn[2]))
          /\ match'[r][n].dsr <= DsrMax
    BY <1>6, <2>1
  <2> QED BY <1>2, <1>7, <2>2, KeptIs
<1>9. Placing'
  <2>1. out'[1] = {} /\ out'[2] = {}
    BY <1>2, <1>3 DEF NoOut
  <2>2. Within({"output"})'
    BY <1>2 DEF Within
  <2> QED BY <1>2, <1>8, <2>1, <2>2 DEF Placing, OutBefore
<1> QED BY <1>5, <1>9 DEF BinInv

-----------------------------------------------------------------------------
(***************************************************************************)
(* outputNonMono.                                                          *)
(***************************************************************************)
LEMMA SizeIs ==
  ASSUME BinTypes, NEW r \in Rank
  PROVE  /\ Size(r) \in Nat /\ match[r] \in Seq(Couple)
         /\ Offset(r) \in Nat
<1>1. \A q \in Rank : match[q] \in Seq(Couple)
  BY DEF BinTypes
<1>2. \A q \in Rank : Size(q) \in Nat
  BY <1>1 DEF Size
<1> DEFINE v == [q \in Rank |-> Size(q)]
<1>3. \A q \in DOMAIN v : v[q] \in Nat
  BY <1>2
<1>4. r \in Nat
  BY SomeRank
<1> HIDE DEF v
<1>5. SumBelow(v, r) \in Nat
  BY <1>3, <1>4, SumStep
<1> QED BY <1>1, <1>2, <1>5 DEF Offset, v

LEMMA RowIs ==
  ASSUME BinTypes, NEW f \in 1 .. 2, NEW r \in Rank, NEW k \in 1 .. Size(r)
  PROVE  Row(f, r, k) \in [place : Nat, tn : Nat, dsr : Int]
<1>1. Size(r) \in Nat /\ match[r] \in Seq(Couple) /\ Offset(r) \in Nat
  BY SizeIs
<1>2. match[r][k] \in Couple
  BY <1>1, ElementOfSeq DEF Size
<1>3. match[r][k].dsr \in Int /\ match[r][k].tn \in Nat \X Nat
  BY <1>2 DEF Couple
<1>4. match[r][k].tn[f] \in Nat
  BY <1>3
<1>5. Where(r, k) \in Nat
  BY <1>1 DEF Where
<1> QED BY <1>3, <1>4, <1>5 DEF Row

LEMMA SameRows ==
  ASSUME UNCHANGED match
  PROVE  /\ \A f, r, n : Rows(f, r, n)' = Rows(f, r, n)
         /\ \A r : Size(r)' = Size(r)
         /\ UNCHANGED <<file, ixline>> /\ Kept => Kept'
<1>1. \A f, r, n : Rows(f, r, n)' = Rows(f, r, n)
  BY DEF Rows, Row, Where, Offset, Size
<1>2. \A r : Size(r)' = Size(r)
  BY DEF Size
<1>3. ASSUME UNCHANGED <<file, ixline>>, Kept
      PROVE  Kept'
  <2>1. /\ \A r \in Rank : \A k \in 1 .. Len(match'[r]) :
             /\ match'[r][k].tn[1] \in Numbers(1) /\ match'[r][k].tn[2] \in Numbers(2)
             /\ match'[r][k].dsr = Value(Src(1, match'[r][k].tn[1]), Src(2, match'[r][k].tn[2]))
             /\ match'[r][k].dsr <= DsrMax
        /\ \A r, s \in Rank : \A j \in 1 .. Len(match'[r]), k \in 1 .. Len(match'[s]) :
             match'[r][j].tn[1] = match'[s][k].tn[1] => r = s /\ j = k
    BY <1>3 DEF Kept
  <2> QED BY <1>3, <2>1, KeptIs
<1> QED BY <1>1, <1>2, <1>3

LEMMA FullStays ==
  ASSUME UNCHANGED match, NEW f, out'[f] = out[f], Full(f)
  PROVE  Full(f)'
BY SameRows DEF Full

LEMMA OutputStep == BinInv /\ Output => BinInv'
<1> SUFFICES ASSUME BinInv, Output PROVE BinInv'
  OBVIOUS
<1>1. BinTypes /\ Placing
  <2>1. All("output")
    BY DEF Output
  <2> QED BY <2>1, Alone DEF BinInv
<1>2. /\ pass' = [r \in Rank |-> Begin(Size(r), MaxOut, Most(Size))]
      /\ pc' = [r \in Rank |-> Goes(pass'[r], Size(r), "write", "written")]
      /\ UNCHANGED <<file, ixline, turn, trlist, crd, active, best, match, out>>
  BY DEF Output, Enter
<1>3. ASSUME NEW r \in Rank
      PROVE  /\ pass'[r] \in Passes /\ Least(pass'[r].i, Size(r)) = 0
             /\ pc'[r] \in {"write", "written"}
             /\ pc'[r] = "written" => pass'[r].i >= Size(r)
  <2> DEFINE n == Size(r)
             m == Most(Size)
  <2>0. match \in [Rank -> Seq(Couple)]
    BY <1>1 DEF BinTypes
  <2>1. n \in Nat /\ m \in Nat /\ n <= m /\ MaxOut \in Nat \ {0}
    BY <2>0, MostOfSize, BinChunks
  <2>2. pass'[r] = Begin(n, MaxOut, m)
    BY <1>2
  <2>3. pc'[r] = Goes(pass'[r], n, "write", "written")
    BY <1>2
  <2> HIDE DEF n, m
  <2>4. /\ pass'[r] \in Passes /\ Least(pass'[r].i, n) = 0
        /\ ~More(pass'[r], n) => pass'[r].i >= n
    BY <2>1, <2>2, PassBegins
  <2> QED BY <2>1, <2>3, <2>4 DEF Goes, n
<1>4. BinTypes'
  <2>1. pass' \in [Rank -> Passes]
    BY <1>2, <1>3
  <2>2. pc' \in [Rank -> BinStep]
    BY <1>2, <1>3 DEF BinStep
  <2> QED BY <1>1, <1>2, <2>1, <2>2 DEF BinTypes
<1>5. Partly(turn)'
  <2>1. \A r \in Rank : Rows(turn, r, Least(pass'[r].i, Size(r))) = {}
    BY <1>3 DEF Rows
  <2>2. UNION {Rows(turn, r, Least(pass'[r].i, Size(r))) : r \in Rank} = {}
    BY <2>1
  <2>3. out'[turn] = {}
    BY <1>1, <1>2 DEF Placing
  <2>4. out'[turn] = UNION {Rows(turn, r, Least(pass'[r].i, Size(r))) : r \in Rank}
    BY <2>2, <2>3
  <2>5. UNCHANGED <<turn, match>>
    BY <1>2
  <2>6. /\ \A f, r, n : Rows(f, r, n)' = Rows(f, r, n)
        /\ \A r : Size(r)' = Size(r)
    BY <2>5, SameRows
  <2> QED BY <2>4, <2>5, <2>6 DEF Partly
<1>6. Writing'
  <2>1. Within({"write", "written"})'
    BY <1>3 DEF Within
  <2>2. OutBefore'
    BY <1>1, <1>2, FullStays DEF Placing, OutBefore
  <2>3. \A r \in Rank : (pc[r] = "written" => Through(r, Size(r)))'
    BY <1>2, <1>3, SameRows DEF Through
  <2>4. Kept'
    BY <1>1, <1>2, SameRows DEF Placing
  <2> QED BY <1>5, <2>1, <2>2, <2>3, <2>4 DEF Writing
<1> QED BY <1>4, <1>6 DEF BinInv

\* The chunk continues the places that are done.
LEMMA MoreUnits ==
  ASSUME NEW r, NEW p \in Passes, pass[r] = p, NEW sz \in Nat, NEW max \in Nat \ {0}
  PROVE  \A k : k \in 1 .. Least(Advance(p, sz, max).i, sz)
                <=> k \in 1 .. Least(p.i, sz) \/ k \in Units(r, sz, max)
<1> DEFINE l == Least(p.i, sz)
           c == Chunk(p, sz, max)
           m == Least(Advance(p, sz, max).i, sz)
<1>1. l \in Nat /\ c \in Nat /\ l + c = m /\ (c > 0 => l = p.i) /\ p.i \in Nat
  BY PassStep
<1>2. Units(r, sz, max) = p.i + 1 .. p.i + c
  BY DEF Units
<1> HIDE DEF l, c, m
<1>3. \A k : k \in 1 .. m <=> k \in 1 .. l \/ k \in p.i + 1 .. p.i + c
  <2>1. CASE c = 0
    BY <1>1, <2>1
  <2>2. CASE c > 0
    BY <1>1, <2>2
  <2> QED BY <1>1, <2>1, <2>2
<1> QED BY <1>2, <1>3 DEF l, m

LEMMA WriteStep == BinInv /\ Write => BinInv'
<1> SUFFICES ASSUME BinInv, Write PROVE BinInv'
  OBVIOUS
<1>1. BinTypes /\ Writing /\ All("write")
  <2>1. All("write")
    BY DEF Write
  <2> QED BY <2>1, Alone DEF BinInv
<1> DEFINE new(r) == {Row(turn, r, k) : k \in Units(r, Size(r), MaxOut)}
<1>2. /\ out' = [out EXCEPT ![turn] = out[turn] \cup UNION {new(r) : r \in Rank}]
      /\ pass' = [r \in Rank |-> Advance(pass[r], Size(r), MaxOut)]
      /\ pc' = [r \in Rank |-> Goes(pass'[r], Size(r), "write", "written")]
      /\ UNCHANGED <<file, ixline, turn, trlist, crd, active, best, match>>
  BY DEF Write, Onward, Row
<1>3. turn \in 1 .. 2 /\ out \in [1 .. 2 -> SUBSET [place : Nat, tn : Nat, dsr : Int]]
  BY <1>1 DEF BinTypes
<1>4. ASSUME NEW r \in Rank
      PROVE  /\ pass'[r] \in Passes
             /\ pc'[r] \in {"write", "written"}
             /\ pc'[r] = "written" => pass'[r].i >= Size(r)
             /\ Rows(turn, r, Least(pass'[r].i, Size(r)))
                = Rows(turn, r, Least(pass[r].i, Size(r))) \cup new(r)
             /\ Least(pass'[r].i, Size(r)) \in Nat
             /\ Least(pass'[r].i, Size(r)) <= Size(r)
  <2> DEFINE n == Size(r)
             p == pass[r]
             q == pass'[r]
  <2>1. n \in Nat /\ p \in Passes /\ MaxOut \in Nat \ {0}
    BY <1>1, SizeIs, BinChunks DEF BinTypes
  <2>2. q = Advance(p, n, MaxOut)
    BY <1>2
  <2>3. pc'[r] = Goes(q, n, "write", "written")
    BY <1>2
  <2>4. pass[r] = p
    OBVIOUS
  <2> HIDE DEF n, p, q
  <2>5. Advance(p, n, MaxOut) \in Passes
        /\ (~More(Advance(p, n, MaxOut), n) => Advance(p, n, MaxOut).i >= n)
    BY <2>1, PassStep
  <2>6. Least(q.i, n) \in Nat /\ Least(q.i, n) <= n
    BY <2>1, <2>2, <2>5, PassStep
  <2>7. Rows(turn, r, Least(q.i, n))
        = Rows(turn, r, Least(p.i, n)) \cup {Row(turn, r, k) : k \in Units(r, n, MaxOut)}
    <3>1. \A k : k \in 1 .. Least(Advance(p, n, MaxOut).i, n)
                 <=> k \in 1 .. Least(p.i, n) \/ k \in Units(r, n, MaxOut)
      BY <2>1, <2>4, MoreUnits
    <3> QED BY <2>2, <3>1 DEF Rows
  <2>8. pc'[r] \in {"write", "written"} /\ (pc'[r] = "written" => ~More(q, n))
    BY <2>3 DEF Goes
  <2> QED BY <2>2, <2>5, <2>6, <2>7, <2>8 DEF n, p, q
<1> HIDE DEF new
<1>5. out'[turn] = UNION {Rows(turn, r, Least(pass'[r].i, Size(r))) : r \in Rank}
  <2>1. out'[turn] = out[turn] \cup UNION {new(r) : r \in Rank}
    BY <1>2, <1>3
  <2>2. out[turn] = UNION {Rows(turn, r, Least(pass[r].i, Size(r))) : r \in Rank}
    BY <1>1 DEF Writing, Partly
  <2> QED BY <1>4, <2>1, <2>2
<1>6. BinTypes'
  <2>1. pass' \in [Rank -> Passes]
    BY <1>2, <1>4
  <2>2. pc' \in [Rank -> BinStep]
    BY <1>2, <1>4 DEF BinStep
  <2>3. out' \in [1 .. 2 -> SUBSET [place : Nat, tn : Nat, dsr : Int]]
    <3>1. ASSUME NEW r \in Rank, NEW e \in Rows(turn, r, Least(pass'[r].i, Size(r)))
          PROVE  e \in [place : Nat, tn : Nat, dsr : Int]
      <4> DEFINE l == Least(pass'[r].i, Size(r))
                 n == Size(r)
      <4>1. PICK k \in 1 .. l : e = Row(turn, r, k)
        BY DEF Rows
      <4>2. l \in Nat /\ l <= n /\ n \in Nat
        BY <1>1, <1>4, SizeIs
      <4> HIDE DEF l, n
      <4>3. k \in 1 .. n
        BY <4>1, <4>2
      <4> QED BY <1>1, <1>3, <4>1, <4>3, RowIs DEF n
    <3>2. out'[turn] \in SUBSET [place : Nat, tn : Nat, dsr : Int]
      BY <1>5, <3>1
    <3>3. out' = [out EXCEPT ![turn] = out'[turn]]
      BY <1>2, <1>3
    <3> QED BY <1>3, <3>2, <3>3
  <2> QED BY <1>1, <1>2, <2>1, <2>2, <2>3 DEF BinTypes
<1>7. Writing'
  <2>1. Within({"write", "written"})'
    BY <1>4 DEF Within
  <2>2. OutBefore'
    <3>1. turn = 1 => out'[2] = out[2]
      BY <1>2, <1>3
    <3>2. turn = 2 => out'[1] = out[1]
      BY <1>2, <1>3
    <3> QED BY <1>1, <1>2, <3>1, <3>2, FullStays DEF Writing, OutBefore
  <2>3. \A r \in Rank : (pc[r] = "written" => Through(r, Size(r)))'
    BY <1>2, <1>4, SameRows DEF Through
  <2>4. Kept'
    BY <1>1, <1>2, SameRows DEF Writing
  <2>5. Partly(turn)'
    BY <1>2, <1>5, SameRows DEF Partly
  <2> QED BY <2>1, <2>2, <2>3, <2>4, <2>5 DEF Writing
<1> QED BY <1>6, <1>7 DEF BinInv

LEMMA EndOutputStep == BinInv /\ EndOutput => BinInv'
<1> SUFFICES ASSUME BinInv, EndOutput PROVE BinInv'
  OBVIOUS
<1>1. BinTypes /\ Writing /\ All("written")
  <2>1. All("written")
    BY DEF EndOutput
  <2> QED BY <2>1, Alone DEF BinInv
<1>2. /\ turn' = 2
      /\ pc' = [r \in Rank |-> IF turn = 1 THEN "output" ELSE "done"]
      /\ UNCHANGED <<file, ixline, pass, trlist, crd, active, best, match, out>>
  BY DEF EndOutput
<1>3. turn \in 1 .. 2
  BY <1>1 DEF BinTypes
<1>4. Full(turn)
  <2>1. ASSUME NEW r \in Rank
        PROVE  Least(pass[r].i, Size(r)) = Size(r)
    <3> DEFINE n == Size(r)
               i == pass[r].i
    <3>1. i >= n
      BY <1>1 DEF Writing, Through, All
    <3>2. n \in Nat /\ i \in Nat
      BY <1>1, SizeIs DEF BinTypes, Passes
    <3> HIDE DEF n, i
    <3>3. Least(i, n) = n
      BY <3>1, <3>2 DEF Least
    <3> QED BY <3>3 DEF n, i
  <2>2. out[turn] = UNION {Rows(turn, r, Least(pass[r].i, Size(r))) : r \in Rank}
    BY <1>1 DEF Writing, Partly
  <2> QED BY <2>1, <2>2 DEF Full
<1>5. BinTypes'
  <2>1. pc' \in [Rank -> BinStep] /\ turn' \in 1 .. 2
    BY <1>2 DEF BinStep
  <2> QED BY <1>1, <1>2, <2>1 DEF BinTypes
<1>6. Kept' /\ OutBefore
  BY <1>1, <1>2, SameRows DEF Writing
<1>7. CASE turn = 1
  <2>1. Within({"output"})'
    BY <1>2, <1>7 DEF Within
  <2>2. out'[2] = {}
    BY <1>2, <1>6, <1>7 DEF OutBefore
  <2>3. Full(1)'
    BY <1>2, <1>4, <1>7, FullStays
  <2>4. Placing'
    BY <1>2, <1>6, <2>1, <2>2, <2>3 DEF Placing, OutBefore
  <2> QED BY <1>5, <2>4 DEF BinInv
<1>8. CASE turn = 2
  <2>1. Within({"done"})'
    BY <1>2, <1>8 DEF Within
  <2>2. Full(1)' /\ Full(2)'
    BY <1>2, <1>4, <1>6, <1>8, FullStays DEF OutBefore
  <2>3. Closed'
    BY <1>6, <2>1, <2>2 DEF Closed
  <2> QED BY <1>5, <2>3 DEF BinInv
<1> QED BY <1>3, <1>7, <1>8

-----------------------------------------------------------------------------
(***************************************************************************)
(* The outline holds at every step.                                        *)
(***************************************************************************)
LEMMA BinInitially == BinInit => BinInv
<1> SUFFICES ASSUME BinInit PROVE BinInv
  OBVIOUS
<1>1. /\ file \in Pairs /\ ixline \in BOOLEAN /\ turn = 1
      /\ pc     = [r \in Rank |-> "open"]
      /\ pass   = [r \in Rank |-> [i |-> 0, rem |-> 0]]
      /\ trlist = [r \in Rank |-> <<>>]
      /\ crd    = [f \in 1 .. 2 |-> [r \in Rank |-> <<>>]]
      /\ active = [r \in Rank |-> <<>>]
      /\ best   = [r \in Rank |-> <<>>]
      /\ match  = [r \in Rank |-> <<>>]
      /\ out    = [f \in 1 .. 2 |-> {}]
  BY DEF BinInit
<1>2. pc \in [Rank -> BinStep] /\ pass \in [Rank -> Passes] /\ turn \in 1 .. 2
  BY <1>1 DEF BinStep, Passes
<1>3. /\ trlist \in [Rank -> Seq(Nat)] /\ active \in [Rank -> Seq(Rank)]
      /\ best \in [Rank -> Seq(Guess)] /\ match \in [Rank -> Seq(Couple)]
  BY <1>1
<1>4. crd \in [1 .. 2 -> [Rank -> Seq(Coord)]]
  BY <1>1
<1>5. out \in [1 .. 2 -> SUBSET [place : Nat, tn : Nat, dsr : Int]]
  BY <1>1
<1>6. BinTypes
  BY <1>1, <1>2, <1>3, <1>4, <1>5 DEF BinTypes
<1>7. Opening
  BY <1>1 DEF Opening, Within, Unread, ReadBefore, NoOut
<1> QED BY <1>6, <1>7 DEF BinInv

LEMMA BinStutters == BinInv /\ UNCHANGED binVars => BinInv'
<1> SUFFICES ASSUME BinInv, UNCHANGED binVars PROVE BinInv'
  OBVIOUS
<1>1. UNCHANGED <<file, ixline, turn, pc, pass, trlist, crd, active, best, match, out>>
  BY DEF binVars
<1>2. BinTypes'
  BY <1>1 DEF BinInv, BinTypes
<1>3. \A f : (Complete(f) => Complete(f)') /\ (Full(f) => Full(f)')
  BY <1>1, CompleteStays, FullStays
<1>4. /\ \A steps : Within(steps)' = Within(steps)
      /\ \A f : Unread(f)' = Unread(f)
      /\ NoOut' = NoOut /\ Unread(turn)' = Unread(turn)
  BY <1>1 DEF Within, Unread, NoOut
<1>5. ReadBefore => ReadBefore'
  BY <1>1, <1>3 DEF ReadBefore
<1>6. Opening => Opening'
  BY <1>4, <1>5 DEF Opening
<1>7. Keying => Keying'
  <2>1. \A r : InSequence(r) => InSequence(r)'
    BY <1>1 DEF InSequence, Through, Nt, Lnt
  <2> QED BY <1>4, <1>5, <2>1 DEF Keying
<1>8. Listing => Listing'
  <2>1. \A r : Filled(r) => Filled(r)'
    BY <1>1 DEF Filled, Through, Nt, Lnt, Entry, Src
  <2>2. Sorted => Sorted'
    <3>1. /\ \A r : Lnt(r)' = Lnt(r)
          /\ Numbers(turn)' = Numbers(turn)
          /\ \A r, k : Src(turn, trlist[r][k])' = Src(turn, trlist[r][k])
      BY <1>1 DEF Nt, Lnt, Src, Numbers
    <3> DEFINE Up(r)    == /\ trlist[r] \in [1 .. Lnt(r) -> Numbers(turn)]
                           /\ \A j, k \in 1 .. Lnt(r) :
                                j < k => Src(turn, trlist[r][j]).xs <= Src(turn, trlist[r][k]).xs
               Apart(r) == \A s \in Rank : \A j \in 1 .. Lnt(r), k \in 1 .. Lnt(s) :
                             trlist[r][j] = trlist[s][k] => r = s /\ j = k
    <3>2. \A r \in Rank : Up(r) => Up(r)'
      BY <1>1, <3>1
    <3>3. \A r \in Rank : Apart(r) => Apart(r)'
      BY <1>1, <3>1
    <3> QED BY <3>2, <3>3 DEF Sorted
  <2> QED BY <1>1, <1>4, <1>5, <2>1, <2>2 DEF Listing
<1>9. BothRead => BothRead'
  BY <1>3, <1>4 DEF BothRead
<1>10. Meeting => Meeting'
  BY <1>4, <1>9 DEF Meeting
<1>11. Comparing => Comparing'
  <2>1. ASSUME NEW r, Truthful(r)
        PROVE  Truthful(r)'
    BY <1>1, <2>1, TruthfulIs DEF Truthful
  <2>2. \A r, s : Inner(r, s) => Inner(r, s)'
    BY <1>1, InnerStays
  <2>3. \A r : Looked(r) => Looked(r)'
    BY <1>1, <2>2 DEF Looked
  <2> QED BY <1>4, <1>9, <2>1, <2>3 DEF Comparing
<1>12. (Kept => Kept') /\ (OutBefore => OutBefore')
  BY <1>1, <1>3, SameRows DEF OutBefore
<1>13. Placing => Placing'
  BY <1>1, <1>4, <1>12 DEF Placing
<1>14. Writing => Writing'
  <2>1. Partly(turn) => Partly(turn)'
    BY <1>1, SameRows DEF Partly
  <2>2. \A r : (pc[r] = "written" => Through(r, Size(r)))
               => (pc[r] = "written" => Through(r, Size(r)))'
    BY <1>1, SameRows DEF Through
  <2> QED BY <1>4, <1>12, <2>1, <2>2 DEF Writing
<1>15. Closed => Closed'
  BY <1>3, <1>4, <1>12 DEF Closed
<1> QED BY <1>2, <1>6, <1>7, <1>8, <1>10, <1>11, <1>13, <1>14, <1>15 DEF BinInv

(***************************************************************************)
(* At each of the calls in which the processes of the binning utility meet *)
(* their lists, coordinates, partners and outputs are as the outline says, *)
(* for any number of processes, any files and any sizes of the chunks.     *)
(***************************************************************************)
THEOREM BinOutline == BinSpec => []BinInv
<1>1. BinInv /\ [BinNext]_binVars => BinInv'
  <2> SUFFICES ASSUME BinInv, [BinNext]_binVars
               PROVE  BinInv'
    OBVIOUS
  <2>1. CASE Open
    BY <2>1, OpenStep
  <2>2. CASE ReadKeys
    BY <2>2, ReadKeysStep
  <2>3. CASE Sort
    BY <2>3, SortStep
  <2>4. CASE ReadCoords
    BY <2>4, ReadCoordsStep
  <2>5. CASE EndRead
    BY <2>5, EndReadStep
  <2>6. CASE Gather
    BY <2>6, GatherStep
  <2>7. CASE \E r \in Rank : Update(r)
    BY <2>7, UpdateStep
  <2>8. CASE Free
    BY <2>8, WindowsFreed
  <2>9. CASE Output
    BY <2>9, OutputStep
  <2>10. CASE Write
    BY <2>10, WriteStep
  <2>11. CASE EndOutput
    BY <2>11, EndOutputStep
  <2>12. CASE Over \/ UNCHANGED binVars
    BY <2>12, BinStutters DEF Over
  <2> QED BY <2>1, <2>2, <2>3, <2>4, <2>5, <2>6, <2>7, <2>8, <2>9, <2>10, <2>11, <2>12
          DEF BinNext
<1> QED BY <1>1, BinInitially, PTL DEF BinSpec

(***************************************************************************)
(* Safety: what the comparison leaves out is at the ends of the parts.     *)
(***************************************************************************)
THEOREM BinInnerClosest == BinSpec => []InnerClosest
<1>1. BinInv => InnerClosest
  <2> SUFFICES ASSUME BinInv, NEW r \in Rank, pc[r] = "free", NEW s \in Rank
               PROVE  Inner(r, s)
    BY DEF InnerClosest, Inner
  <2>1. Comparing
    BY DEF BinInv, Within, Opening, Keying, Listing, Meeting, Comparing, Placing,
           Writing, Closed
  <2>2. Looked(r)
    BY <2>1 DEF Comparing
  <2>3. active[r] = <<>>
    BY <2>2 DEF Looked
  <2>4. ~\E n \in 1 .. Len(active[r]) : active[r][n] = s
    BY <2>3
  <2> QED BY <2>2, <2>4 DEF Looked
<1> QED BY <1>1, BinOutline, PTL

-----------------------------------------------------------------------------
(***************************************************************************)
(* What stands in the two files at the end.                                *)
(***************************************************************************)
Total == SumBelow([q \in Rank |-> Size(q)], NumRank)

\* The places of the processes' pairs follow one another without gaps.
LEMMA PlacesIs ==
  ASSUME BinTypes
  PROVE  /\ Total \in Nat
         /\ \A r \in Rank : \A k \in 1 .. Size(r) : Where(r, k) \in 0 .. Total - 1
         /\ \A r, s \in Rank : \A j \in 1 .. Size(r), k \in 1 .. Size(s) :
              Where(r, j) = Where(s, k) => r = s /\ j = k
         /\ \A t \in 0 .. Total - 1 : \E r \in Rank : \E k \in 1 .. Size(r) : Where(r, k) = t
<1> DEFINE v == [q \in Rank |-> Size(q)]
           n == SumBelow(v, NumRank)
<1>1. /\ \A q \in Rank : v[q] = Size(q) /\ Size(q) \in Nat
      /\ DOMAIN v = Rank
  BY SizeIs
<1>2. NumRank \in Nat /\ \A q \in Rank : q \in Nat /\ q < NumRank
  BY NumRankAssumption DEF Rank
<1>3. Total = n /\ \A r \in Rank : Offset(r) = SumBelow(v, r)
  BY DEF Total, Offset
<1> HIDE DEF v, n
<1>4. \A k \in DOMAIN v : v[k] \in Nat
  BY <1>1
<1>5. \A m \in Nat : SumBelow(v, m) \in Nat
  BY <1>4, SumStep
<1>6. n \in Nat
  BY <1>2, <1>5 DEF n
<1>7. ASSUME NEW r \in Rank, NEW m \in Nat, r < m
      PROVE  /\ Offset(r) \in Nat /\ SumBelow(v, m) \in Nat
             /\ Offset(r) + Size(r) <= SumBelow(v, m)
  <2>1. r \in Nat /\ r \in DOMAIN v /\ r <= m
    BY <1>1, <1>2, <1>7
  <2>2. SumBelow(v, r) + v[r] <= SumBelow(v, m)
    BY <1>4, <1>7, <2>1, SumMonotone
  <2> QED BY <1>1, <1>3, <1>5, <2>1, <2>2
<1>8. ASSUME NEW r \in Rank, NEW k \in 1 .. Size(r)
      PROVE  /\ Where(r, k) \in Nat /\ Where(r, k) = Offset(r) + k - 1
             /\ \A m \in Nat : r < m => Where(r, k) < SumBelow(v, m)
             /\ Offset(r) <= Where(r, k)
  <2>1. Offset(r) \in Nat /\ Size(r) \in Nat
    BY <1>1, <1>2, <1>7
  <2>2. Where(r, k) = Offset(r) + k - 1
    BY DEF Where
  <2>3. ASSUME NEW m \in Nat, r < m
        PROVE  Where(r, k) < SumBelow(v, m)
    <3>1. Offset(r) + Size(r) <= SumBelow(v, m) /\ SumBelow(v, m) \in Nat
      BY <1>7, <2>3
    <3> QED BY <2>1, <2>2, <3>1
  <2> QED BY <2>1, <2>2, <2>3
<1>9. ASSUME NEW r \in Rank, NEW k \in 1 .. Size(r)
      PROVE  Where(r, k) \in 0 .. n - 1
  <2>1. Where(r, k) \in Nat /\ Where(r, k) < n
    BY <1>2, <1>8 DEF n
  <2> QED BY <1>6, <2>1
<1>10. ASSUME NEW r \in Rank, NEW s \in Rank, r < s,
              NEW j \in 1 .. Size(r), NEW k \in 1 .. Size(s)
       PROVE  Where(r, j) < Where(s, k)
  <2>1. s \in Nat /\ SumBelow(v, s) \in Nat /\ Offset(s) = SumBelow(v, s)
    BY <1>2, <1>3, <1>5
  <2>2. /\ Where(r, j) < SumBelow(v, s) /\ Where(r, j) \in Nat
        /\ Offset(s) <= Where(s, k) /\ Where(s, k) \in Nat
    BY <1>8, <1>10, <2>1
  <2> QED BY <2>1, <2>2
<1>11. ASSUME NEW r \in Rank, NEW s \in Rank, NEW j \in 1 .. Size(r), NEW k \in 1 .. Size(s),
              Where(r, j) = Where(s, k)
       PROVE  r = s /\ j = k
  <2>1. Where(r, j) \in Nat /\ Where(s, k) \in Nat
    BY <1>8
  <2>2. ~(r < s) /\ ~(s < r)
    BY <1>10, <1>11, <2>1
  <2>3. r = s
    BY <1>2, <2>2
  <2>4. /\ Where(r, j) = Offset(r) + j - 1 /\ Where(s, k) = Offset(r) + k - 1
        /\ Offset(r) \in Nat /\ Size(r) \in Nat /\ Size(s) \in Nat
    BY <1>1, <1>2, <1>7, <1>8, <2>3
  <2>5. j \in Int /\ k \in Int
    BY <2>4
  <2> QED BY <1>11, <2>3, <2>4, <2>5
<1>12. ASSUME NEW t \in 0 .. n - 1
       PROVE  \E r \in Rank : \E k \in 1 .. Size(r) : Where(r, k) = t
  <2>1. t \in Nat /\ t < n
    BY <1>6
  <2>2. \E r \in DOMAIN v : /\ r \in Nat /\ r < NumRank
                            /\ SumBelow(v, r) <= t /\ t < SumBelow(v, r) + v[r]
    BY <1>2, <1>4, <2>1, SumFind DEF n
  <2>3. PICK r \in Rank : Offset(r) <= t /\ t < Offset(r) + Size(r)
    BY <1>1, <1>3, <2>2
  <2>4. Offset(r) \in Nat /\ Size(r) \in Nat
    BY <1>1, <1>2, <1>7
  <2> DEFINE k == t - Offset(r) + 1
  <2>5. k \in 1 .. Size(r) /\ Offset(r) + k - 1 = t
    BY <2>1, <2>3, <2>4
  <2> HIDE DEF k
  <2> QED BY <1>8, <2>5
<1> QED BY <1>3, <1>6, <1>9, <1>11, <1>12

LEMMA FileWritten ==
  ASSUME BinTypes, NEW f \in 1 .. 2, Full(f)
  PROVE  /\ \A w \in out[f] : \E r \in Rank : \E k \in 1 .. Size(r) : w = Row(f, r, k)
         /\ {w.place : w \in out[f]} = 0 .. Total - 1
         /\ IsFiniteSet(out[f]) /\ Cardinality(out[f]) = Total
<1> DEFINE n == Total
           S == 0 .. n - 1
<1>1. \A w : w \in out[f] <=> \E r \in Rank : \E k \in 1 .. Size(r) : w = Row(f, r, k)
  BY DEF Full, Rows
<1>2. n \in Nat
  BY PlacesIs
<1>3. \A r, k : Row(f, r, k).place = Where(r, k)
  BY DEF Row
<1> HIDE DEF n
<1>4. \A w \in out[f] : w.place \in S
  BY <1>1, <1>3, PlacesIs DEF n
<1>5. ASSUME NEW t \in S
      PROVE  \E w \in out[f] : w.place = t
  <2>1. PICK r \in Rank : \E k \in 1 .. Size(r) : Where(r, k) = t
    BY PlacesIs DEF n
  <2>2. PICK k \in 1 .. Size(r) : Where(r, k) = t
    BY <2>1
  <2> QED BY <1>1, <1>3, <2>2
<1>6. ASSUME NEW w \in out[f], NEW u \in out[f], w.place = u.place
      PROVE  w = u
  <2>1. PICK r \in Rank : \E k \in 1 .. Size(r) : w = Row(f, r, k)
    BY <1>1
  <2>2. PICK j \in 1 .. Size(r) : w = Row(f, r, j)
    BY <2>1
  <2>3. PICK s \in Rank : \E k \in 1 .. Size(s) : u = Row(f, s, k)
    BY <1>1
  <2>4. PICK k \in 1 .. Size(s) : u = Row(f, s, k)
    BY <2>3
  <2>5. Where(r, j) = Where(s, k)
    BY <1>3, <1>6, <2>2, <2>4
  <2>6. r = s /\ j = k
    BY <2>5, PlacesIs
  <2> QED BY <2>2, <2>4, <2>6
<1>7. {w.place : w \in out[f]} = S
  BY <1>4, <1>5
<1>8. IsFiniteSet(S) /\ Cardinality(S) = n
  <2>1. 0 \in Int /\ n - 1 \in Int
    BY <1>2
  <2>2. IsFiniteSet(S) /\ Cardinality(S) = IF 0 > n - 1 THEN 0 ELSE (n - 1) - 0 + 1
    BY <2>1, FS_Interval
  <2> QED BY <1>2, <2>2
<1> DEFINE g == [t \in S |-> CHOOSE w \in out[f] : w.place = t]
<1>9. \A t \in S : g[t] \in out[f] /\ g[t].place = t
  BY <1>5
<1>10. g \in [S -> out[f]]
  BY <1>9
<1> HIDE DEF g, S
<1>11. \A x, y \in S : g[x] = g[y] => x = y
  BY <1>9
<1>12. \A w \in out[f] : \E x \in S : g[x] = w
  BY <1>4, <1>6, <1>9
<1>13. IsFiniteSet(out[f]) /\ Cardinality(out[f]) = Cardinality(S)
  BY <1>8, <1>10, <1>11, <1>12, Matched
<1> QED BY <1>1, <1>7, <1>8, <1>13 DEF n, S

LEMMA WrittenOnce ==
  ASSUME BinTypes, Kept, Full(1)
  PROVE  Cardinality({w.tn : w \in out[1]}) = Total
<1> DEFINE T == {w.tn : w \in out[1]}
           g == [w \in out[1] |-> w.tn]
<1>1. /\ \A w \in out[1] : \E r \in Rank : \E k \in 1 .. Size(r) : w = Row(1, r, k)
      /\ IsFiniteSet(out[1]) /\ Cardinality(out[1]) = Total
  BY FileWritten
<1>2. ASSUME NEW w \in out[1], NEW u \in out[1], w.tn = u.tn
      PROVE  w = u
  <2>1. PICK r \in Rank : \E k \in 1 .. Size(r) : w = Row(1, r, k)
    BY <1>1
  <2>2. PICK j \in 1 .. Size(r) : w = Row(1, r, j)
    BY <2>1
  <2>3. PICK s \in Rank : \E k \in 1 .. Size(s) : u = Row(1, s, k)
    BY <1>1
  <2>4. PICK k \in 1 .. Size(s) : u = Row(1, s, k)
    BY <2>3
  <2>5. match[r][j].tn[1] = match[s][k].tn[1]
    BY <1>2, <2>2, <2>4 DEF Row
  <2>6. r = s /\ j = k
    BY <2>5 DEF Kept, Size
  <2> QED BY <2>2, <2>4, <2>6
<1>3. g \in [out[1] -> T] /\ \A w \in out[1] : g[w] = w.tn
  OBVIOUS
<1>4. \A z \in T : \E w \in out[1] : g[w] = z
  OBVIOUS
<1> HIDE DEF g, T
<1>5. \A x, y \in out[1] : g[x] = g[y] => x = y
  BY <1>2, <1>3
<1>6. Cardinality(T) = Cardinality(out[1])
  BY <1>1, <1>3, <1>4, <1>5, Matched
<1> QED BY <1>1, <1>6 DEF T

LEMMA StandBeside ==
  ASSUME BinTypes, Kept, Full(1), Full(2),
         NEW w \in out[1], NEW v \in out[2], w.place = v.place
  PROVE  /\ w.dsr = v.dsr /\ w.dsr <= DsrMax
         /\ w.dsr = Value(file[1][w.tn + 1], file[2][v.tn + 1])
<1>1. PICK r \in Rank : \E k \in 1 .. Size(r) : w = Row(1, r, k)
  BY FileWritten
<1>2. PICK j \in 1 .. Size(r) : w = Row(1, r, j)
  BY <1>1
<1>3. PICK s \in Rank : \E k \in 1 .. Size(s) : v = Row(2, s, k)
  BY FileWritten
<1>4. PICK k \in 1 .. Size(s) : v = Row(2, s, k)
  BY <1>3
<1>5. r = s /\ j = k
  <2>1. Where(r, j) = Where(s, k)
    BY <1>2, <1>4 DEF Row
  <2> QED BY <2>1, PlacesIs
<1> DEFINE m == match[r][j]
<1>6. w.tn = m.tn[1] /\ v.tn = m.tn[2] /\ w.dsr = m.dsr /\ v.dsr = m.dsr
  BY <1>2, <1>4, <1>5 DEF Row
<1>7. m.dsr = Value(Src(1, m.tn[1]), Src(2, m.tn[2])) /\ m.dsr <= DsrMax
  BY DEF Kept, Size
<1> HIDE DEF m
<1> QED BY <1>6, <1>7 DEF Src

(***************************************************************************)
(* Safety: the two new files belong together.                              *)
(***************************************************************************)
THEOREM BinPairsWritten == BinSpec => []PairsWritten
<1>1. BinInv => PairsWritten
  <2> SUFFICES ASSUME BinInv, All("done")
               PROVE  /\ \A f \in 1 .. 2 : /\ {w.place : w \in out[f]} = 0 .. Total - 1
                                           /\ Cardinality(out[f]) = Total
                      /\ Cardinality({w.tn : w \in out[1]}) = Total
                      /\ \A w \in out[1], v \in out[2] : w.place = v.place =>
                           /\ w.dsr = v.dsr /\ w.dsr <= DsrMax
                           /\ w.dsr = Value(file[1][w.tn + 1], file[2][v.tn + 1])
    BY DEF PairsWritten, Total
  <2>1. BinTypes /\ Closed
    BY Alone DEF BinInv
  <2>2. Kept /\ Full(1) /\ Full(2) /\ \A f \in 1 .. 2 : Full(f)
    BY <2>1 DEF Closed
  <2>3. \A f \in 1 .. 2 : /\ {w.place : w \in out[f]} = 0 .. Total - 1
                          /\ Cardinality(out[f]) = Total
    BY <2>1, <2>2, FileWritten
  <2>4. Cardinality({w.tn : w \in out[1]}) = Total
    BY <2>1, <2>2, WrittenOnce
  <2>5. \A w \in out[1], v \in out[2] : w.place = v.place =>
          /\ w.dsr = v.dsr /\ w.dsr <= DsrMax
          /\ w.dsr = Value(file[1][w.tn + 1], file[2][v.tn + 1])
    BY <2>1, <2>2, StandBeside
  <2> QED BY <2>3, <2>4, <2>5
<1> QED BY <1>1, BinOutline, PTL
=============================================================================
