------------------------------ MODULE Lifetimes -----------------------------
(***************************************************************************)
(* The handles of the C interface (api/cfileapi.cc) and of the C++ one     *)
(* under it (api/cppfileapi.cc), the objects they keep alive, and MPI,     *)
(* which the library may start and end (MPIManager of src/cmpi.cc).        *)
(*                                                                         *)
(* A program makes the same calls on all processes.  A handle is known by  *)
(* the place of the call that made it.  A handle to a PIOL or to a rule is *)
(* a shared pointer to the object, the others are the object itself;       *)
(* files and parameters hold a shared pointer to what they were made *)
(* of.  What a call does with MPI is a list of steps, most of them         *)
(* collective: "sizes" is a reduction over the communicator, "io" a data   *)
(* access of one file.  A data access or a close may fail on some of the   *)
(* processes, an open on all of them, as MPI sees to; what fails is        *)
(* recorded in the log of the PIOL.                                        *)
(*                                                                         *)
(* Programs keep to the rules: one PIOL at a time (include/anc/piol.hh),   *)
(* handles are deleted at most once and not used afterwards, MPI is        *)
(* not finalised below live files; whoever starts MPI ends it, unless      *)
(* manageMPI says otherwise.                                               *)
(*                                                                         *)
(* A definition Bug... is not part of the model.  It is the definition     *)
(* after it with a plausible mistake, which the properties are to notice.  *)
(***************************************************************************)
EXTENDS Decompose, Sequences, FiniteSets

CONSTANTS Kinds,       \* the kinds of handles made besides the PIOL
          MaxCalls,    \* bound: calls before those that end the program
          MaxHandles,  \* bound: handles made
          MaxLead,     \* bound: calls a process is ahead of another
          MaxErrors    \* bound: errors in the log of a process, not yet printed

Files == {"ReadDirect", "WriteDirect"}

ASSUME KindsAssumption   == Kinds \subseteq Files \cup {"Rule", "Param"}
ASSUME BoundsAssumption  == MaxCalls \in Nat /\ MaxHandles \in Nat
                            /\ MaxLead \in Nat \ {0} /\ MaxErrors \in Nat

VARIABLES script,      \* the calls of the program, as far as they are known
          at,          \* at[p]: the call p is in, or was in last
          todo,        \* todo[p]: the steps left of it
          managing,    \* managing[p]: managingMPI()
          manager,     \* manager[p]: the static MPIManager, "none", "made" or "gone"
          mpi,         \* mpi[p]: MPI is "not" started, "on" or "off"
          handles,     \* handles[p]: the handles not yet deleted
          alive,       \* alive[p]: the objects not yet destroyed
          open,        \* open[p]: the files that have an MPI file
          err,         \* err[p]: log->isErr()
          unsaid,      \* unsaid[p]: errors in the log, not yet printed
          ended,       \* ended[p]: "no", "returned", "aborted" or "killed"
          reckless     \* a file was used with an error in the log

vars == <<script, at, todo, managing, manager, mpi, handles, alive, open, err, unsaid,
          ended, reckless>>

Init == /\ script = <<>>
        /\ at = [p \in Rank |-> 0]
        /\ todo = [p \in Rank |-> <<>>]
        /\ managing = [p \in Rank |-> "unset"]
        /\ manager = [p \in Rank |-> "none"]
        /\ mpi = [p \in Rank |-> "not"]
        /\ handles = [p \in Rank |-> {}]
        /\ alive = [p \in Rank |-> {}]
        /\ open = [p \in Rank |-> {}]
        /\ err = [p \in Rank |-> FALSE]
        /\ unsaid = [p \in Rank |-> 0]
        /\ ended = [p \in Rank |-> "no"]
        /\ reckless = FALSE
-----------------------------------------------------------------------------
Kind(h)   == script[h].kind
Of(h)     == script[h].of               \* what h holds a pointer to, 0 if nothing
Made      == {n \in DOMAIN script : script[n].op = "new"}
Some(p, kinds) == {h \in handles[p] : Kind(h) \in kinds}
Piol(p)   == {h \in alive[p] : Kind(h) = "ExSeis"}

\* The objects that handles keep alive: their own and those they point to.
Reach(hs) == hs \cup ({Of(h) : h \in hs} \ {0})

BugDead(p) == alive[p] \ handles[p]              \* whoever else points to it
Dead(p)    == alive[p] \ Reach(handles[p])

(***************************************************************************)
(* MPIManager: what its constructor and its destructor do.                 *)
(***************************************************************************)
Starts(p) == manager[p] = "none" /\ managing[p] # "no" /\ mpi[p] = "not"

ManagingAfter(p) ==
  IF manager[p] = "none" /\ managing[p] = "unset"
  THEN IF mpi[p] = "not" THEN "yes" ELSE "no"
  ELSE managing[p]

BugStops(p) == manager[p] = "made" /\ managing[p] = "yes"       \* without MPI_Finalized
Stops(p)    == manager[p] = "made" /\ managing[p] = "yes" /\ mpi[p] # "off"

(***************************************************************************)
(* Steps.  A process whose MPI file is null leaves out what is of the file *)
(* alone: it does not open, so it reads a size of 0 and no header.         *)
(***************************************************************************)
Sizes          == <<"sizes", 0>>
Transfer(p, h) == IF h \in open[p] THEN <<Sizes, <<"io", h>>>> ELSE <<Sizes>>
HeaderRead(p, h) == IF h \in open[p] THEN Transfer(p, h) ELSE <<>>
Close(p, h)    == IF h \in open[p] THEN <<<<"close", h>>>> ELSE <<>>

\* ~WriteSEGY: with an error in the log nothing is written.
BugLast(p, h) == IF Kind(h) = "WriteDirect" /\ ~err[p] /\ p = 0     \* the root alone
                 THEN Transfer(p, h) ELSE <<>>
Last(p, h)    == IF Kind(h) = "WriteDirect" /\ ~err[p] THEN Transfer(p, h) ELSE <<>>
-----------------------------------------------------------------------------
Call(op, kind, of) == [op |-> op, kind |-> kind, of |-> of]

\* p begins call c, with the given steps.  The process that is ahead chooses
\* what the program does next.
BeginCall(p, c, steps) ==
  /\ ended[p] = "no" /\ todo[p] = <<>>
  /\ \A q \in Rank : ended[q] = "no" => at[p] - at[q] < MaxLead
  /\ IF at[p] < Len(script)
     THEN script[at[p] + 1] = c /\ UNCHANGED script
     ELSE /\ Len(script) < MaxCalls \/ c.op \in {"delete", "Finalize", "return"}
          /\ c.op = "new" => Cardinality(Made) < MaxHandles
          /\ script' = Append(script, c)
  /\ at' = [at EXCEPT ![p] = @ + 1]
  /\ todo' = [todo EXCEPT ![p] = steps]
  /\ reckless' = (reckless \/ (err[p] /\ c.kind \in Files /\ c.op # "about"))

objects == <<handles, alive, open, err, unsaid>>
library == <<managing, manager, mpi>>

\* What the program does by itself: MPI_Init, manageMPI, MPI_Finalize.
UserInit(p) == /\ mpi[p] = "not"
               /\ BeginCall(p, Call("Init", "", 0), <<<<"init", 0>>>>)
               /\ UNCHANGED <<library, objects, ended>>

ManageMPI(p) ==
  \E m \in {"yes", "no"} :
    /\ m = "no" => mpi[p] = "on"
    /\ BeginCall(p, Call("manage", m, 0), <<>>)
    /\ managing' = [managing EXCEPT ![p] = m]
    /\ UNCHANGED <<manager, mpi, objects, ended>>

UserFinalize(p) == /\ mpi[p] = "on"
                   /\ \A h \in alive[p] : Kind(h) \notin Files \cup {"ExSeis"}
                   /\ BeginCall(p, Call("Finalize", "", 0), <<<<"finalize", 0>>>>)
                   /\ UNCHANGED <<library, objects, ended>>

\* A new handle, whose object p sees to at once.
Add(p) == /\ handles' = [handles EXCEPT ![p] = @ \cup {at'[p]}]
          /\ alive' = [alive EXCEPT ![p] = @ \cup {at'[p]}]
          /\ UNCHANGED <<open, err, unsaid, ended>>

ExSeisNew(p) == /\ Piol(p) = {} /\ mpi[p] # "off"
                /\ BeginCall(p, Call("new", "ExSeis", 0), IF Starts(p) THEN <<<<"init", 0>>>> ELSE <<>>)
                /\ manager' = [manager EXCEPT ![p] = "made"]
                /\ managing' = [managing EXCEPT ![p] = ManagingAfter(p)]
                /\ UNCHANGED mpi
                /\ Add(p)

FileNew(p) ==
  \E k \in Kinds \cap Files, x \in Some(p, {"ExSeis"}) :
    /\ BeginCall(p, Call("new", k, x),
             <<<<"open", at[p] + 1>>>>
               \o IF k = "WriteDirect" THEN <<>> ELSE <<<<"head", at[p] + 1>>>>)
    /\ UNCHANGED library
    /\ Add(p)

RuleNew(p) == /\ "Rule" \in Kinds
              /\ BeginCall(p, Call("new", "Rule", 0), <<>>)
              /\ UNCHANGED library
              /\ Add(p)

ParamNew(p) == /\ "Param" \in Kinds
               /\ \E r \in {0} \cup Some(p, {"Rule"}) : BeginCall(p, Call("new", "Param", r), <<>>)
               /\ UNCHANGED library
               /\ Add(p)

\* The functions that take a handle and pass the call on: reductions of a
\* PIOL; what is in memory of a rule, of parameters or of a file; traces.
Use(p, op, kinds, steps(_)) ==
  /\ \E h \in Some(p, kinds) : BeginCall(p, Call(op, Kind(h), h), steps(h))
  /\ UNCHANGED <<library, objects, ended>>

UsePiol(p)   == Use(p, "use", {"ExSeis"}, LAMBDA h : <<Sizes>>)
UseRule(p)   == Use(p, "use", {"Rule"}, LAMBDA h : <<>>)
UseParam(p)  == Use(p, "use", {"Param"}, LAMBDA h : <<>>)
UseHeader(p) == Use(p, "about", Files, LAMBDA h : <<>>)
UseTrace(p)  == Use(p, "use", Files, LAMBDA h : Transfer(p, h))

Delete(p) ==
  \E h \in handles[p] :
    /\ BeginCall(p, Call("delete", Kind(h), h), Last(p, h) \o Close(p, h) \o <<<<"free", h>>>>)
    /\ handles' = [handles EXCEPT ![p] = @ \ {h}]
    /\ UNCHANGED <<library, alive, open, err, unsaid, ended>>

\* With an error: the log is printed and the process exits as it is.
IsErr(p) ==
  \E h \in Some(p, {"ExSeis"}) :
    /\ BeginCall(p, Call("isErr", "ExSeis", h), <<>>)
    /\ IF err[p] THEN /\ unsaid' = [unsaid EXCEPT ![p] = 0]
                      /\ ended' = [ended EXCEPT ![p] = "aborted"]
                 ELSE UNCHANGED <<unsaid, ended>>
    /\ UNCHANGED <<library, handles, alive, open, err>>

\* The return from main: the manager is destroyed, handles are not.
Return(p) ==
  /\ mpi[p] = "on" => managing[p] = "yes"
  /\ BeginCall(p, Call("return", "", 0),
           (IF Stops(p) THEN <<<<"finalize", 0>>>> ELSE <<>>) \o <<<<"end", 0>>>>)
  /\ UNCHANGED <<library, objects, ended>>
-----------------------------------------------------------------------------
Next1(p) == Head(todo[p])               \* the step p comes to
Ready(p) == ended[p] = "no" /\ todo[p] # <<>>

\* Steps a process makes by itself.
Local(p) ==
  /\ Ready(p)
  /\ \/ /\ Next1(p)[1] = "head"
        /\ todo' = [todo EXCEPT ![p] = HeaderRead(p, @[1][2]) \o Tail(@)]
        /\ UNCHANGED <<alive, err, unsaid, manager, ended>>
     \/ /\ Next1(p)[1] = "free"
        /\ todo' = [todo EXCEPT ![p] = Tail(@)]
        /\ alive' = [alive EXCEPT ![p] = @ \ Dead(p)]
        /\ LET silent == Piol(p) \cap Dead(p) = {}
           IN  /\ err' = [err EXCEPT ![p] = silent /\ @]
               /\ unsaid' = [unsaid EXCEPT ![p] = IF silent THEN @ ELSE 0]
        /\ UNCHANGED <<manager, ended>>
     \/ /\ Next1(p)[1] = "end"
        /\ todo' = [todo EXCEPT ![p] = Tail(@)]
        /\ manager' = [manager EXCEPT ![p] = "gone"]
        /\ ended' = [ended EXCEPT ![p] = "returned"]
        /\ UNCHANGED <<alive, err, unsaid>>
  /\ UNCHANGED <<script, at, managing, mpi, handles, open, reckless>>

\* MPI calls that all processes make together; those in F fail.
Together(s, F) ==
  /\ \A p \in Rank : Ready(p) /\ Next1(p) = s
  /\ s[1] \in {"init", "finalize", "sizes", "open", "io", "close"}
  /\ F # {} => s[1] \in {"io", "close"} \/ (s[1] = "open" /\ F = Rank)
  /\ todo' = [p \in Rank |-> Tail(todo[p])]
  /\ mpi' = [p \in Rank |-> CASE s[1] = "init"     -> "on"
                              [] s[1] = "finalize" -> "off"
                              [] OTHER             -> mpi[p]]
  /\ open' = [p \in Rank |-> CASE s[1] = "open" /\ p \notin F -> open[p] \cup {s[2]}
                               [] s[1] = "close"              -> open[p] \ {s[2]}
                               [] OTHER                       -> open[p]]
  /\ err' = [p \in Rank |-> err[p] \/ p \in F]
  /\ unsaid' = [p \in Rank |-> IF p \in F THEN unsaid[p] + 1 ELSE unsaid[p]]
  /\ UNCHANGED <<script, at, managing, manager, handles, alive, ended, reckless>>

Collective ==
  /\ Ready(0)
  /\ \E F \in SUBSET Rank :
       /\ \A p \in F : unsaid[p] < MaxErrors
       /\ Together(Next1(0), F)

\* The launcher ends the processes of a program one of which went without
\* MPI_Finalize.
Kill(p) == /\ \E q \in Rank : ended[q] = "aborted"
           /\ ended[p] = "no"
           /\ ended' = [ended EXCEPT ![p] = "killed"]
           /\ UNCHANGED <<script, at, todo, library, objects, reckless>>

Finished == (\A p \in Rank : ended[p] # "no") /\ UNCHANGED vars

Next == \/ \E p \in Rank :
             \/ UserInit(p) \/ ManageMPI(p) \/ UserFinalize(p)
             \/ ExSeisNew(p) \/ FileNew(p) \/ RuleNew(p) \/ ParamNew(p)
             \/ UsePiol(p) \/ UseRule(p) \/ UseParam(p) \/ UseHeader(p) \/ UseTrace(p)
             \/ Delete(p) \/ IsErr(p) \/ Return(p)
             \/ Local(p) \/ Kill(p)
        \/ Collective
        \/ Finished

Spec == Init /\ [][Next]_vars /\ WF_vars(Next)
-----------------------------------------------------------------------------
(***************************************************************************)
(* Invariant: MPI is started once, and all other calls of MPI lie between  *)
(* its start and its end, whoever made them: the program, an object that   *)
(* is destroyed late, or the manager at exit.  When the program ends, MPI  *)
(* has ended, unless no PIOL was there to bring the manager into being.    *)
(***************************************************************************)
MpiCovers ==
  \A p \in Rank :
    /\ Ready(p) /\ Next1(p)[1] = "init" => mpi[p] = "not"
    /\ Ready(p) /\ Next1(p)[1] \in {"finalize", "sizes", "open", "io", "close"} => mpi[p] = "on"
    /\ ended[p] = "returned" /\ mpi[p] = "on" => \A n \in Made : Kind(n) # "ExSeis"

(***************************************************************************)
(* Invariant: a process that deletes its handles, in whatever order, has   *)
(* printed every error of its log when it ends, those of the destructors   *)
(* too; and one that ends at isErr has printed those until then.           *)
(***************************************************************************)
ErrorsSaid ==
  \A p \in Rank :
    ended[p] = "aborted" \/ (ended[p] = "returned" /\ handles[p] = {}) => unsaid[p] = 0

(***************************************************************************)
(* Liveness: the processes all end, in whatever order handles are deleted, *)
(* unless a file is used or deleted with an error in the log of a process, *)
(* which then leaves out collective calls that others make.                *)
(***************************************************************************)
Terminates == <>(reckless \/ \A p \in Rank : ended[p] # "no")
=============================================================================
