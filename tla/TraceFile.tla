----------------------------- MODULE TraceFile ------------------------------
(***************************************************************************)
(* What WriteInterface of include/file/file.hh promises: a file is made of *)
(* numbered traces, of which callers put the headers and the samples in    *)
(* any order, and has as many of them as were last announced, or more when *)
(* more were put since.  That many processes put them, where they lie in   *)
(* the file and when their number gets known is left open.                 *)
(***************************************************************************)
EXTENDS Integers

CONSTANT MaxNt         \* a bound on the number of traces

VARIABLES held,        \* what was put and is in the file
          count,       \* the number of traces
          state        \* "open", "closed" or "failed"

vars == <<held, count, state>>

Cell == [part : {"prm", "trc"}, place : 0 .. MaxNt - 1]

Init == held = {} /\ count = 0 /\ state = "open"

\* The last of the places that are put is t - 1.
Put == \E t \in 1 .. MaxNt :
         /\ state = "open"
         /\ held \subseteq held' /\ held' \subseteq Cell
         /\ \A c \in held' \ held : c.place < t
         /\ \E c \in held' : c.place = t - 1
         /\ count' = IF count < t THEN t ELSE count
         /\ UNCHANGED state

Announce == /\ state = "open"
            /\ count' \in 0 .. MaxNt
            /\ UNCHANGED <<held, state>>

\* What lies behind the last trace is cut off.
Close == /\ state = "open"
         /\ held' = {c \in held : c.place < count}
         /\ state' = "closed"
         /\ UNCHANGED count

\* After an error that was logged, or without a number of samples, nothing
\* is promised.
Fail == state # "closed" /\ state' = "failed"

Next == Put \/ Announce \/ Close \/ Fail

Spec == Init /\ [][Next]_vars
=============================================================================
