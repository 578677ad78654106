------------------------------- MODULE MCFourD ------------------------------
(***************************************************************************)
(* Instances of FourD for TLC.  The sources of a file are members of       *)
(* Spots, in every ascending choice of them; a file does not have its      *)
(* traces in that order.                                                   *)
(***************************************************************************)
EXTENDS FourD, FiniteSetsExt

CONSTANTS Lengths,     \* the lengths of the two files
          Spots        \* the places of sources

\* The ascending sequences of n spots.
Ascending(n) == {s \in [1 .. n -> Spots] : \A i \in 1 .. n - 1 : s[i] <= s[i + 1]}

\* Every second trace from the front, then the rest from the back.
Mixed(s) == [i \in DOMAIN s |-> IF 2 * i - 1 <= Len(s) THEN s[2 * i - 1]
                                ELSE s[2 * (Len(s) - i + 1)]]

\* The receiver is ahead of the source or, where the boat went the other way,
\* behind it.
File(s, back) == [i \in DOMAIN s |->
  [xs |-> s[i], xr |-> IF i % 2 = 0 /\ back THEN s[i] - 3 ELSE s[i] + 3, line |-> i % 3]]

AllPairs == {<<File(Mixed(a), FALSE), File(Mixed(b), TRUE)>> :
               a \in Ascending(Lengths[1]), b \in Ascending(Lengths[2])}

TwoLengths == <<8, 9>>
=============================================================================
