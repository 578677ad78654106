------------------------------ MODULE SortSpec ------------------------------
(***************************************************************************)
(* What the distributed sort of src/sort.cc promises its callers           *)
(* (Set::sort, the sort utility): the processes agree on one sorted        *)
(* arrangement of the entries they brought, with the same local lengths,   *)
(* and each of them returns with its part of it.  How the arrangement is   *)
(* found and in which order the processes return is left open.             *)
(***************************************************************************)
EXTENDS Placement

CONSTANT Inputs        \* the distributed vectors the caller may bring

VARIABLES dat,         \* the vector a process passes in and gets back
          agreed,      \* the arrangement that is returned, when there is one
          returned     \* the processes that are back in their caller

vars == <<dat, agreed, returned>>

NoVector == <<>>

Init == /\ dat \in Inputs
        /\ agreed = NoVector
        /\ returned = {}

Agree == /\ agreed = NoVector
         /\ IsVector(agreed')
         /\ GloballySorted(agreed')
         /\ RowsOf(agreed') = RowsOf(dat)
         /\ UNCHANGED <<dat, returned>>

Return(r) == /\ agreed # NoVector
             /\ r \notin returned
             /\ dat' = [dat EXCEPT ![r] = agreed[r]]
             /\ returned' = returned \cup {r}
             /\ UNCHANGED agreed

Next == Agree \/ \E r \in Rank : Return(r)

Spec == Init /\ [][Next]_vars
=============================================================================
