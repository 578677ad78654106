---------------------------- MODULE MCLifetimes -----------------------------
(***************************************************************************)
(* An instance of Lifetimes for TLC: two processes, files that are read    *)
(* and written, rules and parameters, and an error.                        *)
(***************************************************************************)
EXTENDS Lifetimes

MCKinds == {"ReadDirect", "WriteDirect", "Rule", "Param"}
=============================================================================
