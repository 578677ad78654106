----------------------------- MODULE MCSegyFile -----------------------------
(***************************************************************************)
(* Instances of SegyFile for TLC: a new file, and one that is already      *)
(* there with more traces, of another number of samples.                   *)
(***************************************************************************)
EXTENDS SegyFile

NewAndOld == {[size |-> 0,             header |-> [ns |-> 0, about |-> "none"]],
              [size |-> FileSz(9, 50), header |-> [ns |-> 50, about |-> "none"]]}
=============================================================================
