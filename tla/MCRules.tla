------------------------------ MODULE MCRules -------------------------------
(***************************************************************************)
(* Two index entries, two parameters with predefined rules (il as a long,  *)
(* ySrc as a float) and the copy; a caller may put a long of its own at    *)
(* any meta, add another rule as a whole with the last place there is, and *)
(* ask for il when it is not there.  The places are those of SEG-Y.        *)
(***************************************************************************)
EXTENDS Rules

CONSTANTS il, ySrc

Long(loc)  == [type |-> "Long", lo |-> loc - 1, hi |-> loc + 3]
SEGYFloat(loc, scal) == [type |-> "Float", lo |-> IF scal < loc THEN scal - 1 ELSE loc - 1,
                         hi |-> IF scal + 1 > loc + 3 THEN scal + 1 ELSE loc + 3]

MCMeta == {gtn, ltn, il, ySrc, COPY}

MCDefault == [m \in {il, ySrc, COPY} |->
                CASE m = il   -> Long(189)
                  [] m = ySrc -> SEGYFloat(77, 71)
                  [] m = COPY -> CopyField]

MCFields == {Long(13)}

MCOthers == {[m \in {gtn, il, ySrc, COPY} |-> IF m = gtn THEN IndexField ELSE
                                              IF m = ySrc THEN Long(237) ELSE MCDefault[m]]}
=============================================================================
