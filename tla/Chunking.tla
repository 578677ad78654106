------------------------------ MODULE Chunking ------------------------------
(***************************************************************************)
(* Work that is done in chunks, by calls all processes have to make        *)
(* together.  contigIO and listIO in src/datampiio.cc and startSingle in   *)
(* src/flow.cc count their calls in this way: a process with sz units      *)
(* makes Calls(sz, max) calls with data and RemCall(sz, max, most) empty   *)
(* ones, where most is the size of the busiest process.                    *)
(*                                                                         *)
(* A definition Bug... is not part of the model.  It is the definition     *)
(* after it with a plausible mistake, which the properties are to notice.  *)
(***************************************************************************)
EXTENDS Integers

Calls(sz, max) == (sz \div max) + (IF sz % max > 0 THEN 1 ELSE 0)

BugRemCall(sz, max, most) ==          \* a started chunk is not counted
  (most \div max) - (sz \div max)

BugRemCallSwapped(sz, max, most) == Calls(sz, max) - Calls(most, max)

RemCall(sz, max, most) == Calls(most, max) - Calls(sz, max)

\* One pass over sz units: i are done, rem empty calls follow.
Begin(sz, max, most) == [i |-> 0, rem |-> RemCall(sz, max, most)]
More(f, sz)          == f.i < sz \/ f.rem > 0
Chunk(f, sz, max)    == IF f.i >= sz THEN 0 ELSE IF sz - f.i < max THEN sz - f.i ELSE max
Advance(f, sz, max)  == IF f.i < sz THEN [f EXCEPT !.i = @ + max]
                                    ELSE [f EXCEPT !.rem = @ - 1]
=============================================================================
