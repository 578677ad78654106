SPECIFICATION Spec
CONSTANTS
  NumRank = 2
  MaxNt = 3
  MaxCalls = 4
  Samples = {2, 40000}
  Abouts = {"none", "given"}
  OldFiles <- NewAndOld
INVARIANT CountKnown
INVARIANT ReadsBack
PROPERTY ImplementsPromise
PROPERTY Terminates
