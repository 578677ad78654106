SPECIFICATION Spec
CONSTANTS
  NumRank = 3
  Lines <- AllLines
  Lengths = {3, 5, 7}
  OGSz = 2
INVARIANT ArrayComplete
INVARIANT WholeGets
INVARIANT RightTraces
INVARIANT OutputByGather
PROPERTY Terminates
