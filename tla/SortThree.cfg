SPECIFICATION Spec
CONSTANTS
  NumRank = 3
  Lnt <- LntThree
  Inputs <- AllDeals
  Width = 2
  Eager = FALSE
INVARIANT SortedOnReturn
INVARIANT FreshBlocks
PROPERTY Terminates
