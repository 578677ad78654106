SPECIFICATION Spec
CONSTANTS
  NumRank = 2
  Lnt <- LntTwoWide
  Inputs <- AllDeals
  Width = 2
  Eager = TRUE
INVARIANT RowsKept
PROPERTY RoundsProgress
PROPERTY ImplementsPromise
