SPECIFICATION BinSpec
CONSTANTS
  NumRank = 2
  Pairs <- AllPairs
  Lengths <- TwoLengths
  Spots = {0, 1, 4}
  DsrMax = 1
  Align = 2
  Max1 = 4
  Max2 = 2
  MaxOut = 2
  Far = 1000
INVARIANT PairsWritten
INVARIANT InnerClosest
PROPERTY BinEnds
