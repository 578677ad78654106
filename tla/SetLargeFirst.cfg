SPECIFICATION Spec
CONSTANTS
  NumRank = 2
  MaxBlock = 2
  Sets <- AllSets
  Shapes <- LargeFirst
  Prime = 13
  Pool <- Forward
  MCTypes <- EveryType
  WordBits = 8
  MantBits = 5
INVARIANT OutputInOrder
