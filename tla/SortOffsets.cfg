SPECIFICATION Spec
CONSTANTS
  NumRank = 2
  MaxBlock = 2
  Sets <- AllSets
  Shapes <- GoodShapes
  Prime = 13
  Pool <- BothSides
  MCTypes <- RecordedType
  WordBits = 8
  MantBits = 5
INVARIANT SortedAsSaid
