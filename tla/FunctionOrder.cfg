SPECIFICATION ListSpec
CONSTANTS
  Key <- MCKey
  SortTypes <- MCSortTypes
  GatherKeys <- MCGatherKeys
  OutNames <- MCOutNames
  MaxOps = 3
  MaxOutputs = 2
  Disciplined = TRUE
INVARIANT Delivered
PROPERTIES FreshHeaders ListEnds
