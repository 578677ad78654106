SPECIFICATION ListSpec
CONSTANTS
  Key <- MCKey
  SortTypes <- MCSortTypes
  GatherKeys <- MCGatherKeys
  OutNames <- MCOutNames
  MaxOps = 3
  MaxOutputs = 2
  Disciplined = FALSE
INVARIANT OutputLasts
INVARIANT OwnOutputs
