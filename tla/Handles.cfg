SPECIFICATION Spec
CONSTANTS
  NumRank = 2
  Kinds <- MCKinds
  MaxCalls = 4
  MaxHandles = 3
  MaxLead = 1
  MaxErrors = 1
INVARIANT MpiCovers
INVARIANT ErrorsSaid
PROPERTY Terminates
CHECK_DEADLOCK FALSE
