SPECIFICATION Spec
CONSTANTS
  NumRank = 2
  MaxSize = 8
  Modes = {TRUE, FALSE}
  Faulty = {"list"}
  Workloads <- AllWorkloads
  Kinds = {"list"}
  MaxUnits = 3
  Length = 1
INVARIANT ErrorsReported
