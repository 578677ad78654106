SPECIFICATION Spec
CONSTANTS
  NumRank = 2
  MaxSize = 8
  Modes = {TRUE, FALSE}
  Faulty = {"contig", "strided"}
  Workloads <- AllWorkloads
  Kinds = {"contig", "strided", "list"}
  MaxUnits = 3
  Length = 2
INVARIANT ExactTransfer
INVARIANT CountsFit
PROPERTY InStep
PROPERTY Terminates
