SPECIFICATION PrmSpec
CONSTANTS
  Prm = {p, q}
  Nt = 2
  Tens = {10, 100}
  IntMax = 127
  RuleObjs <- MCRules
  Values <- MCValues
  Foreign <- MCForeign
  MaxOps = 3
SYMMETRY Alike
PROPERTY ImplementsTable
PROPERTY StoredExactly
