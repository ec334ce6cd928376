\* Six branches under one root would do; the counter has four values here.
CONSTANTS
  MaxBranches = 6
  CountRange = 4
  INVALID_INDEX = 2147483647
  Unsettled = Unsettled
  Scale = 60
SPECIFICATION Spec
INVARIANT LeafSharesTotal
