CONSTANTS
  MaxBranches = 7
  CountRange = 65536
  INVALID_INDEX = 2147483647
  Unsettled = Unsettled
  Scale = 360
SPECIFICATION Spec
INVARIANTS
  TypeOK
  SiblingChains
  SharesPerStirpes
  LeafSharesTotal
PROPERTIES
  LinksAreStable
  CallsReturn
  ImplementsFamilyTree
