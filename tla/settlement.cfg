CONSTANTS
  NumHeirs = 3
  NumBranches = 3
  Multiplier = 3
  SpilloverNum = 3
  SpilloverDen = 2
  Registries <- BuiltRegistries
  Contributions = {1, 3}
  GlobalCaps = {0, 12}
  MaxYears = 2
  MaxChanges = 1
SPECIFICATION Spec
INVARIANTS
  TypeOK
  PayoutWithinClaim
  SpilloverWithinCap
  GrantsWithinCeiling
  BranchWithinEntitlement
  NothingLeftToGrant
  BooksBalance
  CappedIfEntitled
  MatchesRules
PROPERTY SettlementReturns
CHECK_DEADLOCK FALSE
