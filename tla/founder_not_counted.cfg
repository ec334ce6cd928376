CONSTANTS
  Multiplier = 3
  SpilloverNum = 3
  SpilloverDen = 2
  Endowments = {96}
  Policies <- Hybrid
  Seeds <- LoneFounder
  Majority = 1
  BranchAges = {2, 3}
  BirthAges = {2}
  DefaultBase = 2
  Shocks = {1}
  Growths = {1}
  CountRange = 65536
  TotalYears = {1}
  MaxHeirs = 3
  MaxBranches = 4
  MaxCalls = 4
  MaxYears = 2
SPECIFICATION Spec
INVARIANT ContributorsAreCounted
CHECK_DEADLOCK FALSE
