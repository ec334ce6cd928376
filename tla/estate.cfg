\* Majority at one year of age, so that a newborn comes of age in a run.
CONSTANTS
  Multiplier = 3
  SpilloverNum = 3
  SpilloverDen = 2
  Endowments = {64, 96}
  Policies <- AnyPolicy
  Seeds <- YoungFamilies
  Majority = 1
  BranchAges = {2, 3}
  BirthAges = {2}
  DefaultBase = 2
  Shocks = {0, 1}
  Growths = {1, 3}
  CountRange = 65536
  TotalYears = {1, 2}
  MaxHeirs = 3
  MaxBranches = 4
  MaxCalls = 4
  MaxYears = 2
SPECIFICATION Spec
INVARIANTS
  TypeOK
  ContributionsAligned
  NewbornsWait
  CodesIdentifyBranches
  SnapshotsAccount
  HistoryChains
PROPERTIES
  LinesKeepTheirShare
  SimulationEnds
CHECK_DEADLOCK FALSE
