CONSTANTS
  NumHeirs = 2
  NumBranches = 2
  Multiplier = 3
  SpilloverNum = 3
  SpilloverDen = 2
  Registries <- BuiltRegistries
  Contributions = {1, 3}
  GlobalCaps = {0, 12}
  MaxYears = 1
  MaxChanges = 0
SPECIFICATION Spec
INVARIANT NeverBreachesCap
CHECK_DEADLOCK FALSE
