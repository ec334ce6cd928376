CONSTANTS
  Multiplier = 3
  SpilloverNum = 3
  SpilloverDen = 2
  Registries <- BuiltRegistries
  Contributions = {0, 3}
  GlobalCaps = {0, 12}
  MaxYears = 2
  MaxChanges = 1
SPECIFICATION Spec
INVARIANTS
  TypeOK
  SettlementsAgree
  LegacyKeepsBounds
PROPERTIES
  SpilloverIsCarriedOver
  FutureStartsAfresh
CHECK_DEADLOCK FALSE
