CONSTANTS
  Seeds = {11, 12}
  Requests = {0, 2, 3, 4, 5}
  Tiny <- SomeTiny
  Nobody = Nobody
  Zero = Zero
  MaxCalls = 12
SPECIFICATION Spec
INVARIANTS
  TypeOK
  BatchIsFresh
PROPERTIES
  CallsReturn
  IsAStream
CHECK_DEADLOCK FALSE
