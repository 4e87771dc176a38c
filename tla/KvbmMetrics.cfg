CONSTANTS
  Instances = {i1, i2, i3}
  Registries = {r1, r2}
  NumNames = 2
  None = None
SPECIFICATION Spec
CHECK_DEADLOCK FALSE
INVARIANTS
  TypeOK
  WholeRegistry
  NotBeforeLast
PROPERTIES
  StopsAfterLast
