CONSTANTS
  Storages = {s1, s2}
  MemSize = 2
  Word = 4
  None = None
SPECIFICATION Spec
CHECK_DEADLOCK FALSE
INVARIANTS
  TypeOK
  DescriptorInside
  StaleReachExplained
PROPERTIES
  TransferDelivers
