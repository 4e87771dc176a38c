CONSTANTS
  Files = {f1, f2}
  Sizes <- MCSizes
  PageSize = 2
  ZeroBufSize = 3
SPECIFICATION Spec
SYMMETRY FileSymmetry
CHECK_DEADLOCK FALSE
INVARIANTS
  DropReleasesSpace
