SPECIFICATION Spec
INVARIANTS
  OriginalStatePreserved
