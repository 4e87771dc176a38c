SPECIFICATION Spec
CONSTANTS
  Size = 3
  MaxFaults = 2
  MaxSnaps = 1
CHECK_DEADLOCK FALSE
INVARIANTS
  TypeOK
  ResumeExact
  VerifiedFinal
PROPERTIES
  ProgressKept
  Completes
