SPECIFICATION Spec
INVARIANTS
  TypeOK
  ServedIsRam
  MountedIsServed
  ModuleRestored
  BlankUnlessCut
  NfsEnvTruthful
PROPERTIES
  TornDownUnlessMissed
  ServiceRestored
