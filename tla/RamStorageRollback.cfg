SPECIFICATION Spec
PROPERTIES
  RollbackPassMeansTornDown
