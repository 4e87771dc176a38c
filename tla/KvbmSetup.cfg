CONSTANTS
  NumBlocks = {1, 2, 3}
  NumLayers = {1, 2}
  PageSizes = {1, 2, 3, 4, 8}
  InnerDims = {1, 4, 6}
  MaxPage = 4
  None = None
  MaxCalls = 4
SPECIFICATION Spec
CHECK_DEADLOCK FALSE
INVARIANTS
  GeometryExact
  OneSource
  DegradedExplained
