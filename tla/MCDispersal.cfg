SPECIFICATION Spec
CONSTANTS
  Prime = 7
  WireMax = 7
  Systems <- MCSystems
  Sizes = {0, 1, 2, 3, 5, 6, 8, 9, 13, 14, 15, 18, 24, 25, 29}
  Schemes <- MCSchemes
  Data <- MCData
INVARIANTS Recovered BranchesSeparate SchemeFits OneValue 
CHECK_DEADLOCK FALSE
