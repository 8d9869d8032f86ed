CONSTANTS
  Heights <- Rolling
  Corner <- Square
  Version2D = FALSE
  Steps = 3
  InsideCondition <- NearCorners
SPECIFICATION SeqSpec
INVARIANTS
  BrokenSidesHaveTheirNode
  NeverStuck
PROPERTIES
  ImplementsMeshRefinement
  SeqTerminates
