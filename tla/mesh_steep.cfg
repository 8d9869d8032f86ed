CONSTANTS
  Heights <- Steep
  Corner <- Strip
  Version2D = FALSE
  Steps = 2
  InsideCondition <- Deviates
  MultiThreaded = TRUE
SPECIFICATION FairSpec
INVARIANTS
  BrokenSidesHaveTheirNode
  OneVertexPerLocation
  HangingFlagsAreExact
  TrianglesTile
  NeverStuck
PROPERTIES
  OnlyFirmEdgesBreak
  Terminates
