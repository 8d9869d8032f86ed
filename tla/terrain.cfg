CONSTANTS
  V = 2
  Part = 2
  Degrees = 3
SPECIFICATION TerrainSpec
INVARIANTS
  CellsAreTheirPositions
  OutliersAreReplaced
  InterpolatesInside
  HeightsAreOfTheirPlace
PROPERTY ReadingAdvances
CHECK_DEADLOCK FALSE
