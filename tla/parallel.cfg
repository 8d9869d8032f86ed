CONSTANTS
  Heights <- Steep
  Corner <- Strip
  Version2D = FALSE
  Steps = 2
  InsideCondition <- Deviates
  Threads = {t1, t2}
SPECIFICATION ParSpec
INVARIANT SnapshotIsCurrent
PROPERTIES
  Serializable
SYMMETRY Symmetry
