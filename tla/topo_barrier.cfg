CONSTANTS
  ActiveThreads = 7
  Machines <- SixSockets
  Rounds = 2
  SenseBits = 1
SPECIFICATION TopoSpec
PROPERTY ImplementsBarrier
