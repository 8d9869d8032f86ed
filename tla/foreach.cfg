CONSTANTS
  ActiveThreads = 2
  Machines <- SmallAndLarge
  ChunkSize = 1
  Limit = 2
  InitialItems <- TwoItems
  Nhood <- Locking
  Pushes <- PushTwo
SPECIFICATION FairSpec
INVARIANTS
  TypeOK
  NothingAfterTermination
PROPERTIES
  ImplementsUnorderedSet
  Terminates
