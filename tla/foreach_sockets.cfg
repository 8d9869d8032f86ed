CONSTANTS
  ActiveThreads = 3
  Machines <- Interleaved
  ChunkSize = 1
  Limit = 1
  InitialItems <- TwoItems
  Nhood <- Locking
  Pushes <- PushC
SPECIFICATION FairSpec
INVARIANT NothingAfterTermination
PROPERTIES
  ImplementsUnorderedSet
  Terminates
