CONSTANTS
  Threads = {t1, t2, t3}
  Chunks = {x, y, z}
  Nil = Nil
SPECIFICATION QueueSpec
INVARIANTS
  QueueTypeOK
  OnlyUnseenPushesAreMissed
PROPERTY ImplementsFifo
