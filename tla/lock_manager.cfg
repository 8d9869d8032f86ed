CONSTANTS
  Contexts = {c1, c2, c3}
  Lockables = {l1, l2, l3}
  Nil = Nil
SPECIFICATION ManagerSpec
INVARIANTS
  AssertionsHold
  ListsAreExact
PROPERTY ImplementsNodeLocks
