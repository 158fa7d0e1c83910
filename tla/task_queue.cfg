SPECIFICATION Spec
CONSTANTS
  Items = {k1, k2, k3}
  nil = nil
  chunkSize = 2
INVARIANTS NoDuplicateTask
PROPERTY ImplementsQueue
