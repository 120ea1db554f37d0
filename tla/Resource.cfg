CONSTANTS
  n1 = n1
  n2 = n2
  a = a
  b = b
  monitor = monitor
  A = A
  B = B
  M = M
  Name = {n1, n2}
  NoName = none
  Caller = {a, b}
  Monitor = monitor
  MaxObject = 2
  Durable = {1}
  WorkerOf <- TwoWorkers
  May <- Divided
SPECIFICATION Spec
SYMMETRY Symmetry
CONSTRAINT UntilOverruled
INVARIANTS EveryObjectHasOnePlace CleanupsAreAlone LeasableIsDurable ExitDestroysEphemerals
CHECK_DEADLOCK FALSE
