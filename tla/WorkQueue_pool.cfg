CONSTANTS
  i1 = i1
  i2 = i2
  n1 = n1
  w1 = w1
  w2 = w2
  w3 = w3
  v1 = v1
  v2 = v2
  Item = {i1, i2, n1}
  Nested = {n1}
  Worker = {w1, w2, w3}
  Waiter = {v1, v2}
  Minimum = {0, 1}
  MaximumThreads = 2
  CreateFails = TRUE
  None = None
SPECIFICATION FairSpec
INVARIANTS
  QueueInv
  EndInv
PROPERTIES
  QueueIsServed
  DeleteReturns
CHECK_DEADLOCK FALSE
