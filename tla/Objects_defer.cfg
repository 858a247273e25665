CONSTANTS
  o1 = o1
  o2 = o2
  t1 = t1
  t2 = t2
  d1 = d1
  Object = {o1, o2}
  Listed = {}
  Deferrable = {o1, o2}
  Thread = {t1, t2}
  Deleter = {d1}
  MaximumCount = 1
  MaxReferences = 1
  MaxPools = 0
  MaxItems = 2
  None = None
SPECIFICATION FairSpec
PROPERTY
  DeferredObjectIsDeleted
CHECK_DEADLOCK FALSE
