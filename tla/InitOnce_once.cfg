CONSTANTS
  t1 = t1
  t2 = t2
  t3 = t3
  t4 = t4
  Thread = {t1, t2, t3, t4}
  Timeouts = TRUE
  None = None
SPECIFICATION FairSpec
INVARIANTS
  InitializedOnce
  EventInv
PROPERTIES
  EveryCallReturns
CHECK_DEADLOCK FALSE
