CONSTANTS
  t1 = t1
  t2 = t2
  t3 = t3
  t4 = t4
  Thread = {t1, t2, t3, t4}
  MaxCount = 4
SPECIFICATION FairSpec
INVARIANTS
  WordInv
PROPERTIES
  LockSpec
  EveryAskIsGranted
CHECK_DEADLOCK FALSE
