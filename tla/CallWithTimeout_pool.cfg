CONSTANTS
  t1 = t1
  t2 = t2
  t3 = t3
  c1 = c1
  Thread = {t1, t2, t3}
  Context = {c1}
  CreateFails = TRUE
  None = None
SPECIFICATION FairSpec
INVARIANTS
  WaitInv
  RoutineHasItsCaller
  SuccessIsOwnAnswer
PROPERTIES
  EveryCallReturns
CHECK_DEADLOCK FALSE
