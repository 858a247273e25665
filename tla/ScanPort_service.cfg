SPECIFICATION FairSpec
CONSTANTS
  c1 = c1 c2 = c2
  w1 = w1 w2 = w2
  good = good bad = bad
  None = None
  Caller = {c1, c2}
  Worker = {w1, w2}
  File = {good, bad}
  Infected = {bad}
  MaxScanId = 2
INVARIANTS
  BufferHasOneUser
  WorkersAreServed
  ScanOwnsItsContext
PROPERTIES
  CallSpec
  ScanReturns
CHECK_DEADLOCK FALSE
