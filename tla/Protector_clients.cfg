SPECIFICATION ProtectorSpec
CONSTANTS
  p1 = p1 p2 = p2 p3 = p3
  Nobody = Nobody
  Process = {p1, p2, p3}
SYMMETRY Symmetry
INVARIANTS
  ClientIsOutOfReach
  ExemptIsClient
  TableHoldsClients
CHECK_DEADLOCK FALSE
