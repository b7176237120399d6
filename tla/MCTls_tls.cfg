CONSTANTS
  None = None
  p1 = p1
  p2 = p2
  p3 = p3
  Processes <- ThreeCommands
  Placements <- OneOrTwoHosts
  HardLinks <- OnlyLinks
  REMOTE_STALE = 1
  FRESH = 0
  OBSERVE = 2
  WAIT = 1
  MaxTurn = 6
  Budgets <- FewFaults
SPECIFICATION TlsSpec
INVARIANTS
  Exclusive
  RenewedInTime
  TakenUp
  ValidIsAccepted
  LeafInScope
PROPERTIES
  NoFutureLeaf
  NeverForWorse
  NeverSilentlyHttp
  FailureRestores
SYMMETRY Alike
CHECK_DEADLOCK FALSE
