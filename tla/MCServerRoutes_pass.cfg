CONSTANTS
  c1 = c1
  c2 = c2
  c3 = c3
  None = None
  Call <- ThreeCalls
  Ops <- AllOps
  Abortable <- OneCall
  UsesOAuth = TRUE
SPECIFICATION FairSpec
INVARIANTS
  IInv
  OneLiveAttempt
  OpenClientsAreOwned
  ConnectedRouteIsOpen
  ShutdownIsFinal
PROPERTIES
  RoutesAsPromised
  CallsSettle
  ClosesSettle
CHECK_DEADLOCK FALSE
