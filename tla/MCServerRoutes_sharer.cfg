CONSTANTS
  c1 = c1
  c2 = c2
  c3 = c3
  None = None
  Call <- ThreeCalls
  Ops <- RouteOps
  Abortable <- ThreeCalls
  UsesOAuth = FALSE
SPECIFICATION Spec
SYMMETRY Symmetry
INVARIANT
  ReturnsAreRoutes
CHECK_DEADLOCK FALSE
