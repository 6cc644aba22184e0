CONSTANTS
  c1 = c1
  c2 = c2
  c3 = c3
  None = None
  Call <- ThreeCalls
  Ops <- RouteOps
  Abortable <- NoCalls
  UsesOAuth = FALSE
SPECIFICATION FairSpec
PROPERTIES
  NextCallIsAnswered
CHECK_DEADLOCK FALSE
