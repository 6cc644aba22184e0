CONSTANTS
  p1 = p1
  p2 = p2
  None = None
  Call <- TwoCalls
  Direct <- FirstCall
  Executor <- SecondCall
  LastConn = 3
  Server = {sa, sb}
  Caller = {c1, c2}
SPECIFICATION MCSpec
INVARIANTS
  IInv
  AtMostOnce
  NeverOverCounted
  CountCovers
PROPERTIES
  CallsSettle
  ProxyIsTrue
CHECK_DEADLOCK FALSE
