CONSTANTS
  p1 = p1
  p2 = p2
  None = None
  Call <- TwoCalls
  Direct <- FirstCall
  Executor <- NoCalls
  LastConn = 2
  Server = {sa, sb}
  Caller = {c1, c2}
SPECIFICATION CallsOnly
INVARIANTS
  IdleNeverStopsACall
CHECK_DEADLOCK FALSE
