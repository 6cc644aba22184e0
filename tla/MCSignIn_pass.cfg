CONSTANTS
  Flow = {f1, f2}
  Session = {s1, s2}
  Url = {u1, u2}
  None = None
  Null = Null
  MaxRotation = 2
  MaxLogouts = 1
SPECIFICATION MCSpec
INVARIANTS
  SignInTypeOK
  SignInsHold
  RecordsHold
PROPERTIES
  SignInsEnd
CHECK_DEADLOCK FALSE
