CONSTANTS
  Connection = {c1, c2, c3, c4}
  Def = {d1, d2}
  HttpDef = {d1}
  None = None
  Null = Null
  MaxVersion = 2
  Task = {t1}
  LastConn = 2
  Content = {a1, a2}
  Absent = Absent
  MaxEdits = 4
SPECIFICATION MCSpec
INVARIANTS
  ActiveListenIsOpen
CHECK_DEADLOCK FALSE
