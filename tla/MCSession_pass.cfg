CONSTANTS
  Runtime = {r1, r2, r3}
  Registration = {g1, g2}
  Install = {i1, i2}
  File = File
  None = None
  Null = Null
  Versions = {v1, v2}
SPECIFICATION MCSpec
INVARIANTS
  SessionTypeOK
  RuntimesHold
  NamesAreHeld
PROPERTIES
  SessionsGoOn
  FilesWin
CHECK_DEADLOCK FALSE
