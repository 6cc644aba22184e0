CONSTANTS
  Null = Null
  Task = {t1}
  LastConn = 1
SPECIFICATION TaskSpec
PROPERTIES
  ReplacingNeverCancels
CHECK_DEADLOCK FALSE
