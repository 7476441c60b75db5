SPECIFICATION Spec
CONSTANTS
  Tasks = {t1, t2}
  MayReset = FALSE
  MaxChunks = 1
  MaxPushes = 2
  MaxGrants = 2
PROPERTY AllIsSent
CHECK_DEADLOCK FALSE
