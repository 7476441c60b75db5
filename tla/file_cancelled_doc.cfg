SPECIFICATION Spec
CONSTANTS
  copy = copy
  a = a
  b = b
  Ops <- MCOps
  Tasks <- MCTasks
  TasksOf <- MCTasksOf
  Size <- MCSize
  AnyAgent = FALSE
  Precancelled = TRUE
  RacyCancel = FALSE
  MayShrink = FALSE
  MayFail = FALSE
PROPERTY CallbackCalled
CHECK_DEADLOCK FALSE
