SPECIFICATION FairSpec
CONSTANTS
  Main = main
  Channels = {main, display, inputs, record}
  MayFail = TRUE
  MayDisconnect = FALSE
  MaxBegins = 1
PROPERTY BeginAnswered
CHECK_DEADLOCK FALSE
