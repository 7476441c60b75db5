SPECIFICATION MCSpec
CONSTANTS
  Streams = {1, 2}
  Sizes = {1, 2}
  MaxObjects = 4
  Secondary = TRUE
  W = 6
  Thresh = 1
  Window = 3
  DropLimit = 2
  SyncLimit = 3
  MaxFrames = 4
  MaxSets = 1
  Displays = {1, 2}
  Capacity = 4
  MaxImages = 7
  MaxLag = 2
  LagAfterClear = 0
  MaxClears = 1
  Pictures = {1}
  AnyOrder = FALSE
  MaxMessages = 6
  NFrames = 4
  MaxResets = 2
  Shapes = {"arrow"}
  Null = "null"
  Blank = "blank"
  MaxSaid = 4
  MaxBreaks = 1
INVARIANTS
  MCTypes
  DisplaySafe
  MjpegSafe
  
  CursorSafe
  GstSafe
PROPERTY GstLive
CHECK_DEADLOCK FALSE
