SPECIFICATION Spec
CONSTANTS
  Formats = {f1, f2}
  Volumes = {v1, v2}
  None = None
  MaxChannels = 2
  MaxMessages = 4
PROPERTY SlotFree
CHECK_DEADLOCK FALSE
