SPECIFICATION MCSpec
CONSTANTS
  UsbChannels = {c1, c2}
  UsbDevices = {d1, d2}
  Threads = {t1, t2}
  MaxOps = 2
  MaxErrors = 1
  Readers = {"r1", "r2"}
  MaxEvents = 2
  MaxResets = 1
  Ids = {a, b}
  Objects = {o1, o2}
  Fallible = FALSE
  MaxFrames = 2
  MaxReplies = 2
  MaxCloses = 1
  MaxCount = 3
  MaxBytes = 6
  Specs = {"s1", "s2"}
  Early = FALSE
  MaxStarts = 2
  MaxAsks = 2
  Frame = 3
  Sizes = {2, 4}
  MaxSamples = 5
  MaxRecordings = 3
  Formats = {"f1", "f2"}
  Volumes = {"v1", "v2"}
  MaxChannels = 2
  MaxMessages = 4
  nobody = nobody
SYMMETRY Alike
CONSTRAINT FewOnBus
INVARIANTS
  MCTypes
  UsbSafe
  
  
  PipeSafe
  
  RecordSafe
  PlaybackSafe
CHECK_DEADLOCK FALSE
