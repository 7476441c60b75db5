SPECIFICATION MCSpec
CONSTANTS
  Tasks = {t1, t2}
  MayReset = TRUE
  MaxChunks = 2
  MaxPushes = 3
  MaxGrants = 2
  Header = 2
  MaxData = 3
  PieceSizes = {0, 1, 3}
  MaxPieces = 2
  MaxMessages = 2
  Copies = {{file1, file2}}
  EmptyFiles = {file2}
  Blocks = 2
  AnyAgent = TRUE
  Precancelled = TRUE
  RacyCancel = TRUE
  MayShrink = TRUE
  MayFail = TRUE
  Local = {"local"}
  Guest = {"guest"}
  WINDOW_SIZE = 4
  Bytes = 5
  MaxRead = 2
  MaxConns = 1
  MaxAssoc = 1
  MaxQueue = 1
  MaxLosses = 1
INVARIANTS
  MCTypes
  TokensHonoured
  AgentSafe
  FileSafe
  ForwardSafe
  
PROPERTY MainLive
CHECK_DEADLOCK FALSE
