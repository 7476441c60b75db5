SPECIFICATION MCSpec
CONSTANTS
  AckBunch = 1
  Partial = TRUE
  MaxMotions = 3
  MaxButtons = 1
  MaxToggles = 1
  MaxBreaks = 1
  Keys = {grabkey, otherkey}
  GrabKeys = {grabkey}
  nothing = nothing
  Prompt = TRUE
  MaxQueue = 1
  MaxMoves = 3
  MaxFlips = 2
  CrossingGrabs = FALSE
  MaxCopies = 2
  MaxGuestCopies = 3
  MaxPastes = 1
  MaxStops = 1
  Displays = {d1, d2}
  Channels = {d1}
  MouseModes = {"client", "server"}
  MaxOps = 2
  MaxEvents = 2
  Width = 2
  GlWidth = 1
  MaxImages = 2
  MaxShows = 1
  MaxChannels = 2
  Sizes = {1, 2, 3, 5, 7}
  Heights = {1, 2, 3, 4}
  Devices = {u1, u2}
  UsbPrompt = TRUE
  MaxRoom = 2
  MaxChecks = 2
  MaxErrors = 1
CONSTRAINT FewCalls
INVARIANTS
  MCTypes
  InputsSafe
  
  ClipboardSafe
  ConfigSafe
  
PROPERTY DrawAnswered
CHECK_DEADLOCK FALSE
