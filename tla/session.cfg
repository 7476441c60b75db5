SPECIFICATION MCSpec
CONSTANTS
  HasPort = TRUE
  HasTlsPort = TRUE
  Roles = {"plain", "source", "target"}
  MayDestroy = TRUE
  Reasons = {"NONE", "CLOSED", "SWITCHING"}
  MaxConnects = 3
  Channels = {"main", "display", "inputs", "record"}
  MainChannel = "main"
  MayFail = TRUE
  MayDisconnect = TRUE
  MaxBegins = 3
  MaxRounds = 2
  MaxTypos = 1
  MaxBreaks = 1
  MaxHalves = 5
  usb = usb
  loop = loop
  none = none
  ack = ack
  f1 = f1
INVARIANTS
  MCTypes
  LifeSafe
  SwitchSafe
  AuthSafe
PROPERTIES
  HostSwitchSpec
  ChannelLive
  SessionLive
CHECK_DEADLOCK FALSE
