SPECIFICATION Spec
CONSTANTS
  CrossingGrabs = TRUE
  MaxCopies = 1
  MaxGuestCopies = 1
  MaxPastes = 1
  MaxStops = 0
INVARIANT RequestAsserted
CHECK_DEADLOCK FALSE
