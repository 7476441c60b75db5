SPECIFICATION Spec
CONSTANTS
  MaxRounds = 2
  MaxTypos = 1
  MaxBreaks = 1
  MaxHalves = 5
PROPERTY DisconnectEnds
CHECK_DEADLOCK FALSE
