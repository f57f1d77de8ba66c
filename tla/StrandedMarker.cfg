SPECIFICATION Spec
CONSTANTS
  MaxVersion = 2
  MaxFaults = 1
  Crashes = FALSE
  TornMarkers = FALSE
INVARIANT HostCanStart
CHECK_DEADLOCK FALSE
