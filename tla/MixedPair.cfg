SPECIFICATION Spec
CONSTANTS
  MaxVersion = 2
  MaxFaults = 1
  Crashes = TRUE
  TornMarkers = FALSE
INVARIANT AtomicPair
CHECK_DEADLOCK FALSE
