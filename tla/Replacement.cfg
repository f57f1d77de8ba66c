SPECIFICATION ReplacementSpec
CONSTANTS
  MaxVersion = 4
  MaxFaults = 4
  Crashes = TRUE
  TornMarkers = TRUE
INVARIANTS Recoverable BackupUntilHello OldPairIsKept NewHostCarriesMarker
PROPERTIES ServedImageStays Settles
CHECK_DEADLOCK FALSE
