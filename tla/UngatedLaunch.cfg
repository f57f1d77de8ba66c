SPECIFICATION Spec
CONSTANTS
  Clients = {c1}
  MaxTokens = 2
  MaxBoots = 2
  MaxSessions = 1
  Ungated = TRUE
  Faults = FALSE
PROPERTY LaunchesAreRefused
CHECK_DEADLOCK FALSE
